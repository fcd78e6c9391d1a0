---------------------------- MODULE Order_proofs ----------------------------
(***************************************************************************)
(* The device does everything as if it had been done at once, in program   *)
(* order, no transfer is left when a call returns, and run() delivers its  *)
(* outputs; the device dirty flag means what README.md says, and a client  *)
(* sees a synchronous device, EasyCLSync.  Theorems for every instance of  *)
(* EasyCLRuntime and a client that passes all parameters before a run,     *)
(* keeps what it passed on the device and uses its wrappers on the default *)
(* queue.                                                                  *)
(***************************************************************************)
EXTENDS Runtime_proofs

(* The buffer of a plain array is used by the run under way, that of a     *)
(* wrapper on the default queue only.                                      *)
ArrayUse == \A q \in Queues : \A k \in Kernels :
              Used(q) \cap buffers[k] # {}
                => busy.op = "run" /\ busy.k = k /\ busy.q = q
WrapperUse == \A q \in Queues \ {DefaultQueue} : \A w \in OnDevice :
                devicearray[w] \notin Used(q)

(* Only copyToDevice writes to the device, from its wrapper; only          *)
(* copyToHost reads into a wrapper.                                        *)
HostUse ==
  \A q \in Queues : \A c \in Commands(q) :
    /\ c.op = "write" =>
         q = DefaultQueue /\ busy.op = "upload" /\ c.array = busy.w
    /\ c.op = "read" /\ c.array \in Wrappers =>
         q = DefaultQueue /\ busy.op = "download" /\ c.array = busy.w

(* What run() reads back are buffers and arrays of its own.                *)
OutputsOwn == \A k \in Kernels : \A i \in DOMAIN outputs[k] :
                /\ outputs[k][i].buf \in buffers[k]
                /\ outputs[k][i].array \notin Wrappers

Use == ArrayUse /\ WrapperUse /\ HostUse /\ OutputsOwn
-----------------------------------------------------------------------------
(* Which queue uses what, step by step.                                    *)
Order == Ordered /\ Use

(* The call in progress, as far as Use is concerned: it goes on, starts,   *)
(* or returns, having waited for its transfer or released its buffers.     *)
CallGoesOn ==
  \/ busy' = busy
  \/ busy.op \in {"idle", "finish"}
  \/ busy.op \in {"upload", "download"} /\ pending[DefaultQueue] = <<>>
  \/ busy.op = "run" /\ busy'.op = "run" /\ busy'.k = busy.k /\ busy'.q = busy.q
  \/ busy.op = "run" /\ buffers'[busy.k] = {}

(* New buffers of wrappers and kernels are in use nowhere.                 *)
NewUnused ==
  /\ \A k \in Kernels : \A b \in buffers'[k] : b \in buffers[k] \/ b \notin InFlight
  /\ \A w \in OnDevice' : \/ w \in OnDevice /\ devicearray'[w] = devicearray[w]
                          \/ devicearray'[w] \notin InFlight

LEMMA QuietUse ==
  ASSUME Use, UNCHANGED pending, CallGoesOn, NewUnused, OutputsOwn'
  PROVE  Use'
<1>1. /\ \A q \in Queues : Used(q)' = Used(q) /\ Used(q) \subseteq InFlight
      /\ \A q \in Queues : Commands(q)' = Commands(q)
  BY DEF Used, Commands, InFlight
<1>2. ArrayUse'
  <2>1. ASSUME NEW q \in Queues, NEW k \in Kernels, NEW b \in Used(q), b \in buffers'[k]
        PROVE  busy'.op = "run" /\ busy'.k = k /\ busy'.q = q
    <3>1. b \in buffers[k]
      BY <1>1, <2>1 DEF NewUnused
    <3>2. busy.op = "run" /\ busy.k = k /\ busy.q = q
      BY <2>1, <3>1 DEF Use, ArrayUse
    <3> QED
      BY <2>1, <3>2 DEF CallGoesOn
  <2> QED
    BY <1>1, <2>1 DEF ArrayUse
<1>3. WrapperUse'
  BY <1>1 DEF Use, WrapperUse, NewUnused
<1>4. HostUse'
  <2>1. ASSUME NEW q \in Queues, NEW c \in Commands(q), c.op = "write"
        PROVE  q = DefaultQueue /\ busy'.op = "upload" /\ c.array = busy'.w
    BY <2>1 DEF Use, HostUse, CallGoesOn, Commands
  <2>2. ASSUME NEW q \in Queues, NEW c \in Commands(q), c.op = "read", c.array \in Wrappers
        PROVE  q = DefaultQueue /\ busy'.op = "download" /\ c.array = busy'.w
    BY <2>2 DEF Use, HostUse, CallGoesOn, Commands
  <2> QED
    BY <1>1, <2>1, <2>2 DEF HostUse
<1> QED
  BY <1>2, <1>3, <1>4 DEF Use

(* Command c is added to queue q.                                          *)
LEMMA EnqueueUse ==
  ASSUME TypeOK, Use, NEW q \in Queues, NEW c \in Command, Enqueue(q, <<c>>),
         UNCHANGED <<buffers, outputs>>, NewUnused,
         \/ busy.op = "idle"
         \/ busy.op = "run" /\ busy'.op = "run" /\ busy'.k = busy.k /\ busy'.q = busy.q,
         \A k \in Kernels : Uses(c) \cap buffers[k] # {}
           => busy'.op = "run" /\ busy'.k = k /\ busy'.q = q,
         q # DefaultQueue => \A w \in OnDevice' : devicearray'[w] \notin Uses(c),
         c.op = "write" =>
           q = DefaultQueue /\ busy'.op = "upload" /\ c.array = busy'.w,
         c.op = "read" /\ c.array \in Wrappers =>
           q = DefaultQueue /\ busy'.op = "download" /\ c.array = busy'.w
  PROVE  Use'
<1>1. /\ Commands(q)' = Commands(q) \cup {c}
      /\ \A p \in Queues \ {q} : Commands(p)' = Commands(p)
      /\ Used(q)' = Used(q) \cup Uses(c)
      /\ \A p \in Queues \ {q} : Used(p)' = Used(p)
      /\ \A p \in Queues : Used(p) \subseteq InFlight
  BY EnqueueElements DEF InFlight, Used, TypeOK
<1>2. ArrayUse'
  BY <1>1 DEF Use, ArrayUse
<1>3. WrapperUse'
  BY <1>1 DEF Use, WrapperUse, NewUnused
<1>4. HostUse'
  BY <1>1 DEF Use, HostUse
<1>5. OutputsOwn'
  BY DEF Use, OutputsOwn
<1> QED
  BY <1>2, <1>3, <1>4, <1>5 DEF Use

(* The device executes a command.  No array it reads into is waiting to be *)
(* written to the device.                                                  *)
LEMMA ExecuteOrder ==
  ASSUME TypeOK, Order, NEW q \in Queues, DeviceStep(q)
  PROVE  Order'
<1>1. Execute(q) /\ UNCHANGED <<wrapperVars, kernelVars, busy>>
  BY DEF DeviceStep
<1>2. Use'
  BY <1>1, ExecuteElements
  DEF Order, Use, ArrayUse, WrapperUse, HostUse, OutputsOwn, OnDevice, wrapperVars,
      kernelVars, TypeOK
<1>3. ASSUME NEW p \in Queues, NEW c \in Commands(p), c.op = "write"
      PROVE  host'[c.array] = host[c.array]
  <2>1. busy.op = "upload" /\ c.array = busy.w /\ busy.w \in Wrappers
    BY <1>3 DEF Order, Use, HostUse, TypeOK, WrapperTypeOK, HostState
  <2>2. PICK d \in Commands(q) : d = Head(pending[q])
    BY <1>1, ExecuteElements DEF Commands, TypeOK
  <2>3. d.op = "read" => d.array # c.array
    BY <2>1 DEF Order, Use, HostUse
  <2> QED
    BY <1>1, <2>1, <2>2, <2>3, WrapperAssumption DEF Execute, TypeOK, DeviceTypeOK
<1> QED
  BY <1>1, <1>2, <1>3, ExecuteOrdered DEF Order, TypeOK

(* Nothing changes for the device, and no buffer has a new owner.          *)
LEMMA SameOrder ==
  ASSUME TypeOK, Order, UNCHANGED <<host, mem, pending, intended>>, CallGoesOn, OutputsOwn',
         \A k \in Kernels : buffers'[k] \subseteq buffers[k],
         \A w \in OnDevice' : w \in OnDevice /\ devicearray'[w] = devicearray[w]
  PROVE  Order'
<1>1. NewUnused
  BY DEF NewUnused
<1>2. Use'
  BY <1>1, QuietUse DEF Order
<1>3. Ordered'
  BY QuietOrdered DEF Order, TypeOK
<1> QED
  BY <1>2, <1>3 DEF Order

(* A buffer is created, with the content it has in program order.          *)
LEMMA NewOrder ==
  ASSUME TypeOK, Order, busy = Idle, UNCHANGED <<host, pending>>, OutputsOwn',
         NEW b \in FreeBuffers, NEW v, Create(b, v), Intend({b}, v),
         \A k \in Kernels : buffers'[k] \subseteq buffers[k] \cup {b},
         \A w \in OnDevice' : \/ w \in OnDevice /\ devicearray'[w] = devicearray[w]
                             \/ devicearray'[w] = b
  PROVE  Order'
<1>1. b \in Buffers /\ b \notin InFlight
  BY DEF FreeBuffers
<1>2. NewUnused /\ CallGoesOn
  BY <1>1 DEF NewUnused, CallGoesOn, Idle
<1>3. Use'
  BY <1>2, QuietUse DEF Order
<1>4. ASSUME NEW a \in Buffers
      PROVE  \/ mem'[a] = mem[a] /\ intended'[a] = intended[a]
             \/ a \notin InFlight /\ mem'[a] = intended'[a]
  <2>1. /\ mem \in [Buffers -> Data] /\ mem' = [mem EXCEPT ![b] = v]
        /\ intended' = [x \in Buffers |-> IF x \in {b} THEN v ELSE intended[x]]
    BY DEF Create, Intend, TypeOK, DeviceTypeOK
  <2>2. CASE a = b
    BY <1>1, <2>1, <2>2
  <2>3. CASE a # b
    BY <2>1, <2>3
  <2> QED
    BY <2>2, <2>3
<1>5. Ordered'
  BY <1>4, QuietOrdered DEF Order, TypeOK
<1> QED
  BY <1>3, <1>5 DEF Order

(* The client writes into one of its arrays: no command is waiting to.     *)
LEMMA EditOrder ==
  ASSUME TypeOK, Order, NEW h \in Hosts, NEW v \in Val, Edit(h, v)
  PROVE  Order'
<1>1. /\ busy = Idle
      /\ UNCHANGED <<mem, pending, intended, devicearray, onDevice, buffers, outputs, busy>>
  BY DEF Edit, deviceVars, kernelVars
<1>2. Use'
  BY <1>1 DEF Order, Use, ArrayUse, WrapperUse, HostUse, OutputsOwn, OnDevice, Used, Commands
<1>3. \A q \in Queues : \A c \in Commands(q) : c.op # "write"
  BY <1>1 DEF Order, Use, HostUse, Idle
<1>4. Ordered'
  BY <1>1, <1>3, QuietOrdered DEF Order, TypeOK
<1> QED
  BY <1>2, <1>4 DEF Order

(* What is used on one queue is not used on another: the buffer of a       *)
(* wrapper on the default queue, that of a plain array on the queue of the *)
(* run under way.                                                          *)
LEMMA Elsewhere ==
  ASSUME Order, NEW q \in Queues, NEW p \in Queues \ {q}, NEW b,
         \/ q = DefaultQueue /\ \E w \in OnDevice : devicearray[w] = b
         \/ \E k \in Kernels : b \in buffers[k] /\ (busy = Idle \/ busy.q = q)
  PROVE  b \notin Used(p)
BY DEF Order, Use, WrapperUse, ArrayUse, Idle

(* What a wrapper does.                                                    *)
LEMMA CopyToDeviceOrder ==
  ASSUME TypeOK, Ownership, Order, NEW w \in Wrappers, CopyToDevice(w)
  PROVE  Order'
<1>1. /\ busy = Idle /\ busy' = [op |-> "upload", w |-> w]
      /\ UNCHANGED <<host, nextArg, arg, buffers, outputs, wrappersToDirty>>
      /\ DefaultQueue \in Queues
  BY DeviceAssumption DEF CopyToDevice, kernelVars
<1>2. PICK b \in Buffers :
        /\ Intend({b}, host[w])
        /\ Enqueue(DefaultQueue, <<Write(b, w)>>)
        /\ \/ /\ onDevice[w] /\ b = devicearray[w]
              /\ UNCHANGED <<mem, devicearray, onDevice>>
           \/ /\ b \in FreeBuffers /\ Attach(w, b)
  BY DEF CopyToDevice, FreeBuffers, TypeOK, WrapperTypeOK
<1>3. PICK c \in Command : c = Write(b, w)
  BY WrapperAssumption DEF Write, Command
<1>4. /\ c.op = "write" /\ c.array = w /\ Uses(c) = {b} /\ Writes(c) = {b}
      /\ Leaves(c) = host[w]
      /\ Enqueue(DefaultQueue, <<c>>)
  BY <1>2, <1>3 DEF Write, Uses, Writes, Leaves
<1>5. /\ \A k \in Kernels : b \notin buffers[k]
      /\ \A p \in Queues \ {DefaultQueue} : b \notin Used(p)
      /\ \A v \in OnDevice' : \/ v \in OnDevice /\ devicearray'[v] = devicearray[v]
                              \/ devicearray'[v] = b /\ b \notin InFlight
      /\ \A a \in Buffers : mem'[a] = mem[a] \/ (a = b /\ b \notin InFlight)
  <2>1. CASE onDevice[w] /\ b = devicearray[w] /\ UNCHANGED <<mem, devicearray, onDevice>>
    BY <1>1, <2>1, Elsewhere DEF Ownership, OnDevice
  <2>2. CASE b \in FreeBuffers /\ Attach(w, b)
    BY <2>2 DEF Ownership, OnDevice, FreeBuffers, Attach, Create, InFlight, Used,
                TypeOK, WrapperTypeOK, DeviceTypeOK
  <2> QED
    BY <1>2, <2>1, <2>2
<1>6. NewUnused
  BY <1>1, <1>5 DEF NewUnused
<1>7. Use'
  BY <1>1, <1>4, <1>5, <1>6, EnqueueUse DEF Order, Idle
<1>8. \A a \in Buffers : intended'[a] = IF a \in Writes(c) THEN Leaves(c) ELSE intended[a]
  BY <1>2, <1>4 DEF Intend
<1>9. Ordered'
  BY <1>1, <1>4, <1>5, <1>8, EnqueueOrdered DEF Order, TypeOK
<1> QED
  BY <1>7, <1>9 DEF Order

LEMMA CopyToHostOrder ==
  ASSUME TypeOK, Ownership, Order, NEW w \in Wrappers, CopyToHost(w)
  PROVE  Order'
<1>1. /\ busy = Idle /\ busy' = [op |-> "download", w |-> w] /\ onDevice[w]
      /\ UNCHANGED <<host, mem, intended, devicearray, onDevice, buffers, outputs>>
      /\ DefaultQueue \in Queues /\ devicearray[w] \in Buffers
  BY DeviceAssumption DEF CopyToHost, wrapperVars, kernelVars, TypeOK, WrapperTypeOK
<1>2. PICK c \in Command : c = Read(devicearray[w], w)
  BY <1>1, WrapperAssumption DEF Read, Command
<1>3. /\ c.op = "read" /\ c.array = w /\ Uses(c) = {devicearray[w]} /\ Writes(c) = {}
      /\ Enqueue(DefaultQueue, <<c>>)
  BY <1>2 DEF Read, Uses, Writes, CopyToHost
<1>4. /\ \A k \in Kernels : devicearray[w] \notin buffers[k]
      /\ \A p \in Queues \ {DefaultQueue} : devicearray[w] \notin Used(p)
  BY <1>1, Elsewhere DEF Ownership, OnDevice
<1>5. NewUnused
  BY <1>1 DEF NewUnused, OnDevice
<1>6. Use'
  BY <1>1, <1>3, <1>4, <1>5, EnqueueUse DEF Order, Idle
<1>7. Ordered'
  BY <1>1, <1>3, <1>4, EnqueueOrdered DEF Order, TypeOK
<1> QED
  BY <1>6, <1>7 DEF Order

(* A wrapper is created on the device.                                     *)
LEMMA AttachOrder ==
  ASSUME TypeOK, Order, busy = Idle, NEW w \in Wrappers, NEW b \in FreeBuffers,
         Attach(w, b), Intend({b}, Junk), UNCHANGED <<host, pending, buffers, outputs>>
  PROVE  Order'
<1>1. \A u \in OnDevice' : \/ u \in OnDevice /\ devicearray'[u] = devicearray[u]
                           \/ devicearray'[u] = b
  BY DEF Attach, OnDevice, TypeOK, WrapperTypeOK
<1>2. OutputsOwn'
  BY DEF Order, Use, OutputsOwn
<1>3. Create(b, Junk)
  BY DEF Attach
<1> QED
  BY <1>1, <1>2, <1>3, NewOrder

(* A plain array gets a temporary buffer, and perhaps is to be read back.  *)
LEMMA TemporaryOrder ==
  ASSUME TypeOK, Order, busy = Idle, NEW k \in Kernels, NEW b \in FreeBuffers, NEW v,
         Temporary(b, v), buffers' = [buffers EXCEPT ![k] = @ \cup {b}],
         UNCHANGED <<host, pending, devicearray, onDevice>>,
         \/ outputs' = outputs
         \/ \E h \in Hosts \ Wrappers :
              outputs' = [outputs EXCEPT ![k] = Append(@, [buf |-> b, array |-> h])]
  PROVE  Order'
<1>1. /\ \A j \in Kernels : buffers'[j] = IF j = k THEN buffers[j] \cup {b} ELSE buffers[j]
      /\ b \in buffers'[k]
  BY DEF TypeOK, KernelTypeOK
<1>2. OutputsOwn'
  <2>1. CASE outputs' = outputs
    BY <1>1, <2>1 DEF Order, Use, OutputsOwn
  <2>2. ASSUME NEW h \in Hosts \ Wrappers,
               outputs' = [outputs EXCEPT ![k] = Append(@, [buf |-> b, array |-> h])]
        PROVE  OutputsOwn'
    <3>1. PICK o \in Output : o = [buf |-> b, array |-> h]
      BY DEF Output, FreeBuffers
    <3>2. outputs[k] \in Seq(Output)
      BY DEF TypeOK, KernelTypeOK
    <3>3. \A i \in DOMAIN Append(outputs[k], o) :
             \/ i \in DOMAIN outputs[k] /\ Append(outputs[k], o)[i] = outputs[k][i]
             \/ Append(outputs[k], o)[i] = o
      BY <3>2
    <3>4. \A j \in Kernels : outputs'[j] = IF j = k THEN Append(outputs[k], o) ELSE outputs[j]
      BY <2>2, <3>1 DEF TypeOK, KernelTypeOK
    <3>5. \A j \in Kernels : \A i \in DOMAIN outputs'[j] :
             \/ i \in DOMAIN outputs[j] /\ outputs'[j][i] = outputs[j][i]
             \/ j = k /\ outputs'[j][i] = o
      BY <3>3, <3>4
    <3>6. o.buf = b /\ o.array \notin Wrappers
      BY <3>1
    <3>7. ASSUME NEW j \in Kernels, NEW i \in DOMAIN outputs'[j]
          PROVE  outputs'[j][i].buf \in buffers'[j] /\ outputs'[j][i].array \notin Wrappers
      <4>1. CASE i \in DOMAIN outputs[j] /\ outputs'[j][i] = outputs[j][i]
        <5>1. outputs[j][i].buf \in buffers[j] /\ outputs[j][i].array \notin Wrappers
          BY <4>1 DEF Order, Use, OutputsOwn
        <5> QED
          BY <1>1, <4>1, <5>1
      <4>2. CASE j = k /\ outputs'[j][i] = o
        <5>1. b \in buffers'[j]
          BY <1>1, <4>2, Zenon
        <5>2. outputs'[j][i].buf = b /\ outputs'[j][i].array \notin Wrappers
          BY <3>6, <4>2
        <5> QED
          BY <5>1, <5>2
      <4> QED
        BY <3>5, <4>1, <4>2
    <3> QED
      BY <3>7 DEF OutputsOwn
  <2> QED
    BY <2>1, <2>2
<1>3. \A w \in OnDevice' : w \in OnDevice /\ devicearray'[w] = devicearray[w]
  BY DEF OnDevice
<1> QED
  BY <1>1, <1>2, <1>3, NewOrder DEF Temporary

(* A copy between wrappers, on the default queue.                          *)
LEMMA CopyToOrder ==
  ASSUME TypeOK, Ownership, Order, NEW s \in Wrappers, NEW t \in Wrappers,
         NEW from \in Int, NEW to \in Int, NEW count \in Int,
         CopyTo(s, t, from, to, count)
  PROVE  Order'
<1> DEFINE reads(bs) == {<<b, intended[b]>> : b \in bs}
<1>1. /\ devicearray[s] \in Buffers /\ devicearray[t] \in Buffers
      /\ s \in OnDevice /\ t \in OnDevice
      /\ DefaultQueue \in Queues /\ busy = Idle
      /\ intended \in [Buffers -> Data]
      /\ UNCHANGED <<host, mem, devicearray, onDevice, buffers, outputs, busy>>
  BY DeviceAssumption DEF CopyTo, TypeOK, DeviceTypeOK, WrapperTypeOK, OnDevice, kernelVars
<1>2. PICK v \in Blends(s, t, count), bs \in SUBSET {devicearray[s], devicearray[t]} :
        /\ Enqueue(DefaultQueue, <<Compute(reads(bs), {devicearray[t]}, v)>>)
        /\ Intend({devicearray[t]}, v)
  <2>1. EnqueueCopy(s, t, count)
    BY DEF CopyTo
  <2>2. CASE count = Size[t]
    BY <2>1, <2>2 DEF EnqueueCopy
  <2>3. CASE count # Size[t]
    BY <2>1, <2>3 DEF EnqueueCopy
  <2> QED
    BY <2>2, <2>3
<1>3. v \in Data
  BY <1>1, <1>2 DEF Blends, Data
<1>4. PICK c \in Command : c = Compute(reads(bs), {devicearray[t]}, v)
  <2>1. reads(bs) \in SUBSET (Buffers \X Data)
    BY <1>1
  <2> QED
    BY <1>1, <1>3, <2>1 DEF Compute, Command
<1>5. /\ c.op = "compute" /\ Writes(c) = {devicearray[t]} /\ Leaves(c) = v
      /\ \A r \in c.reads : r[2] = intended[r[1]]
      /\ \A b \in Uses(c) : \E w \in OnDevice : b = devicearray[w]
      /\ Enqueue(DefaultQueue, <<c>>)
  BY <1>1, <1>2, <1>4 DEF Compute, Writes, Uses, Leaves
<1>6. /\ \A p \in Queues \ {DefaultQueue} : Uses(c) \cap Used(p) = {}
      /\ \A k \in Kernels : Uses(c) \cap buffers[k] = {}
  BY <1>1, <1>5, Elsewhere DEF Ownership
<1>7. NewUnused
  BY <1>1 DEF NewUnused, OnDevice
<1>8. Use'
  BY <1>1, <1>5, <1>6, <1>7, EnqueueUse DEF Order, Idle
<1>9. \A a \in Buffers : intended'[a] = IF a \in Writes(c) THEN Leaves(c) ELSE intended[a]
  BY <1>2, <1>5 DEF Intend
<1>10. Ordered'
  BY <1>1, <1>5, <1>6, <1>9, EnqueueOrdered DEF Order, TypeOK
<1> QED
  BY <1>8, <1>10 DEF Order

(* A launch, on any queue.                                                 *)
LEMMA RunOrder ==
  ASSUME TypeOK, Ownership, Binds, Order, Rule("freshArgs"), Rule("defaultQueue"),
         NEW k \in Kernels, NEW q \in Queues, NEW fast_read \in BOOLEAN,
         Run(k, q, fast_read)
  PROVE  Order'
<1> DEFINE reads == {<<b, intended[b]>> : b \in ReadBy(k)}
           launch(v) == Compute(reads, WrittenBy(k), v)
<1>1. PICK v \in Results(k) : /\ Enqueue(q, <<launch(v)>>)
                              /\ Intend(WrittenBy(k), v)
                              /\ busy'.op = "run" /\ busy'.k = k /\ busy'.q = q
  BY DEF Run
<1>2. v \in Data
  BY <1>1 DEF Results, Data
<1>3. PICK c \in Command : c = launch(v)
  <2>1. reads \in SUBSET (Buffers \X Data)
    BY NamedBuffers DEF TypeOK, DeviceTypeOK
  <2> QED
    BY <1>2, <2>1, NamedBuffers DEF Compute, Command
<1>4. /\ c.op = "compute" /\ Writes(c) = WrittenBy(k) /\ Leaves(c) = v
      /\ \A r \in c.reads : r[2] = intended[r[1]]
      /\ Uses(c) = ReadBy(k) \cup WrittenBy(k)
  <2>1. c.op = "compute" /\ c.reads = reads /\ c.writes = WrittenBy(k) /\ c.val = v
    BY <1>3 DEF Compute
  <2>2. \A r \in reads : r[1] \in ReadBy(k) /\ r[2] = intended[r[1]]
    OBVIOUS
  <2>3. \A b \in ReadBy(k) : <<b, intended[b]>> \in reads /\ <<b, intended[b]>>[1] = b
    OBVIOUS
  <2>4. {r[1] : r \in reads} = ReadBy(k)
    BY <2>2, <2>3
  <2> HIDE DEF reads
  <2> QED
    BY <2>1, <2>2, <2>4 DEF Writes, Uses, Leaves
<1> HIDE DEF launch
<1>5. /\ busy = Idle
      /\ UNCHANGED <<host, mem, devicearray, onDevice, buffers, outputs>>
      /\ q # DefaultQueue => ReadBy(k) \cup WrittenBy(k) \subseteq buffers[k]
  BY DEF Run, wrapperVars, kernelVars
<1>6. \A b \in ReadBy(k) \cup WrittenBy(k) : Holds(k, b)
  <2>1. Passed(k) = DOMAIN arg[k]
    BY KernelAssumption, WrapperAssumption
    DEF Run, Passed, TypeOK, KernelTypeOK, ArgPositions
  <2> QED
    BY <2>1 DEF ReadBy, WrittenBy, PassedAs, Binds, PassedHeld
<1>7. \A p \in Queues \ {q} : Uses(c) \cap Used(p) = {}
  <2>1. ASSUME NEW p \in Queues \ {q}, NEW b \in Uses(c) PROVE b \notin Used(p)
    <3>1. CASE b \in buffers[k]
      BY <1>5, <3>1, Elsewhere
    <3>2. CASE b \notin buffers[k]
      BY <1>4, <1>5, <1>6, <3>2, Elsewhere DEF Holds
    <3> QED
      BY <3>1, <3>2
  <2> QED
    BY <2>1
<1>8. \A j \in Kernels : Uses(c) \cap buffers[j] # {} => j = k
  BY <1>4, <1>6 DEF Holds, Ownership
<1>9. q # DefaultQueue => \A w \in OnDevice' : devicearray'[w] \notin Uses(c)
  BY <1>4, <1>5 DEF Ownership, OnDevice
<1>10. NewUnused
  BY <1>5 DEF NewUnused, OnDevice
<1>11. Use'
  BY <1>1, <1>3, <1>4, <1>5, <1>8, <1>9, <1>10, EnqueueUse DEF Order, Idle
<1>12. \A a \in Buffers : intended'[a] = IF a \in Writes(c) THEN Leaves(c) ELSE intended[a]
  BY <1>1, <1>4 DEF Intend
<1>13. Ordered'
  BY <1>1, <1>3, <1>4, <1>5, <1>7, <1>12, EnqueueOrdered DEF Order, TypeOK
<1> QED
  BY <1>11, <1>13 DEF Order

(* An output is read back, on the queue of the run.                        *)
LEMMA RunReadsOrder ==
  ASSUME TypeOK, Ownership, Order, RunReads
  PROVE  Order'
<1>1. /\ busy \in Running /\ busy.op = "run" /\ busy' = [busy EXCEPT !.next = @ + 1]
      /\ busy.next <= Len(outputs[busy.k])
      /\ UNCHANGED <<host, mem, intended, devicearray, onDevice, buffers, outputs>>
  BY BusyRun DEF RunReads, Reading, wrapperVars, kernelVars
<1>2. /\ busy.k \in Kernels /\ busy.q \in Queues
      /\ busy'.op = "run" /\ busy'.k = busy.k /\ busy'.q = busy.q
  BY <1>1 DEF Running
<1>3. busy.next \in DOMAIN outputs[busy.k]
  <2>1. outputs[busy.k] \in Seq(Output) /\ busy.next \in Nat \ {0}
    BY <1>1, <1>2 DEF TypeOK, KernelTypeOK, Running
  <2> QED
    BY <1>1, <2>1
<1>4. PICK o \in Output : o = outputs[busy.k][busy.next]
  BY <1>2, <1>3 DEF TypeOK, KernelTypeOK
<1>5. o.buf \in buffers[busy.k] /\ o.array \notin Wrappers
  BY <1>2, <1>3, <1>4 DEF Order, Use, OutputsOwn
<1>6. PICK c \in Command : c = ReadBack(o)
  BY <1>4 DEF ReadBack, Read, Command, Output
<1>7. /\ c.op = "read" /\ c.array = o.array /\ Uses(c) = {o.buf} /\ Writes(c) = {}
      /\ Enqueue(busy.q, <<c>>)
  BY <1>4, <1>6 DEF ReadBack, Read, Uses, Writes, RunReads
<1>8. /\ \A p \in Queues \ {busy.q} : Uses(c) \cap Used(p) = {}
      /\ \A j \in Kernels : Uses(c) \cap buffers[j] # {} => j = busy.k
      /\ \A w \in OnDevice' : devicearray'[w] \notin Uses(c)
  BY <1>1, <1>2, <1>5, <1>7, Elsewhere DEF Ownership, OnDevice
<1>9. NewUnused
  BY <1>1 DEF NewUnused, OnDevice
<1>10. Use'
  BY <1>1, <1>2, <1>5, <1>7, <1>8, <1>9, EnqueueUse DEF Order
<1>11. Ordered'
  BY <1>1, <1>2, <1>7, <1>8, EnqueueOrdered DEF Order, TypeOK
<1> QED
  BY <1>10, <1>11 DEF Order

-----------------------------------------------------------------------------
(* Every step.                                                             *)
LEMMA WrapperStepOrder ==
  ASSUME TypeOK, Ownership, Order, NEW w \in Wrappers, WrapperStep(w)
  PROVE  Order'
<1>1. CASE CreateOnDevice(w) \/ CopyToDeviceFails(w)
  BY <1>1, AttachOrder DEF CreateOnDevice, CopyToDeviceFails, kernelVars
<1>2. CASE DeleteFromDevice(w) \/ Destroy(w) \/ ClientMarksDirty(w)
  <2>1. /\ busy' = busy /\ UNCHANGED <<host, mem, pending, intended, buffers, outputs>>
        /\ \A u \in OnDevice' : u \in OnDevice /\ devicearray'[u] = devicearray[u]
    <3>1. CASE DeleteFromDevice(w)
      BY <3>1 DEF DeleteFromDevice, Detach, OnDevice, kernelVars, TypeOK, WrapperTypeOK
    <3>2. CASE Destroy(w)
      BY <3>2 DEF Destroy, Detach, OnDevice, kernelVars, TypeOK, WrapperTypeOK
    <3>3. CASE ClientMarksDirty(w)
      BY <3>3 DEF ClientMarksDirty, OnDevice, deviceVars, kernelVars
    <3> QED
      BY <1>2, <3>1, <3>2, <3>3
  <2> QED
    BY <2>1, SameOrder DEF CallGoesOn, Order, Use, OutputsOwn
<1> QED
  BY <1>1, <1>2, CopyToDeviceOrder, CopyToHostOrder DEF WrapperStep

LEMMA KernelStepOrder ==
  ASSUME TypeOK, Ownership, Binds, Order, Rule("freshArgs"), Rule("defaultQueue"),
         NEW k \in Kernels, KernelStep(k)
  PROVE  Order'
<1>1. ASSUME UNCHANGED <<host, mem, pending, intended, devicearray, onDevice, buffers,
                         outputs, busy>>
      PROVE  Order'
  BY <1>1, SameOrder DEF CallGoesOn, Order, Use, OutputsOwn, OnDevice
<1>2. CASE InputValue(k)
  BY <1>1, <1>2 DEF InputValue, deviceVars, wrapperVars
<1>3. CASE DestroyKernel(k)
  <2>1. /\ \A j \in Kernels : outputs'[j] = IF j = k THEN <<>> ELSE outputs[j]
        /\ \A j \in Kernels : buffers'[j] = IF j = k THEN {} ELSE buffers[j]
        /\ UNCHANGED <<host, mem, pending, intended, devicearray, onDevice, busy>>
    BY <1>3 DEF DestroyKernel, ForgetParameters, deviceVars, wrapperVars, TypeOK, KernelTypeOK
  <2>2. OutputsOwn'
    BY <2>1 DEF Order, Use, OutputsOwn
  <2> QED
    BY <2>1, <2>2, SameOrder DEF CallGoesOn, OnDevice
<1>4. ASSUME NEW w \in Wrappers, Input(k, w) \/ Inout(k, w) \/ InoutBuffer(k, w)
      PROVE  Order'
  BY <1>1, <1>4 DEF Input, Inout, InoutBuffer, deviceVars, wrapperVars
<1>5. ASSUME NEW w \in Wrappers, OutputWrapper(k, w) \/ OutputWrapperFails(k, w)
      PROVE  Order'
  <2>1. busy = Idle /\ UNCHANGED <<host, buffers, outputs, busy>>
    BY <1>5 DEF OutputWrapper, OutputWrapperFails, Passing, kernelVars
  <2>2. CASE UNCHANGED <<deviceVars, wrapperVars>>
    BY <1>1, <2>1, <2>2 DEF deviceVars, wrapperVars
  <2>3. CASE /\ \E b \in FreeBuffers : Attach(w, b) /\ Intend({b}, Junk)
             /\ UNCHANGED pending
    BY <2>1, <2>3, AttachOrder
  <2> QED
    BY <1>5, <2>2, <2>3 DEF OutputWrapper, OutputWrapperFails
<1>6. ASSUME NEW h \in Hosts \ Wrappers, InputArray(k, h) \/ OutputArray(k, h) \/ InoutArray(k, h)
      PROVE  Order'
  <2>1. /\ busy = Idle
        /\ UNCHANGED <<host, pending, devicearray, onDevice>>
    BY <1>6 DEF InputArray, OutputArray, InoutArray, Passing, wrapperVars
  <2>2. PICK b \in FreeBuffers :
          /\ \E v : Temporary(b, v)
          /\ buffers' = [buffers EXCEPT ![k] = @ \cup {b}]
          /\ \/ outputs' = outputs
             \/ outputs' = [outputs EXCEPT ![k] = Append(@, [buf |-> b, array |-> h])]
    BY <1>6 DEF InputArray, OutputArray, InoutArray
  <2> QED
    BY <2>1, <2>2, TemporaryOrder
<1>7. ASSUME NEW h \in Hosts, InputArrayFails(k, h) PROVE Order'
  <2>1. PICK b \in FreeBuffers : Create(b, host[h]) /\ Intend({b}, host[h])
    BY <1>7 DEF InputArrayFails, Temporary
  <2>2. /\ busy = Idle
        /\ UNCHANGED <<host, pending, devicearray, onDevice, buffers, outputs>>
    BY <1>7 DEF InputArrayFails, Passing, wrapperVars, kernelVars
  <2>3. OutputsOwn'
    BY <2>2 DEF Order, Use, OutputsOwn
  <2> QED
    BY <2>1, <2>2, <2>3, NewOrder DEF OnDevice
<1> QED
  BY <1>2, <1>3, <1>4, <1>5, <1>6, <1>7, RunOrder DEF KernelStep

LEMMA ReturnsOrder ==
  ASSUME TypeOK, Ownership, Order, Returns
  PROVE  Order'
<1>1. CASE CopyToDeviceReturns \/ CopyToHostReturns \/ CopyToHostThrows \/ FinishReturns
  <2>1. /\ UNCHANGED <<host, mem, pending, intended, devicearray, onDevice, buffers, outputs>>
        /\ CallGoesOn
    BY <1>1 DEF CopyToDeviceReturns, CopyToHostReturns, CopyToHostThrows, FinishReturns,
                Transferred, CallGoesOn, deviceVars, wrapperVars, kernelVars
  <2> QED
    BY <2>1, SameOrder DEF Order, Use, OutputsOwn, OnDevice
<1>2. CASE RunReadRefused
  <2>1. /\ UNCHANGED <<host, mem, pending, intended, devicearray, onDevice, buffers, outputs>>
        /\ busy.op = "run" /\ busy'.op = "run" /\ busy'.k = busy.k /\ busy'.q = busy.q
    BY <1>2, BusyRun DEF RunReadRefused, Reading, Running, deviceVars, wrapperVars, kernelVars
  <2> QED
    BY <2>1, SameOrder DEF CallGoesOn, Order, Use, OutputsOwn, OnDevice
<1>3. CASE RunReturns
  <2>1. /\ busy.op = "run" /\ busy.k \in Kernels
        /\ UNCHANGED <<host, mem, pending, intended, devicearray, onDevice>>
    BY <1>3, BusyRun DEF RunReturns, Running
  <2>2. /\ \A j \in Kernels : outputs'[j] = IF j = busy.k THEN <<>> ELSE outputs[j]
        /\ \A j \in Kernels : buffers'[j] = IF j = busy.k THEN {} ELSE buffers[j]
    BY <1>3, <2>1 DEF RunReturns, ForgetParameters, TypeOK, KernelTypeOK
  <2>3. OutputsOwn' /\ CallGoesOn
    BY <2>1, <2>2 DEF Order, Use, OutputsOwn, CallGoesOn
  <2> QED
    BY <2>1, <2>2, <2>3, SameOrder DEF OnDevice
<1> QED
  BY <1>1, <1>2, <1>3, RunReadsOrder DEF Returns

LEMMA NextOrder ==
  ASSUME TypeOK, Ownership, Binds, Order, Rule("freshArgs"), Rule("defaultQueue"), [Next]_vars
  PROVE  Order'
<1>1. ASSUME NEW s \in Wrappers, NEW t \in Wrappers, CopyAllTo(s, t)
      PROVE  Order'
  BY <1>1, WrapperAssumption, CopyToOrder DEF CopyAllTo
<1>2. ASSUME NEW s \in Wrappers, NEW t \in Wrappers,
             NEW from \in Offsets, NEW to \in Offsets, NEW count \in Offsets,
             CopyTo(s, t, from, to, count)
      PROVE  Order'
  <2>1. Offsets \subseteq Int
    BY DEF Offsets
  <2> QED
    BY <2>1, <1>2, CopyToOrder
<1>3. CASE FinishCall
  BY <1>3, SameOrder
  DEF FinishCall, CallGoesOn, Idle, deviceVars, wrapperVars, kernelVars, Order, Use,
      OutputsOwn, OnDevice
<1>4. CASE UNCHANGED vars
  BY <1>4, SameOrder
  DEF vars, CallGoesOn, deviceVars, wrapperVars, kernelVars, Order, Use, OutputsOwn, OnDevice
<1> QED
  BY <1>1, <1>2, <1>3, <1>4, EditOrder, WrapperStepOrder, KernelStepOrder, ReturnsOrder,
     ExecuteOrder
  DEF Next

LEMMA InitOrder == Init => Order
BY DEF Init, DeviceInit, WrapperInit, KernelInit, Order, Ordered, Separate, InOrder, Settled,
       Finds, Used, Commands, Use, ArrayUse, WrapperUse, HostUse, OutputsOwn, OnDevice

LEMMA OrderCorrect ==
  ASSUME Rule("keepBound"), Rule("freshArgs"), Rule("defaultQueue")
  PROVE  Spec => []Order
<1>1. TypeOK /\ Ownership /\ Binds /\ Order /\ [Next]_vars => Order'
  BY NextOrder
<1> QED
  BY <1>1, InitOrder, TypeCorrect, OwnersKeep, BindsCorrect, PTL DEF Spec

(* Whatever the device is late with, on however many queues, a buffer that *)
(* no enqueued command writes holds what program order says: the launches  *)
(* and copies of EasyCL read nothing too early or too late.  The rules are *)
(* the client's: EasyCL does not order its queues (CLKernel::run with a    *)
(* CLQueue, CLWrapper::copyToHost on the default queue).                   *)
THEOREM ComputedInOrder ==
  ASSUME Rule("keepBound"), Rule("freshArgs"), Rule("defaultQueue")
  PROVE  Spec => []ProgramOrder
<1>1. ASSUME TypeOK, Order, NEW b \in live,
             \A q \in Queues : \A c \in Commands(q) : b \notin Writes(c)
      PROVE  mem[b] = intended[b]
  <2>1. b \in Buffers /\ DefaultQueue \in Queues
    BY <1>1, DeviceAssumption DEF TypeOK, DeviceTypeOK
  <2>2. \A q \in Queues : \A j \in DOMAIN pending[q] : ~Writer(q, j, b)
    BY <1>1 DEF Writer, Commands
  <2>3. Finds(DefaultQueue, Len(pending[DefaultQueue]) + 1, b, intended[b])
    BY <1>1, <2>1, <2>2 DEF Order, Ordered, Settled
  <2> QED
    BY <2>1, <2>2, <2>3 DEF Finds
<1>2. TypeOK /\ Order => ProgramOrder
  BY <1>1 DEF ProgramOrder
<1> QED
  BY <1>2, TypeCorrect, OrderCorrect, PTL

-----------------------------------------------------------------------------
(* Queue q holds no transfer between a host array and the device.          *)
NoTransfers(q) == \A i \in DOMAIN pending[q] : pending[q][i].op = "compute"

(* run() need not wait: it has tried no read yet, or the last one was      *)
(* refused, and the one before had been waited for.                        *)
NoneToAwait == busy.next = 1 \/ (~busy.fast /\ busy.next - 1 \in busy.refused)

(* The queue on which the call in progress may have enqueued transfers: a  *)
(* blocking read or write uses the default queue, run() its own.           *)
Transferring(q) ==
  \/ busy.op \in {"upload", "download"} /\ q = DefaultQueue
  \/ busy.op = "run" /\ q = busy.q /\ ~NoneToAwait

(* The refused reads are among those tried, and none is one of a fast_read.*)
RefusedTried == busy.op = "run" => /\ \A i \in busy.refused : i < busy.next
                                   /\ busy.fast => busy.refused = {}

(* Only there can there be transfers.                                      *)
OnlyTransferring == \A q \in Queues : ~Transferring(q) => NoTransfers(q)

-----------------------------------------------------------------------------
(* Adding computation to a queue makes no transfers.                       *)
LEMMA EnqueueNoTransfers ==
  ASSUME TypeOK, NEW q \in Queues, NEW c \in Command, c.op = "compute",
         Enqueue(q, <<c>>)
  PROVE  \A p \in Queues : NoTransfers(p) => NoTransfers(p)'
<1>1. pending \in [Queues -> Seq(Command)]
  BY DEF TypeOK, DeviceTypeOK
<1>2. \A p \in Queues : pending'[p] = IF p = q THEN pending[q] \o <<c>> ELSE pending[p]
  BY <1>1 DEF Enqueue
<1>3. ASSUME NoTransfers(q)
      PROVE  \A i \in DOMAIN (pending[q] \o <<c>>) : (pending[q] \o <<c>>)[i].op = "compute"
  <2>1. pending[q] \in Seq(Command)
    BY <1>1
  <2>2. \A i \in 1 .. Len(pending[q]) : pending[q][i].op = "compute"
    BY <2>1, <1>3 DEF NoTransfers
  <2> QED
    BY <2>1, <2>2
<1> QED
  BY <1>2, <1>3 DEF NoTransfers

(* The device executing a command makes no transfers.                      *)
LEMMA ExecuteNoTransfers ==
  ASSUME TypeOK, NEW q \in Queues, Execute(q)
  PROVE  \A p \in Queues : NoTransfers(p) => NoTransfers(p)'
<1>1. pending \in [Queues -> Seq(Command)] /\ pending[q] # <<>>
  BY DEF TypeOK, DeviceTypeOK, Execute
<1>2. \A p \in Queues : pending'[p] = IF p = q THEN Tail(pending[q]) ELSE pending[p]
  BY <1>1 DEF Execute
<1>3. ASSUME NoTransfers(q)
      PROVE  \A i \in DOMAIN Tail(pending[q]) : Tail(pending[q])[i].op = "compute"
  <2>1. pending[q] \in Seq(Command)
    BY <1>1
  <2>2. \A i \in 1 .. Len(pending[q]) : pending[q][i].op = "compute"
    BY <2>1, <1>3 DEF NoTransfers
  <2>3. \A i \in DOMAIN Tail(pending[q]) : /\ i + 1 \in 1 .. Len(pending[q])
                                           /\ Tail(pending[q])[i] = pending[q][i + 1]
    BY <2>1, <1>1
  <2> QED
    BY <2>2, <2>3
<1> QED
  BY <1>2, <1>3 DEF NoTransfers

(* An empty queue holds none.                                              *)
LEMMA EmptyNoTransfers ==
  ASSUME NEW q, pending[q] = <<>>
  PROVE  NoTransfers(q)
BY DEF NoTransfers

(* No call in progress, and the queues as they were or with nothing but    *)
(* computation added.                                                      *)
LEMMA IdleKeeps ==
  ASSUME OnlyTransferring, busy = Idle,
         \A q \in Queues : NoTransfers(q) => NoTransfers(q)'
  PROVE  OnlyTransferring'
BY DEF OnlyTransferring, Transferring, Idle

(* A call in progress goes on.                                             *)
LEMMA BusyKeeps ==
  ASSUME OnlyTransferring, UNCHANGED busy,
         \A q \in Queues : NoTransfers(q) => NoTransfers(q)'
  PROVE  OnlyTransferring'
BY DEF OnlyTransferring, Transferring, NoneToAwait

(* It returns, having waited for its queue.                                *)
LEMMA ReturnKeeps ==
  ASSUME OnlyTransferring, busy' = Idle, UNCHANGED pending,
         \A q \in Queues : Transferring(q) => pending[q] = <<>>
  PROVE  OnlyTransferring'
BY EmptyNoTransfers DEF OnlyTransferring, NoTransfers

(* Adding anything to a queue leaves the other queues as they are.         *)
LEMMA EnqueueOthers ==
  ASSUME TypeOK, NEW q \in Queues, NEW cmds, Enqueue(q, cmds)
  PROVE  \A p \in Queues : p # q /\ NoTransfers(p) => NoTransfers(p)'
BY DEF TypeOK, DeviceTypeOK, Enqueue, NoTransfers

-----------------------------------------------------------------------------
(* A blocking transfer starts on the default queue.                        *)
LEMMA WrapperStepTransfers ==
  ASSUME TypeOK, OnlyTransferring, NEW w \in Wrappers, WrapperStep(w)
  PROVE  OnlyTransferring'
<1>1. DefaultQueue \in Queues
  BY DeviceAssumption
<1>2. CASE CopyToDevice(w)
  <2>1. /\ busy = Idle /\ busy' = [op |-> "upload", w |-> w]
        /\ \E b : Enqueue(DefaultQueue, <<Write(b, w)>>)
    BY <1>2 DEF CopyToDevice
  <2> QED
    BY <1>1, <2>1, EnqueueOthers DEF OnlyTransferring, Transferring, Idle
<1>3. CASE CopyToHost(w)
  <2>1. /\ busy = Idle /\ busy' = [op |-> "download", w |-> w]
        /\ Enqueue(DefaultQueue, <<Read(devicearray[w], w)>>)
    BY <1>3 DEF CopyToHost
  <2> QED
    BY <1>1, <2>1, EnqueueOthers DEF OnlyTransferring, Transferring, Idle
<1>4. CASE \/ CreateOnDevice(w) \/ CopyToDeviceFails(w) \/ DeleteFromDevice(w)
           \/ Destroy(w) \/ ClientMarksDirty(w)
  <2>1. busy = Idle /\ UNCHANGED pending
    BY <1>4 DEF CreateOnDevice, CopyToDeviceFails, DeleteFromDevice, Destroy,
                ClientMarksDirty, deviceVars
  <2> QED
    BY <2>1, IdleKeeps DEF NoTransfers
<1> QED
  BY <1>2, <1>3, <1>4 DEF WrapperStep

(* A copy is no transfer.                                                  *)
LEMMA CopyToTransfers ==
  ASSUME TypeOK, OnlyTransferring, NEW s \in Wrappers, NEW t \in Wrappers,
         NEW from \in Int, NEW to \in Int, NEW count \in Int,
         CopyTo(s, t, from, to, count)
  PROVE  OnlyTransferring'
<1> DEFINE reads(bs) == {<<b, intended[b]>> : b \in bs}
<1>1. /\ devicearray[s] \in Buffers /\ devicearray[t] \in Buffers
      /\ DefaultQueue \in Queues /\ busy = Idle
      /\ intended \in [Buffers -> Data]
  BY DeviceAssumption DEF CopyTo, TypeOK, DeviceTypeOK, WrapperTypeOK
<1>2. PICK v \in Blends(s, t, count), bs \in SUBSET {devicearray[s], devicearray[t]} :
        Enqueue(DefaultQueue, <<Compute(reads(bs), {devicearray[t]}, v)>>)
  <2>1. EnqueueCopy(s, t, count)
    BY DEF CopyTo
  <2>2. CASE count = Size[t]
    BY <2>1, <2>2 DEF EnqueueCopy
  <2>3. CASE count # Size[t]
    BY <2>1, <2>3 DEF EnqueueCopy
  <2> QED
    BY <2>2, <2>3
<1>3. v \in Data
  BY <1>1 DEF Blends, Data
<1>4. /\ Compute(reads(bs), {devicearray[t]}, v) \in Command
      /\ Compute(reads(bs), {devicearray[t]}, v).op = "compute"
  <2>1. reads(bs) \in SUBSET (Buffers \X Data)
    BY <1>1
  <2> QED
    BY <1>1, <1>3, <2>1 DEF Compute, Command
<1> QED
  BY <1>1, <1>2, <1>4, EnqueueNoTransfers, IdleKeeps

(* A launch is no transfer, and nothing is read back yet.                  *)
LEMMA RunTransfers ==
  ASSUME TypeOK, OnlyTransferring, NEW k \in Kernels, NEW q \in Queues,
         NEW fast_read \in BOOLEAN, Run(k, q, fast_read)
  PROVE  OnlyTransferring'
<1> DEFINE reads == {<<b, intended[b]>> : b \in ReadBy(k)}
           launch(v) == Compute(reads, WrittenBy(k), v)
<1>1. PICK v \in Results(k) : Enqueue(q, <<launch(v)>>)
  BY DEF Run
<1>2. v \in Data
  BY <1>1 DEF Results, Data
<1>3. launch(v) \in Command /\ launch(v).op = "compute"
  <2>1. reads \in SUBSET (Buffers \X Data)
    BY NamedBuffers DEF TypeOK, DeviceTypeOK
  <2> QED
    BY <1>2, <2>1, NamedBuffers DEF Compute, Command
<1>4. \A p \in Queues : NoTransfers(p)
  BY DEF Run, OnlyTransferring, Transferring, Idle
<1> HIDE DEF launch
<1>5. \A p \in Queues : NoTransfers(p)'
  BY <1>1, <1>3, <1>4, EnqueueNoTransfers
<1> QED
  BY <1>5 DEF OnlyTransferring

(* What else is done with a kernel enqueues nothing.                       *)
LEMMA KernelStepTransfers ==
  ASSUME TypeOK, OnlyTransferring, NEW k \in Kernels, KernelStep(k)
  PROVE  OnlyTransferring'
<1>1. ASSUME busy = Idle, UNCHANGED pending PROVE OnlyTransferring'
  BY <1>1, IdleKeeps DEF NoTransfers
<1>2. CASE InputValue(k) \/ DestroyKernel(k)
  BY <1>1, <1>2 DEF InputValue, DestroyKernel, Passing, deviceVars
<1>3. ASSUME NEW w \in Wrappers,
             \/ Input(k, w) \/ Inout(k, w) \/ InoutBuffer(k, w)
             \/ OutputWrapper(k, w) \/ OutputWrapperFails(k, w)
      PROVE  OnlyTransferring'
  BY <1>1, <1>3
  DEF Input, Inout, InoutBuffer, OutputWrapper, OutputWrapperFails, Passing, deviceVars
<1>4. ASSUME NEW h \in Hosts, \/ InputArray(k, h) \/ InputArrayFails(k, h)
                              \/ OutputArray(k, h) \/ InoutArray(k, h)
      PROVE  OnlyTransferring'
  BY <1>1, <1>4 DEF InputArray, InputArrayFails, OutputArray, InoutArray, Passing
<1> QED
  BY <1>2, <1>3, <1>4, RunTransfers DEF KernelStep

(* The calls in progress go on, or return.                                 *)
LEMMA ReturnsTransfers ==
  ASSUME TypeOK, OnlyTransferring, RefusedTried, Rule("fastAccepted"), Returns
  PROVE  OnlyTransferring'
<1>1. CASE CopyToDeviceReturns \/ CopyToHostReturns \/ CopyToHostThrows
  <2>1. /\ busy.op \in {"upload", "download"} /\ pending[DefaultQueue] = <<>>
        /\ busy' = Idle /\ UNCHANGED pending
    BY <1>1 DEF CopyToDeviceReturns, CopyToHostReturns, CopyToHostThrows, Transferred, deviceVars
  <2> QED
    BY <2>1, ReturnKeeps DEF Transferring
<1>2. CASE RunReturns
  <2>1. busy.op = "run" /\ busy' = Idle /\ UNCHANGED pending /\ OutputsRead
    BY <1>2 DEF RunReturns
  <2>2. pending[busy.q] = <<>> \/ NoneToAwait
    BY <2>1 DEF OutputsRead, AllRead, ReadDone, RefusedTried, NoneToAwait
  <2> QED
    BY <2>1, <2>2, ReturnKeeps DEF Transferring
<1>3. CASE FinishReturns
  BY <1>3, ReturnKeeps DEF FinishReturns, deviceVars, Transferring
<1>4. CASE RunReads
  <2>1. busy \in Running /\ busy.op = "run" /\ busy' = [busy EXCEPT !.next = @ + 1]
    BY <1>4, BusyRun DEF RunReads, Reading
  <2>2. /\ busy'.op = "run" /\ busy'.q = busy.q /\ busy'.next = busy.next + 1
        /\ busy'.fast = busy.fast /\ busy'.refused = busy.refused
        /\ busy.next \in Nat \ {0} /\ busy.q \in Queues
    BY <2>1 DEF Running
  <2>3. ~NoneToAwait'
    BY <2>1, <2>2 DEF NoneToAwait, RefusedTried
  <2>4. \A p \in Queues : p # busy.q /\ NoTransfers(p) => NoTransfers(p)'
    BY <1>4, <2>2, EnqueueOthers DEF RunReads
  <2> QED
    BY <2>1, <2>2, <2>3, <2>4 DEF OnlyTransferring, Transferring
<1>5. CASE RunReadRefused
  <2>1. /\ busy \in Running /\ busy.op = "run" /\ ReadDone /\ ~busy.fast
        /\ UNCHANGED pending
        /\ busy' = [busy EXCEPT !.next = @ + 1, !.refused = @ \cup {busy.next}]
    BY <1>5, BusyRun DEF RunReadRefused, Reading, deviceVars
  <2>2. busy'.op = "run" /\ busy'.q = busy.q
    BY <2>1 DEF Running
  <2>3. pending[busy.q] = <<>> \/ NoneToAwait
    BY <2>1 DEF ReadDone, NoneToAwait
  <2>4. \A q \in Queues : NoTransfers(q)
    BY <2>1, <2>3, EmptyNoTransfers DEF OnlyTransferring, Transferring
  <2> QED
    BY <2>1, <2>4 DEF OnlyTransferring, NoTransfers
<1> QED
  BY <1>1, <1>2, <1>3, <1>4, <1>5 DEF Returns

(* Every step keeps transfers where they are waited for.                   *)
LEMMA NextTransfers ==
  ASSUME TypeOK, OnlyTransferring, RefusedTried, Rule("fastAccepted"), [Next]_vars
  PROVE  OnlyTransferring'
<1>1. ASSUME NEW h \in Hosts, NEW v \in Val, Edit(h, v) PROVE OnlyTransferring'
  BY <1>1, IdleKeeps DEF Edit, deviceVars, NoTransfers
<1>2. ASSUME NEW w \in Wrappers, WrapperStep(w) PROVE OnlyTransferring'
  BY <1>2, WrapperStepTransfers
<1>3. ASSUME NEW s \in Wrappers, NEW t \in Wrappers, CopyAllTo(s, t)
      PROVE  OnlyTransferring'
  BY <1>3, WrapperAssumption, CopyToTransfers DEF CopyAllTo
<1>4. ASSUME NEW s \in Wrappers, NEW t \in Wrappers,
             NEW from \in Offsets, NEW to \in Offsets, NEW count \in Offsets,
             CopyTo(s, t, from, to, count)
      PROVE  OnlyTransferring'
  <2>1. Offsets \subseteq Int
    BY DEF Offsets
  <2> QED
    BY <2>1, <1>4, CopyToTransfers
<1>5. ASSUME NEW k \in Kernels, KernelStep(k) PROVE OnlyTransferring'
  BY <1>5, KernelStepTransfers
<1>6. CASE FinishCall
  BY <1>6 DEF FinishCall, deviceVars, OnlyTransferring, Transferring, NoTransfers, Idle
<1>7. CASE Returns
  BY <1>7, ReturnsTransfers
<1>8. ASSUME NEW q \in Queues, DeviceStep(q) PROVE OnlyTransferring'
  BY <1>8, ExecuteNoTransfers, BusyKeeps DEF DeviceStep, kernelVars
<1>9. CASE UNCHANGED vars
  BY <1>9, BusyKeeps DEF vars, deviceVars, kernelVars, NoTransfers
<1> QED
  BY <1>1, <1>2, <1>3, <1>4, <1>5, <1>6, <1>7, <1>8, <1>9 DEF Next

(* What was refused stays among what was tried.                            *)
LEMMA NextTried ==
  ASSUME TypeOK, RefusedTried, Rule("fastAccepted"), [Next]_vars
  PROVE  RefusedTried'
<1>1. ASSUME NEW k \in Kernels, NEW q \in Queues, NEW fast_read \in BOOLEAN,
             Run(k, q, fast_read)
      PROVE  RefusedTried'
  BY <1>1 DEF Run, RefusedTried
<1>2. CASE RunReads \/ RunReadRefused
  <2>1. busy \in Running /\ busy.op = "run"
    BY <1>2, BusyRun DEF RunReads, RunReadRefused, Reading
  <2>2. busy.next \in Nat /\ \A i \in busy.refused : i \in Nat /\ i < busy.next
    BY <2>1 DEF Running, RefusedTried
  <2>3. CASE RunReads
    <3>1. /\ busy'.next = busy.next + 1 /\ busy'.refused = busy.refused
          /\ busy'.fast = busy.fast
      BY <2>1, <2>3 DEF RunReads, Running
    <3> QED
      BY <2>1, <2>2, <3>1 DEF RefusedTried
  <2>4. CASE RunReadRefused
    <3>1. /\ busy'.next = busy.next + 1 /\ ~busy'.fast
          /\ busy'.refused = busy.refused \cup {busy.next}
      BY <2>1, <2>4 DEF RunReadRefused, Running
    <3> QED
      BY <2>2, <3>1 DEF RefusedTried
  <2> QED
    BY <1>2, <2>3, <2>4
<1>3. ASSUME busy'.op # "run" \/ UNCHANGED busy PROVE RefusedTried'
  BY <1>3 DEF RefusedTried
<1>4. ASSUME NEW w \in Wrappers, WrapperStep(w) PROVE RefusedTried'
  BY <1>3, <1>4
  DEF WrapperStep, CreateOnDevice, CopyToDevice, CopyToDeviceFails, CopyToHost,
      DeleteFromDevice, Destroy, ClientMarksDirty
<1>5. ASSUME NEW k \in Kernels, KernelStep(k) PROVE RefusedTried'
  BY <1>1, <1>3, <1>5
  DEF KernelStep, InputValue, DestroyKernel, Input, Inout, InoutBuffer, OutputWrapper,
      OutputWrapperFails, InputArray, InputArrayFails, OutputArray, InoutArray
<1>6. CASE \/ FinishCall \/ FinishReturns \/ RunReturns
           \/ CopyToDeviceReturns \/ CopyToHostReturns \/ CopyToHostThrows
  BY <1>3, <1>6
  DEF FinishCall, FinishReturns, RunReturns, CopyToDeviceReturns, CopyToHostReturns,
      CopyToHostThrows, Idle
<1> QED
  BY <1>2, <1>3, <1>4, <1>5, <1>6
  DEF Next, Returns, Edit, CopyAllTo, CopyTo, DeviceStep, vars

(* When no call is in progress the device is not going to read or write    *)
(* any host array, whatever the client does: clEnqueueReadBuffer and       *)
(* clEnqueueWriteBuffer block, run() goes on past a read OpenCL refuses    *)
(* but waits for those it accepts, and for the events of fast_read if none *)
(* of these is refused (CLWrapper::copyToHost, CLWrapper::copyToDevice,    *)
(* CLKernel::run).                                                         *)
THEOREM TransfersAwaited ==
  ASSUME Rule("fastAccepted")
  PROVE  Spec => []NoLateTransfer
<1>1. Init => OnlyTransferring /\ RefusedTried
  BY DEF Init, DeviceInit, WrapperInit, Idle, OnlyTransferring, NoTransfers, RefusedTried
<1>2. TypeOK /\ RefusedTried /\ [Next]_vars => RefusedTried'
  BY NextTried
<1>3. TypeOK /\ OnlyTransferring /\ RefusedTried /\ [Next]_vars => OnlyTransferring'
  BY NextTransfers
<1>4. OnlyTransferring => NoLateTransfer
  BY DEF OnlyTransferring, Transferring, NoTransfers, NoLateTransfer, TransfersDone, Commands,
         Idle
<1> QED
  BY <1>1, <1>2, <1>3, <1>4, TypeCorrect, PTL DEF Spec

-----------------------------------------------------------------------------
(* What run() reads back.                                                  *)

(* Without a parameter too many, every output is a parameter.              *)
OutputsPassed ==
  \A k \in Kernels : nextArg[k] <= Arity[k] =>
    \A i \in DOMAIN outputs[k] : \E j \in Passed(k) :
      /\ arg[k][j].use \in {"out", "inout"}
      /\ arg[k][j].buf = outputs[k][i].buf

(* The run under way was not passed too many.                              *)
Delivering == busy.op = "run" /\ nextArg[busy.k] <= Arity[busy.k]

(* It has computed its outputs in program order.                           *)
OutputsComputed ==
  Delivering => \A i \in DOMAIN outputs[busy.k] :
                  intended[outputs[busy.k][i].buf] = busy.val

(* On its queue the reads come last, and are those of outputs that were    *)
(* not refused.                                                            *)
Asked(i) == i \in DOMAIN outputs[busy.k] /\ i < busy.next /\ i \notin busy.refused
ReadsLast ==
  busy.op = "run" =>
    /\ \A i, j \in DOMAIN pending[busy.q] :
         i < j /\ pending[busy.q][i].op = "read" => pending[busy.q][j].op = "read"
    /\ \A c \in Commands(busy.q) : c.op # "compute" =>
         \E i : Asked(i) /\ c = ReadBack(outputs[busy.k][i])

(* An output that was asked for is there or on its way.                    *)
OnItsWay ==
  Delivering =>
    \A i \in DOMAIN outputs[busy.k] : i < busy.next =>
      \/ i \in busy.refused
      \/ host[outputs[busy.k][i].array] = busy.val
      \/ ReadBack(outputs[busy.k][i]) \in Commands(busy.q)

Delivery == OutputsComputed /\ ReadsLast /\ OnItsWay

(* A step that forgets the outputs of a kernel, or keeps its parameters    *)
(* and adds no output that is none.                                        *)
LEMMA OutputsKept ==
  ASSUME OutputsPassed,
         \A k \in Kernels : nextArg'[k] <= Arity[k] =>
           \/ outputs'[k] = <<>>
           \/ /\ nextArg[k] <= Arity[k]
              /\ \A j \in Passed(k) : j \in Passed(k)' /\ arg'[k][j] = arg[k][j]
              /\ \A i \in DOMAIN outputs'[k] :
                   \/ i \in DOMAIN outputs[k] /\ outputs'[k][i] = outputs[k][i]
                   \/ \E j \in Passed(k)' : /\ arg'[k][j].use \in {"out", "inout"}
                                            /\ arg'[k][j].buf = outputs'[k][i].buf
  PROVE  OutputsPassed'
<1>1. ASSUME NEW k \in Kernels, nextArg'[k] <= Arity[k], NEW i \in DOMAIN outputs'[k]
      PROVE  \E j \in Passed(k)' : /\ arg'[k][j].use \in {"out", "inout"}
                                   /\ arg'[k][j].buf = outputs'[k][i].buf
  <2>1. outputs'[k] # <<>>
    BY <1>1
  <2>2. CASE i \in DOMAIN outputs[k] /\ outputs'[k][i] = outputs[k][i]
    <3>1. /\ nextArg[k] <= Arity[k]
          /\ \A j \in Passed(k) : j \in Passed(k)' /\ arg'[k][j] = arg[k][j]
      BY <1>1, <2>1
    <3>2. PICK j \in Passed(k) : /\ arg[k][j].use \in {"out", "inout"}
                                 /\ arg[k][j].buf = outputs[k][i].buf
      BY <2>2, <3>1 DEF OutputsPassed
    <3>3. j \in Passed(k)' /\ arg'[k][j] = arg[k][j]
      BY <3>1
    <3> QED
      BY <2>2, <3>2, <3>3
  <2> QED
    BY <1>1, <2>1, <2>2
<1> QED
  BY <1>1 DEF OutputsPassed

(* Nothing is passed or read back.                                         *)
LEMMA SameOutputs ==
  ASSUME OutputsPassed, UNCHANGED <<nextArg, arg, outputs>>
  PROVE  OutputsPassed'
BY DEF OutputsPassed, Passed

(* One more parameter is set.                                              *)
LEMMA PassedGrows ==
  ASSUME TypeOK, NEW k \in Kernels, Accepts(k), NEW use, NEW c,
         SetArg(k, use, c), NextArg(k)
  PROVE  /\ nextArg[k] <= Arity[k]
         /\ \A l \in Kernels : nextArg'[l] <= Arity[l] => nextArg[l] <= Arity[l]
         /\ \A l \in Kernels : \A i \in Passed(l) : i \in Passed(l)' /\ arg'[l][i] = arg[l][i]
         /\ \E j \in Passed(k)' : arg'[k][j] = [use |-> use, buf |-> c]
<1>1. /\ \A l \in Kernels : arg[l] \in [ArgPositions(l) -> Param]
      /\ \A l \in Kernels : nextArg[l] \in Nat /\ Arity[l] \in Nat
      /\ DOMAIN arg = Kernels /\ DOMAIN nextArg = Kernels
  BY KernelAssumption, WrapperAssumption DEF TypeOK, KernelTypeOK
<1>2. /\ \A l \in Kernels : nextArg'[l] = IF l = k THEN nextArg[k] + 1 ELSE nextArg[l]
      /\ \A l \in Kernels : l # k => arg'[l] = arg[l]
      /\ arg'[k] = [arg[k] EXCEPT ![nextArg[k]] = [use |-> use, buf |-> c]]
  BY <1>1 DEF SetArg, NextArg
<1>3. nextArg[k] \in ArgPositions(k) /\ nextArg[k] < Arity[k]
  BY <1>1 DEF ArgPositions, Accepts
<1>4. ASSUME NEW l \in Kernels, NEW i \in Passed(l)
      PROVE  i \in Passed(l)' /\ arg'[l][i] = arg[l][i]
  <2>1. i \in ArgPositions(l) /\ i < nextArg[l] /\ i \in Int
    BY PassedType
  <2>2. CASE l # k
    BY <1>2, <2>2 DEF Passed
  <2>3. CASE l = k
    BY <1>1, <1>2, <2>1, <2>3 DEF Passed
  <2> QED
    BY <2>2, <2>3
<1>5. nextArg[k] \in Passed(k)' /\ arg'[k][nextArg[k]] = [use |-> use, buf |-> c]
  BY <1>1, <1>2, <1>3 DEF Passed
<1>6. \A l \in Kernels : nextArg'[l] <= Arity[l] => nextArg[l] <= Arity[l]
  BY <1>1, <1>2
<1> QED
  BY <1>1, <1>3, <1>4, <1>5, <1>6

(* What is done with a kernel.                                             *)
LEMMA KernelStepOutputs ==
  ASSUME TypeOK, OutputsPassed, NEW k \in Kernels, KernelStep(k)
  PROVE  OutputsPassed'
<1>1. ASSUME NEW use, NEW c, Accepts(k), SetArg(k, use, c), NextArg(k), UNCHANGED outputs
      PROVE  OutputsPassed'
  BY <1>1, PassedGrows, OutputsKept
<1>2. ASSUME NEW use \in {"out", "inout"}, NEW b \in FreeBuffers, NEW h \in Hosts,
             outputs' = [outputs EXCEPT ![k] = Append(@, [buf |-> b, array |-> h])]
      PROVE  \A l \in Kernels : \A i \in DOMAIN outputs'[l] :
               \/ i \in DOMAIN outputs[l] /\ outputs'[l][i] = outputs[l][i]
               \/ l = k /\ outputs'[l][i].buf = b
  <2>1. PICK o \in Output : o = [buf |-> b, array |-> h]
    BY DEF Output, FreeBuffers
  <2>2. outputs[k] \in Seq(Output)
    BY DEF TypeOK, KernelTypeOK
  <2>3. \A i \in DOMAIN Append(outputs[k], o) :
           \/ i \in DOMAIN outputs[k] /\ Append(outputs[k], o)[i] = outputs[k][i]
           \/ Append(outputs[k], o)[i] = o
    BY <2>2
  <2>4. \A l \in Kernels : outputs'[l] = IF l = k THEN Append(outputs[k], o) ELSE outputs[l]
    BY <1>2, <2>1 DEF TypeOK, KernelTypeOK
  <2>5. o.buf = b
    BY <2>1
  <2> QED
    BY <2>3, <2>4, <2>5
<1>3. CASE InputValue(k)
  BY <1>1, <1>3 DEF InputValue
<1>4. CASE DestroyKernel(k)
  <2>1. /\ \A l \in Kernels : outputs'[l] = IF l = k THEN <<>> ELSE outputs[l]
        /\ \A l \in Kernels \ {k} : nextArg'[l] = nextArg[l] /\ arg'[l] = arg[l]
    BY <1>4 DEF DestroyKernel, ForgetParameters, TypeOK, KernelTypeOK
  <2>2. \A l \in Kernels \ {k} : Passed(l)' = Passed(l)
    BY <2>1 DEF Passed
  <2> QED
    BY <2>1, <2>2, OutputsKept
<1>5. ASSUME NEW w \in Wrappers, Input(k, w) \/ Inout(k, w) \/ InoutBuffer(k, w)
      PROVE  OutputsPassed'
  BY <1>1, <1>5 DEF Input, Inout, InoutBuffer
<1>6. ASSUME NEW w \in Wrappers, OutputWrapper(k, w) PROVE OutputsPassed'
  BY <1>1, <1>6 DEF OutputWrapper
<1>7. ASSUME NEW w \in Wrappers, OutputWrapperFails(k, w) PROVE OutputsPassed'
  BY <1>7, SameOutputs DEF OutputWrapperFails, kernelVars
<1>8. ASSUME NEW h \in Hosts, InputArray(k, h) PROVE OutputsPassed'
  BY <1>1, <1>8 DEF InputArray
<1>9. ASSUME NEW h \in Hosts, InputArrayFails(k, h) PROVE OutputsPassed'
  BY <1>9, SameOutputs DEF InputArrayFails, kernelVars
<1>10. ASSUME NEW h \in Hosts, OutputArray(k, h) \/ InoutArray(k, h) PROVE OutputsPassed'
  <2>1. PICK b \in FreeBuffers, use \in {"out", "inout"} :
          /\ IF Accepts(k) THEN SetArg(k, use, b) ELSE UNCHANGED arg
          /\ outputs' = [outputs EXCEPT ![k] = Append(@, [buf |-> b, array |-> h])]
          /\ NextArg(k)
    BY <1>10 DEF OutputArray, InoutArray
  <2>2. \A l \in Kernels : \A i \in DOMAIN outputs'[l] :
          \/ i \in DOMAIN outputs[l] /\ outputs'[l][i] = outputs[l][i]
          \/ l = k /\ outputs'[l][i].buf = b
    BY <1>2, <2>1
  <2>3. CASE Accepts(k)
    <3>1. PICK j \in Passed(k)' : arg'[k][j] = [use |-> use, buf |-> b]
      BY <2>1, <2>3, PassedGrows
    <3>2. arg'[k][j].use \in {"out", "inout"} /\ arg'[k][j].buf = b
      BY <3>1
    <3>3. \A l \in Kernels : /\ nextArg'[l] <= Arity[l] => nextArg[l] <= Arity[l]
                             /\ \A i \in Passed(l) : i \in Passed(l)' /\ arg'[l][i] = arg[l][i]
      BY <2>1, <2>3, PassedGrows
    <3>4. ASSUME NEW l \in Kernels, NEW i \in DOMAIN outputs'[l]
          PROVE  \/ i \in DOMAIN outputs[l] /\ outputs'[l][i] = outputs[l][i]
                 \/ \E m \in Passed(l)' : /\ arg'[l][m].use \in {"out", "inout"}
                                          /\ arg'[l][m].buf = outputs'[l][i].buf
      <4>1. CASE l = k /\ outputs'[l][i].buf = b
        BY <3>2, <4>1, Zenon
      <4> QED
        BY <2>2, <4>1
    <3> QED
      BY <3>3, <3>4, OutputsKept
  <2>4. CASE ~Accepts(k)
    <3>1. /\ \A l \in Kernels : nextArg[l] \in Nat /\ Arity[l] \in Nat
          /\ \A l \in Kernels : nextArg'[l] = IF l = k THEN nextArg[k] + 1 ELSE nextArg[l]
      <4>1. nextArg \in [Kernels -> 0 .. MaxArgs]
        BY DEF TypeOK, KernelTypeOK
      <4>2. \A l \in Kernels : nextArg'[l] = IF l = k THEN nextArg[k] + 1 ELSE nextArg[l]
        BY <2>1, <4>1 DEF NextArg
      <4> QED
        BY <4>1, <4>2, KernelAssumption, WrapperAssumption
    <3>2. ~(nextArg'[k] <= Arity[k])
      BY <2>4, <3>1 DEF Accepts
    <3>3. \A l \in Kernels \ {k} : Passed(l)' = Passed(l) /\ arg'[l] = arg[l]
      BY <2>1, <2>4, <3>1 DEF Passed
    <3> QED
      BY <2>2, <3>1, <3>2, <3>3, OutputsKept
  <2> QED
    BY <2>3, <2>4
<1>11. ASSUME NEW q \in Queues, NEW fast_read \in BOOLEAN, Run(k, q, fast_read)
       PROVE  OutputsPassed'
  BY <1>11, SameOutputs DEF Run, kernelVars
<1> QED
  BY <1>3, <1>4, <1>5, <1>6, <1>7, <1>8, <1>9, <1>10, <1>11 DEF KernelStep

LEMMA NextOutputs ==
  ASSUME TypeOK, OutputsPassed, [Next]_vars
  PROVE  OutputsPassed'
<1>1. CASE RunReturns
  <2>1. /\ busy.k \in Kernels
        /\ ForgetParameters(busy.k) /\ UNCHANGED arg
    BY <1>1, BusyRun DEF RunReturns, Running
  <2>2. /\ \A l \in Kernels : outputs'[l] = IF l = busy.k THEN <<>> ELSE outputs[l]
        /\ \A l \in Kernels \ {busy.k} : nextArg'[l] = nextArg[l]
    BY <2>1 DEF ForgetParameters, TypeOK, KernelTypeOK
  <2>3. \A l \in Kernels \ {busy.k} : Passed(l)' = Passed(l)
    BY <2>1, <2>2 DEF Passed
  <2> QED
    BY <2>1, <2>2, <2>3, OutputsKept
<1>2. ASSUME NEW w \in Wrappers, WrapperStep(w) PROVE OutputsPassed'
  BY <1>2, SameOutputs
  DEF WrapperStep, CreateOnDevice, CopyToDevice, CopyToDeviceFails, CopyToHost,
      DeleteFromDevice, Destroy, ClientMarksDirty, kernelVars
<1>3. CASE \/ CopyToDeviceReturns \/ CopyToHostReturns \/ CopyToHostThrows
           \/ RunReads \/ RunReadRefused \/ FinishReturns
  BY <1>3, SameOutputs
  DEF CopyToDeviceReturns, CopyToHostReturns, CopyToHostThrows, RunReads, RunReadRefused,
      FinishReturns, kernelVars
<1>4. ASSUME UNCHANGED kernelVars PROVE OutputsPassed'
  BY <1>4, SameOutputs DEF kernelVars
<1> QED
  BY <1>1, <1>2, <1>3, <1>4, KernelStepOutputs
  DEF Next, Returns, Edit, CopyAllTo, CopyTo, FinishCall, DeviceStep, vars

-----------------------------------------------------------------------------
(* The run.                                                                *)

(* Before the launch there was no transfer on any queue.                   *)
LEMMA RunDelivery ==
  ASSUME TypeOK, OnlyTransferring, OutputsPassed, NEW k \in Kernels, NEW q \in Queues,
         NEW fast_read \in BOOLEAN, Run(k, q, fast_read)
  PROVE  Delivery'
<1>1. PICK v : /\ Intend(WrittenBy(k), v)
               /\ busy'.op = "run" /\ busy'.k = k /\ busy'.q = q /\ busy'.val = v
               /\ busy'.next = 1
  BY DEF Run
<1>2. UNCHANGED kernelVars
  BY DEF Run
<1>3. NoTransfers(q)'
  <2>1. ~Transferring(q)'
    BY <1>1 DEF Transferring, NoneToAwait
  <2> QED
    BY <2>1, RunTransfers DEF OnlyTransferring
<1>4. OutputsComputed'
  <2>1. ASSUME nextArg[k] <= Arity[k], NEW i \in DOMAIN outputs[k]
        PROVE  intended'[outputs[k][i].buf] = v
    <3>1. PICK j \in Passed(k) : /\ arg[k][j].use \in {"out", "inout"}
                                 /\ arg[k][j].buf = outputs[k][i].buf
      BY <2>1 DEF OutputsPassed
    <3>2. outputs[k][i].buf \in WrittenBy(k)
      BY <3>1 DEF WrittenBy, PassedAs, Passed
    <3>3. outputs[k][i].buf \in Buffers
      BY <3>2, NamedBuffers
    <3> QED
      BY <1>1, <3>2, <3>3 DEF Intend
  <2> QED
    BY <1>1, <1>2, <2>1 DEF OutputsComputed, Delivering, kernelVars
<1>5. ReadsLast'
  BY <1>1, <1>3 DEF ReadsLast, NoTransfers, Commands
<1>6. OnItsWay'
  <2>1. \A i \in DOMAIN outputs[k] : ~(i < 1)
    BY DEF TypeOK, KernelTypeOK
  <2> QED
    BY <1>1, <1>2, <2>1 DEF OnItsWay, Delivering, kernelVars
<1> QED
  BY <1>4, <1>5, <1>6 DEF Delivery

LEMMA ReadsDelivery ==
  ASSUME TypeOK, RefusedTried, Delivery, RunReads
  PROVE  Delivery'
<1>1. /\ busy \in Running /\ busy.op = "run" /\ busy' = [busy EXCEPT !.next = @ + 1]
      /\ busy.next <= Len(outputs[busy.k])
      /\ UNCHANGED <<host, intended, kernelVars>>
      /\ Enqueue(busy.q, <<ReadBack(outputs[busy.k][busy.next])>>)
  BY BusyRun DEF RunReads, Reading
<1>2. /\ busy.k \in Kernels /\ busy.q \in Queues /\ busy.next \in Nat \ {0}
      /\ busy'.op = "run" /\ busy'.k = busy.k /\ busy'.q = busy.q
      /\ busy'.val = busy.val /\ busy'.refused = busy.refused
      /\ busy'.next = busy.next + 1
  BY <1>1 DEF Running
<1>3. /\ busy.next \in DOMAIN outputs[busy.k]
      /\ \A i \in DOMAIN outputs[busy.k] : i \in Int
  <2>1. outputs[busy.k] \in Seq(Output)
    BY <1>2 DEF TypeOK, KernelTypeOK
  <2> QED
    BY <1>1, <1>2, <2>1
<1>4. PICK c \in Command : c = ReadBack(outputs[busy.k][busy.next]) /\ c.op = "read"
  <2>1. PICK o \in Output : o = outputs[busy.k][busy.next]
    BY <1>2, <1>3 DEF TypeOK, KernelTypeOK
  <2>2. o.buf \in Buffers /\ o.array \in Hosts
    BY DEF Output
  <2>3. PICK d \in Command : d = ReadBack(o)
    BY <2>2 DEF ReadBack, Read, Command
  <2>4. d.op = "read"
    BY <2>3 DEF ReadBack, Read
  <2> QED
    BY <2>1, <2>3, <2>4
<1>5. /\ Len(pending[busy.q]) \in Nat
      /\ DOMAIN pending[busy.q] = 1 .. Len(pending[busy.q])
      /\ DOMAIN pending'[busy.q] = 1 .. Len(pending[busy.q]) + 1
      /\ \A i \in 1 .. Len(pending[busy.q]) : pending'[busy.q][i] = pending[busy.q][i]
      /\ pending'[busy.q][Len(pending[busy.q]) + 1] = c
      /\ Commands(busy.q)' = Commands(busy.q) \cup {c}
  BY <1>1, <1>2, <1>4, EnqueueElements DEF TypeOK
<1>6. OutputsComputed'
  BY <1>1, <1>2 DEF Delivery, OutputsComputed, Delivering, kernelVars
<1>7. ReadsLast'
  <2>1. ASSUME NEW i \in DOMAIN pending'[busy.q], NEW j \in DOMAIN pending'[busy.q],
               i < j, pending'[busy.q][i].op = "read"
        PROVE  pending'[busy.q][j].op = "read"
    <3>1. i \in DOMAIN pending[busy.q] /\ pending'[busy.q][i] = pending[busy.q][i]
      BY <1>5, <2>1
    <3>2. CASE j = Len(pending[busy.q]) + 1
      BY <1>4, <1>5, <3>2
    <3>3. CASE j # Len(pending[busy.q]) + 1
      <4>1. j \in DOMAIN pending[busy.q] /\ pending'[busy.q][j] = pending[busy.q][j]
        BY <1>5, <3>3
      <4> QED
        BY <1>1, <2>1, <3>1, <4>1 DEF Delivery, ReadsLast
    <3> QED
      BY <3>2, <3>3
  <2>2. ASSUME NEW d \in Commands(busy.q)', d.op # "compute"
        PROVE  \E i : Asked(i)' /\ d = ReadBack(outputs[busy.k][i])
    <3>1. CASE d = c
      <4>1. PICK n \in Nat : n = busy.next
        BY <1>2
      <4>2. Asked(n)'
        BY <1>1, <1>2, <1>3, <4>1 DEF Asked, RefusedTried, kernelVars
      <4> QED
        BY <1>4, <3>1, <4>1, <4>2
    <3>2. CASE d \in Commands(busy.q)
      <4>1. PICK i : Asked(i) /\ d = ReadBack(outputs[busy.k][i])
        BY <1>1, <2>2, <3>2 DEF Delivery, ReadsLast
      <4>2. Asked(i)'
        BY <1>1, <1>2, <1>3, <4>1 DEF Asked, kernelVars
      <4> QED
        BY <4>1, <4>2
    <3> QED
      BY <1>5, <2>2, <3>1, <3>2
  <2> QED
    BY <1>1, <1>2, <2>1, <2>2 DEF ReadsLast, ReadBack, Read, Commands, kernelVars
<1>8. OnItsWay'
  <2>1. ASSUME Delivering, NEW i \in DOMAIN outputs[busy.k], i < busy.next + 1
        PROVE  \/ i \in busy.refused
               \/ host[outputs[busy.k][i].array] = busy.val
               \/ ReadBack(outputs[busy.k][i]) \in Commands(busy.q)'
    <3>1. CASE i = busy.next
      BY <1>4, <1>5, <3>1
    <3>2. CASE i < busy.next
      BY <1>5, <2>1, <3>2 DEF Delivery, OnItsWay
    <3> QED
      BY <1>2, <1>3, <2>1, <3>1, <3>2
  <2> QED
    BY <1>1, <1>2, <2>1 DEF OnItsWay, Delivering, ReadBack, Read, Commands, kernelVars
<1> QED
  BY <1>6, <1>7, <1>8 DEF Delivery

LEMMA RefusedDelivery ==
  ASSUME TypeOK, Delivery, RunReadRefused
  PROVE  Delivery'
<1>1. /\ busy \in Running /\ busy.op = "run"
      /\ busy' = [busy EXCEPT !.next = @ + 1, !.refused = @ \cup {busy.next}]
      /\ UNCHANGED <<host, pending, intended, kernelVars>>
  BY BusyRun DEF RunReadRefused, Reading, deviceVars
<1>2. /\ busy.k \in Kernels /\ busy.next \in Nat \ {0}
      /\ busy'.op = "run" /\ busy'.k = busy.k /\ busy'.q = busy.q
      /\ busy'.val = busy.val /\ busy'.refused = busy.refused \cup {busy.next}
      /\ busy'.next = busy.next + 1
  BY <1>1 DEF Running
<1>3. \A i \in DOMAIN outputs[busy.k] : i \in Int
  BY <1>2 DEF TypeOK, KernelTypeOK
<1>4. ASSUME Delivering, NEW i \in DOMAIN outputs[busy.k], i < busy.next + 1
      PROVE  \/ i \in busy'.refused
             \/ host[outputs[busy.k][i].array] = busy.val
             \/ ReadBack(outputs[busy.k][i]) \in Commands(busy.q)
  <2>1. CASE i = busy.next
    BY <1>2, <2>1
  <2>2. CASE i < busy.next
    BY <1>2, <1>4, <2>2 DEF Delivery, OnItsWay
  <2> QED
    BY <1>2, <1>3, <1>4, <2>1, <2>2
<1>5. OnItsWay'
  BY <1>1, <1>2, <1>4 DEF OnItsWay, Delivering, ReadBack, Read, Commands, kernelVars
<1>6. \A i : Asked(i) => Asked(i)'
  BY <1>1, <1>2, <1>3 DEF Asked, kernelVars
<1>7. ReadsLast'
  BY <1>1, <1>2, <1>6 DEF Delivery, ReadsLast, ReadBack, Read, Commands, kernelVars
<1> QED
  BY <1>1, <1>2, <1>5, <1>7 DEF Delivery, OutputsComputed, Delivering, kernelVars

(* The device reads a result back: nothing else is on its way into the     *)
(* buffer any more, on this queue or another.                              *)
LEMMA DeviceReads ==
  ASSUME TypeOK, Order, Delivery, busy.op = "run", Execute(busy.q),
         NEW c, c = Head(pending[busy.q]), c.op # "compute"
  PROVE  \E m \in DOMAIN outputs[busy.k], b \in Buffers, a \in Hosts :
           /\ m \notin busy.refused
           /\ b = outputs[busy.k][m].buf /\ a = outputs[busy.k][m].array
           /\ c.op = "read" /\ c.buf = b /\ c.array = a
           /\ host' = [host EXCEPT ![a] = mem[b]]
           /\ Delivering => mem[b] = busy.val
<1>1. busy.k \in Kernels /\ busy.q \in Queues
  BY BusyRun DEF Running
<1>2. PICK q \in Queues : q = busy.q
  BY <1>1
<1>3. /\ DOMAIN pending[q] = 1 .. Len(pending[q]) /\ Len(pending[q]) \in Nat \ {0}
      /\ c = pending[q][1] /\ c \in Command /\ c \in Commands(q)
  BY <1>2, ExecuteElements DEF Commands, TypeOK
<1>4. PICK m \in DOMAIN outputs[busy.k] :
        m \notin busy.refused /\ c = ReadBack(outputs[busy.k][m])
  BY <1>2, <1>3 DEF Delivery, ReadsLast, Asked
<1>5. PICK b, a : b = outputs[busy.k][m].buf /\ a = outputs[busy.k][m].array
  OBVIOUS
<1>6. c.op = "read" /\ c.buf = b /\ c.array = a
  BY <1>4, <1>5 DEF ReadBack, Read
<1>7. b \in buffers[busy.k] /\ b \in Buffers /\ a \in Hosts
  BY <1>1, <1>3, <1>5, <1>6 DEF Order, Use, OutputsOwn, Command
<1>8. host' = [host EXCEPT ![a] = mem[b]]
  BY <1>6 DEF Execute
<1>9. ASSUME Delivering PROVE mem[b] = busy.val
  <2>1. \A p \in Queues \ {q} : \A j \in DOMAIN pending[p] : ~Writer(p, j, b)
    BY <1>1, <1>2, <1>7, WriterUses DEF Order, Use, ArrayUse
  <2>2. \A j \in DOMAIN pending[q] : pending[q][j].op = "read"
    <3>1. 1 \in DOMAIN pending[q] /\ pending[q][1].op = "read"
      BY <1>3, <1>6
    <3>2. \A j \in DOMAIN pending[q] : j = 1 \/ 1 < j
      BY <1>3
    <3> QED
      BY <1>2, <3>1, <3>2 DEF Delivery, ReadsLast
  <2>3. \A j \in DOMAIN pending[q] : ~Writer(q, j, b)
    BY <2>2 DEF Writer, Writes
  <2>4. Finds(q, Len(pending[q]) + 1, b, intended[b])
    BY <1>7, <2>1 DEF Order, Ordered, Settled
  <2>5. mem[b] = intended[b]
    BY <2>3, <2>4 DEF Finds
  <2> QED
    BY <1>5, <1>9, <2>5 DEF Delivery, OutputsComputed
<1> QED
  BY <1>4, <1>5, <1>6, <1>7, <1>8, <1>9

(* A step of the device.                                                   *)
LEMMA DeviceStepDelivery ==
  ASSUME TypeOK, Order, OnlyTransferring, Delivery, NEW q \in Queues, DeviceStep(q)
  PROVE  Delivery'
<1>1. /\ Execute(q)
      /\ UNCHANGED <<busy, intended, kernelVars>>
  BY DEF DeviceStep, Execute
<1>2. CASE busy.op # "run"
  BY <1>1, <1>2 DEF Delivery, OutputsComputed, ReadsLast, OnItsWay, Delivering
<1>3. CASE busy.op = "run" /\ q # busy.q
  <2>1. NoTransfers(q) /\ busy.q \in Queues
    BY <1>3, BusyRun DEF OnlyTransferring, Transferring, Running
  <2>2. UNCHANGED host /\ pending'[busy.q] = pending[busy.q]
    <3>1. /\ Head(pending[q]) = pending[q][1] /\ 1 \in DOMAIN pending[q]
          /\ \A p \in Queues \ {q} : pending'[p] = pending[p]
      BY <1>1, ExecuteElements DEF TypeOK
    <3>2. Head(pending[q]).op = "compute"
      BY <2>1, <3>1 DEF NoTransfers
    <3>3. UNCHANGED host
      BY <1>1, <3>2 DEF Execute
    <3> QED
      BY <1>3, <2>1, <3>1, <3>3
  <2> QED
    BY <1>1, <2>2 DEF Delivery, OutputsComputed, ReadsLast, Asked, OnItsWay, Delivering,
                      Commands, ReadBack, Read, kernelVars
<1>4. CASE busy.op = "run" /\ q = busy.q
  <2>1. PICK n \in Nat \ {0} :
          /\ n = Len(pending[q]) /\ DOMAIN pending[q] = 1 .. n
          /\ DOMAIN pending'[q] = 1 .. n - 1
          /\ \A i \in 1 .. n - 1 : pending'[q][i] = pending[q][i + 1]
    BY <1>1, ExecuteElements DEF TypeOK
  <2>2. PICK c \in Command : c = Head(pending[q]) /\ c = pending[q][1] /\ c \in Commands(q)
    BY <1>1, ExecuteElements DEF Commands, TypeOK
  <2>3. Commands(q) \subseteq Commands(q)' \cup {c}
    <3>1. ASSUME NEW i \in 1 .. n, i # 1 PROVE pending[q][i] \in Commands(q)'
      <4>1. i - 1 \in 1 .. n - 1 /\ (i - 1) + 1 = i
        BY <3>1
      <4> QED
        BY <2>1, <4>1 DEF Commands
    <3> QED
      BY <2>1, <2>2, <3>1 DEF Commands
  <2>4. ReadsLast'
    <3>1. ASSUME NEW i \in 1 .. n - 1, NEW j \in 1 .. n - 1, i < j, pending[q][i + 1].op = "read"
          PROVE  pending[q][j + 1].op = "read"
      <4>1. i + 1 \in 1 .. n /\ j + 1 \in 1 .. n /\ i + 1 < j + 1
        BY <3>1
      <4> QED
        BY <1>4, <2>1, <3>1, <4>1 DEF Delivery, ReadsLast
    <3>2. \A i, j \in DOMAIN pending'[q] :
            i < j /\ pending'[q][i].op = "read" => pending'[q][j].op = "read"
      <4> TAKE i, j \in DOMAIN pending'[q]
      <4>1. i \in 1 .. n - 1 /\ j \in 1 .. n - 1
        BY <2>1
      <4>2. pending'[q][i] = pending[q][i + 1] /\ pending'[q][j] = pending[q][j + 1]
        BY <2>1, <4>1
      <4> QED
        BY <3>1, <4>1, <4>2
    <3>3. Commands(q)' \subseteq Commands(q)
      BY <1>1, ExecuteElements DEF TypeOK
    <3>4. \A d \in Commands(q)' : d.op # "compute" =>
            \E i : Asked(i) /\ d = ReadBack(outputs[busy.k][i])
      BY <1>4, <3>3 DEF Delivery, ReadsLast
    <3> QED
      BY <1>1, <1>4, <3>2, <3>4 DEF ReadsLast, Asked, ReadBack, Read, Commands, kernelVars
  <2>5. OutputsComputed'
    BY <1>1 DEF Delivery, OutputsComputed, Delivering, kernelVars
  <2>6. CASE c.op = "compute"
    <3>1. UNCHANGED host
      BY <1>1, <2>2, <2>6 DEF Execute
    <3>2. \A o : ReadBack(o) # c
      BY <2>6 DEF ReadBack, Read
    <3>3. OnItsWay'
      BY <1>1, <1>4, <2>3, <3>1, <3>2
      DEF Delivery, OnItsWay, Delivering, ReadBack, Read, Commands, kernelVars
    <3> QED
      BY <2>4, <2>5, <3>3 DEF Delivery
  <2>7. CASE c.op # "compute"
    <3>1. PICK m \in DOMAIN outputs[busy.k], b \in Buffers, a \in Hosts :
            /\ b = outputs[busy.k][m].buf /\ a = outputs[busy.k][m].array
            /\ c.op = "read" /\ c.buf = b /\ c.array = a
            /\ host' = [host EXCEPT ![a] = mem[b]]
            /\ Delivering => mem[b] = busy.val
      BY <1>1, <1>4, <2>2, <2>7, DeviceReads
    <3>2. ASSUME Delivering, NEW i \in DOMAIN outputs[busy.k], i < busy.next
          PROVE  \/ i \in busy.refused
                 \/ host'[outputs[busy.k][i].array] = busy.val
                 \/ ReadBack(outputs[busy.k][i]) \in Commands(q)'
      <4>1. PICK h : h = outputs[busy.k][i].array
        OBVIOUS
      <4>2. CASE h = a
        BY <3>1, <3>2, <4>1, <4>2 DEF TypeOK, DeviceTypeOK
      <4>3. CASE h # a
        <5>1. host'[h] = host[h]
          BY <3>1, <4>3 DEF TypeOK, DeviceTypeOK
        <5>2. ReadBack(outputs[busy.k][i]) # c
          BY <3>1, <4>1, <4>3 DEF ReadBack, Read
        <5>3. \/ i \in busy.refused
              \/ host[h] = busy.val
              \/ ReadBack(outputs[busy.k][i]) \in Commands(q)
          BY <1>4, <3>2, <4>1 DEF Delivery, OnItsWay
        <5>4. ReadBack(outputs[busy.k][i]) \in Commands(q)
                => ReadBack(outputs[busy.k][i]) \in Commands(q)'
          BY <2>3, <5>2
        <5> QED
          BY <1>4, <4>1, <5>1, <5>3, <5>4, Zenon
      <4> QED
        BY <4>2, <4>3
    <3>3. OnItsWay'
      BY <1>1, <1>4, <3>2 DEF OnItsWay, Delivering, ReadBack, Read, Commands, kernelVars
    <3> QED
      BY <2>4, <2>5, <3>3 DEF Delivery
  <2> QED
    BY <2>6, <2>7
<1> QED
  BY <1>2, <1>3, <1>4

LEMMA NextDelivery ==
  ASSUME TypeOK, Order, OnlyTransferring, RefusedTried, OutputsPassed, Delivery, [Next]_vars
  PROVE  Delivery'
<1>1. ASSUME busy'.op # "run" PROVE Delivery'
  BY <1>1 DEF Delivery, OutputsComputed, ReadsLast, OnItsWay, Delivering
<1>2. ASSUME busy = Idle, UNCHANGED busy PROVE Delivery'
  BY <1>1, <1>2 DEF Idle
<1>3. ASSUME NEW w \in Wrappers, WrapperStep(w) PROVE Delivery'
  BY <1>1, <1>2, <1>3
  DEF WrapperStep, CreateOnDevice, CopyToDevice, CopyToDeviceFails, CopyToHost,
      DeleteFromDevice, Destroy, ClientMarksDirty
<1>4. ASSUME NEW k \in Kernels, KernelStep(k) PROVE Delivery'
  BY <1>2, <1>4, RunDelivery
  DEF KernelStep, InputValue, DestroyKernel, Input, Inout, InoutBuffer, OutputWrapper,
      OutputWrapperFails, InputArray, InputArrayFails, OutputArray, InoutArray, Passing
<1>5. CASE \/ FinishCall \/ FinishReturns \/ RunReturns
           \/ CopyToDeviceReturns \/ CopyToHostReturns \/ CopyToHostThrows
  BY <1>1, <1>5
  DEF FinishCall, FinishReturns, RunReturns, CopyToDeviceReturns, CopyToHostReturns,
      CopyToHostThrows, Idle
<1>6. CASE UNCHANGED vars
  BY <1>6
  DEF vars, deviceVars, kernelVars, Delivery, OutputsComputed, ReadsLast, Asked, OnItsWay,
      Delivering, Commands, ReadBack, Read
<1> QED
  BY <1>2, <1>3, <1>4, <1>5, <1>6, ReadsDelivery, RefusedDelivery, DeviceStepDelivery
  DEF Next, Returns, Edit, CopyAllTo, CopyTo

LEMMA DeliveryCorrect ==
  ASSUME Rule("keepBound"), Rule("freshArgs"), Rule("defaultQueue"), Rule("fastAccepted")
  PROVE  Spec => [](OnlyTransferring /\ RefusedTried /\ Delivery)
<1>1. Init => OnlyTransferring /\ RefusedTried /\ OutputsPassed /\ Delivery
  BY DEF Init, DeviceInit, WrapperInit, KernelInit, Idle, OnlyTransferring, NoTransfers,
         RefusedTried, OutputsPassed, Delivery, OutputsComputed, ReadsLast, OnItsWay, Delivering
<1>2. TypeOK /\ RefusedTried /\ [Next]_vars => RefusedTried'
  BY NextTried
<1>3. TypeOK /\ OnlyTransferring /\ RefusedTried /\ [Next]_vars => OnlyTransferring'
  BY NextTransfers
<1>4. TypeOK /\ OutputsPassed /\ [Next]_vars => OutputsPassed'
  BY NextOutputs
<1>5. TypeOK /\ Order /\ OnlyTransferring /\ RefusedTried /\ OutputsPassed /\ Delivery /\ [Next]_vars
        => Delivery'
  BY NextDelivery
<1> QED
  BY <1>1, <1>2, <1>3, <1>4, <1>5, TypeCorrect, OrderCorrect, PTL DEF Spec

(* When run() returns its outputs are there.                               *)
LEMMA ReturnsDelivered ==
  ASSUME TypeOK, OnlyTransferring, RefusedTried, Delivery, RunReturns,
         nextArg[busy.k] <= Arity[busy.k],
         NEW i \in DOMAIN outputs[busy.k] \ busy.refused
  PROVE  host[outputs[busy.k][i].array] = busy.val
<1>1. busy.op = "run" /\ OutputsRead /\ busy \in Running
  BY BusyRun DEF RunReturns
<1>2. pending[busy.q] = <<>> \/ NoneToAwait
  BY <1>1 DEF OutputsRead, AllRead, ReadDone, RefusedTried, NoneToAwait
<1>3. NoTransfers(busy.q)
  BY <1>1, <1>2, EmptyNoTransfers DEF OnlyTransferring, Transferring, Running
<1>4. ReadBack(outputs[busy.k][i]) \notin Commands(busy.q)
  BY <1>3 DEF NoTransfers, Commands, ReadBack, Read
<1>5. i < busy.next
  <2>1. outputs[busy.k] \in Seq(Output) /\ busy.next \in Nat
    BY <1>1 DEF TypeOK, KernelTypeOK, Running
  <2> QED
    BY <1>1, <2>1 DEF OutputsRead
<1> QED
  BY <1>1, <1>4, <1>5 DEF Delivery, OnItsWay, Delivering

(* When run() returns it has delivered: every plain array passed with      *)
(* out(N, data) or inout(N, data) whose read OpenCL did not refuse holds   *)
(* what this launch computed, whatever the queue, with fast_read or not,   *)
(* and however late the device was (CLKernel::run).                        *)
THEOREM OutputsAreDelivered ==
  ASSUME Rule("keepBound"), Rule("freshArgs"), Rule("defaultQueue"), Rule("fastAccepted")
  PROVE  Spec => OutputsDelivered
<1>1. TypeOK /\ OnlyTransferring /\ RefusedTried /\ Delivery /\ [Next]_vars
        => [RunReturns /\ nextArg[busy.k] <= Arity[busy.k] =>
             \A i \in DOMAIN outputs[busy.k] \ busy.refused :
               host[outputs[busy.k][i].array] = busy.val]_vars
  BY ReturnsDelivered
<1> QED
  BY <1>1, TypeCorrect, DeliveryCorrect, PTL DEF Spec, OutputsDelivered

-----------------------------------------------------------------------------
(***************************************************************************)
(* What the client sees: theorems for clients that pass wrappers as a      *)
(* whole, never a bare buffer of one.                                      *)
(***************************************************************************)
(* No parameter is the bare buffer of a wrapper.                           *)
NoBare == \A k \in Kernels : \A i \in DOMAIN arg[k] : arg[k][i].use # "bare"

(* What the flag promises about wrapper w.                                 *)
Seen(w) == /\ onDevice[w] /\ ~deviceDirty[w] /\ w \notin edited
           /\ intended[devicearray[w]] \in Val
           => host[w] = intended[devicearray[w]]

(* The call in progress has not set or cleared the flag of w yet.          *)
Moving(w) == busy.op \in {"upload", "download"} /\ busy.w = w
Marking(w) == busy.op = "run" /\ w \in wrappersToDirty[busy.k]

CleanSeen == \A w \in Wrappers : Seen(w) \/ Moving(w) \/ Marking(w)

(* A copy that only has to return has made both sides equal.               *)
Uploading == busy.op = "upload" => /\ onDevice[busy.w]
                                   /\ host[busy.w] = intended[devicearray[busy.w]]
Downloading ==
  busy.op = "download" =>
    /\ onDevice[busy.w]
    /\ IF pending[DefaultQueue] = <<>>
       THEN host[busy.w] = intended[devicearray[busy.w]]
       ELSE pending[DefaultQueue][Len(pending[DefaultQueue])]
              = Read(devicearray[busy.w], busy.w)

Flags == CleanSeen /\ Uploading /\ Downloading

(* A step leaves all that Seen(w) speaks of as it is, or makes it true by  *)
(* itself.                                                                 *)
Keeps(w) ==
  onDevice'[w] =>
    \/ /\ onDevice[w]
       /\ host'[w] = host[w]
       /\ devicearray'[w] = devicearray[w]
       /\ intended'[devicearray[w]] = intended[devicearray[w]]
       /\ deviceDirty'[w] = deviceDirty[w]
       /\ w \in edited => w \in edited'
    \/ deviceDirty'[w] \/ w \in edited'
    \/ intended'[devicearray'[w]] = Junk

LEMMA KeepsSeen ==
  ASSUME NEW w, Seen(w), Keeps(w)
  PROVE  Seen(w)'
BY DeviceAssumption DEF Seen, Keeps

(* No call in progress, and none starts that moves an array.               *)
LEMMA IdleFlags ==
  ASSUME Flags, busy = Idle, busy'.op \notin {"upload", "download"},
         \A w \in Wrappers : Keeps(w) \/ Marking(w)'
  PROVE  Flags'
BY KeepsSeen DEF Flags, CleanSeen, Uploading, Downloading, Moving, Marking, Idle

(* The buffer of a wrapper is no new one and no other wrapper's.           *)
LEMMA NewBufferKeeps ==
  ASSUME TypeOK, Ownership, NEW b \in FreeBuffers, NEW v, Intend({b}, v),
         NEW w \in Wrappers, UNCHANGED <<host, edited>>,
         onDevice'[w] = onDevice[w], devicearray'[w] = devicearray[w],
         deviceDirty'[w] = deviceDirty[w]
  PROVE  Keeps(w)
<1>1. onDevice[w] => devicearray[w] \in Buffers /\ devicearray[w] # b
  BY DEF FreeBuffers, Ownership, OnDevice, TypeOK, WrapperTypeOK
<1> QED
  BY <1>1 DEF Intend, Keeps

LEMMA AttachKeeps ==
  ASSUME TypeOK, Ownership, NEW u \in Wrappers, NEW b \in FreeBuffers, Attach(u, b),
         Intend({b}, Junk), UNCHANGED <<host, edited>>
  PROVE  \A w \in Wrappers : Keeps(w)
<1>1. ASSUME NEW w \in Wrappers, w # u PROVE Keeps(w)
  BY <1>1, NewBufferKeeps DEF Attach, TypeOK, WrapperTypeOK
<1>2. Keeps(u)
  BY DEF Attach, Intend, Keeps, FreeBuffers, TypeOK, WrapperTypeOK
<1> QED
  BY <1>1, <1>2

(* Nothing that Seen speaks of changes.                                    *)
LEMMA SameKeeps ==
  ASSUME UNCHANGED <<host, intended, wrapperVars>>, NEW w \in Wrappers
  PROVE  Keeps(w)
BY DEF Keeps, wrapperVars

-----------------------------------------------------------------------------
(* The client and its wrappers.                                            *)
LEMMA EditFlags ==
  ASSUME TypeOK, Flags, NEW h \in Hosts, NEW v \in Val, Edit(h, v)
  PROVE  Flags'
<1>1. busy = Idle /\ busy' = Idle
  BY DEF Edit
<1>2. ASSUME NEW w \in Wrappers PROVE Keeps(w)
  BY DEF Edit, Keeps, deviceVars, TypeOK, DeviceTypeOK
<1> QED
  BY <1>1, <1>2, IdleFlags DEF Idle

LEMMA CopyToDeviceFlags ==
  ASSUME TypeOK, Ownership, Flags, NEW u \in Wrappers, CopyToDevice(u)
  PROVE  Flags'
<1>1. /\ busy = Idle /\ busy' = [op |-> "upload", w |-> u]
      /\ UNCHANGED <<host, edited>>
  BY DEF CopyToDevice
<1>2. PICK b \in Buffers :
        /\ Intend({b}, host[u])
        /\ \/ /\ onDevice[u] /\ b = devicearray[u]
              /\ UNCHANGED <<devicearray, onDevice, deviceDirty>>
           \/ /\ b \in FreeBuffers /\ Attach(u, b)
  BY DEF CopyToDevice, FreeBuffers, TypeOK, WrapperTypeOK
<1>3. ASSUME NEW w \in Wrappers, w # u PROVE Keeps(w)
  <2>1. CASE onDevice[u] /\ b = devicearray[u] /\ UNCHANGED <<devicearray, onDevice, deviceDirty>>
    <3>1. onDevice[w] => devicearray[w] \in Buffers /\ devicearray[w] # b
      BY <1>3, <2>1 DEF Ownership, OnDevice, TypeOK, WrapperTypeOK
    <3> QED
      BY <1>1, <1>2, <2>1, <3>1 DEF Intend, Keeps
  <2>2. CASE b \in FreeBuffers /\ Attach(u, b)
    BY <1>1, <1>2, <1>3, <2>2, NewBufferKeeps DEF Attach, TypeOK, WrapperTypeOK
  <2> QED
    BY <1>2, <2>1, <2>2
<1>4. CleanSeen'
  BY <1>1, <1>3, KeepsSeen DEF Flags, CleanSeen, Moving, Marking, Idle
<1>5. onDevice'[u] /\ devicearray'[u] = b
  BY <1>2 DEF Attach, TypeOK, WrapperTypeOK
<1>6. Uploading'
  BY <1>1, <1>2, <1>5 DEF Uploading, Intend
<1> QED
  BY <1>1, <1>4, <1>6 DEF Flags, Downloading

LEMMA CopyToHostFlags ==
  ASSUME TypeOK, Flags, NEW u \in Wrappers, CopyToHost(u)
  PROVE  Flags'
<1>1. /\ busy = Idle /\ busy' = [op |-> "download", w |-> u]
      /\ UNCHANGED <<host, intended, wrapperVars>>
      /\ onDevice'[u] /\ devicearray'[u] = devicearray[u]
      /\ DefaultQueue \in Queues /\ devicearray[u] \in Buffers
      /\ Enqueue(DefaultQueue, <<Read(devicearray[u], u)>>)
  BY DeviceAssumption DEF CopyToHost, wrapperVars, TypeOK, WrapperTypeOK
<1>2. PICK c \in Command : c = Read(devicearray[u], u)
  BY <1>1, WrapperAssumption DEF Read, Command
<1>3. /\ pending'[DefaultQueue] # <<>>
      /\ pending'[DefaultQueue][Len(pending'[DefaultQueue])] = c
  BY <1>1, <1>2, EnqueueElements DEF TypeOK
<1>4. Downloading'
  BY <1>1, <1>2, <1>3 DEF Downloading, Read
<1>5. CleanSeen'
  BY <1>1, SameKeeps, KeepsSeen DEF Flags, CleanSeen, Moving, Marking, Idle
<1> QED
  BY <1>1, <1>4, <1>5 DEF Flags, Uploading

(* A copy marks its target at once.                                        *)
LEMMA CopyToFlags ==
  ASSUME TypeOK, Ownership, Flags, NEW s \in Wrappers, NEW t \in Wrappers,
         NEW from, NEW to, NEW count, CopyTo(s, t, from, to, count)
  PROVE  Flags'
<1>1. /\ busy = Idle /\ busy' = Idle /\ onDevice[t]
      /\ UNCHANGED <<host, devicearray, onDevice, edited>>
      /\ \A w \in Wrappers : deviceDirty'[w] = IF w = t THEN TRUE ELSE deviceDirty[w]
  BY DEF CopyTo, MarkDeviceDirty, TypeOK, WrapperTypeOK
<1>2. PICK v : Intend({devicearray[t]}, v)
  BY DEF CopyTo, EnqueueCopy
<1>3. ASSUME NEW w \in Wrappers PROVE Keeps(w)
  <2>1. CASE w = t
    BY <1>1, <2>1 DEF Keeps
  <2>2. CASE w # t
    <3>1. onDevice[w] => devicearray[w] \in Buffers /\ devicearray[w] # devicearray[t]
      BY <1>1, <2>2 DEF Ownership, OnDevice, TypeOK, WrapperTypeOK
    <3> QED
      BY <1>1, <1>2, <2>2, <3>1 DEF Intend, Keeps
  <2> QED
    BY <2>1, <2>2
<1> QED
  BY <1>1, <1>3, IdleFlags DEF Idle

LEMMA WrapperStepFlags ==
  ASSUME TypeOK, Ownership, Flags, NEW u \in Wrappers, WrapperStep(u)
  PROVE  Flags'
<1>1. CASE CreateOnDevice(u) \/ CopyToDeviceFails(u)
  <2>1. busy = Idle /\ busy' = Idle
    BY <1>1 DEF CreateOnDevice, CopyToDeviceFails
  <2>2. \A w \in Wrappers : Keeps(w)
    BY <1>1, AttachKeeps DEF CreateOnDevice, CopyToDeviceFails
  <2> QED
    BY <2>1, <2>2, IdleFlags DEF Idle
<1>2. CASE DeleteFromDevice(u) \/ Destroy(u) \/ ClientMarksDirty(u)
  <2>1. busy = Idle /\ busy' = Idle
    BY <1>2 DEF DeleteFromDevice, Destroy, ClientMarksDirty
  <2>2. ASSUME NEW w \in Wrappers PROVE Keeps(w)
    <3>1. CASE DeleteFromDevice(u)
      BY <3>1 DEF DeleteFromDevice, Detach, Keeps, TypeOK, WrapperTypeOK
    <3>2. CASE Destroy(u)
      BY <3>2 DEF Destroy, Detach, Keeps, TypeOK, WrapperTypeOK
    <3>3. CASE ClientMarksDirty(u)
      BY <3>3 DEF ClientMarksDirty, MarkDeviceDirty, Keeps, deviceVars, TypeOK, WrapperTypeOK
    <3> QED
      BY <1>2, <3>1, <3>2, <3>3
  <2> QED
    BY <2>1, <2>2, IdleFlags DEF Idle
<1> QED
  BY <1>1, <1>2, CopyToDeviceFlags, CopyToHostFlags DEF WrapperStep

-----------------------------------------------------------------------------
(* Kernels.                                                                *)

(* What a launch writes is no wrapper's, or that of one it will mark.      *)
LEMMA RunFlags ==
  ASSUME TypeOK, Ownership, Binds, NoBare, Flags, Rule("freshArgs"),
         NEW k \in Kernels, NEW q \in Queues, NEW fast_read \in BOOLEAN,
         Run(k, q, fast_read)
  PROVE  Flags'
<1>1. PICK v : /\ Intend(WrittenBy(k), v)
               /\ busy'.op = "run" /\ busy'.k = k
  BY DEF Run
<1>2. busy = Idle /\ UNCHANGED <<host, wrapperVars, wrappersToDirty>>
  BY DEF Run, kernelVars
<1>3. Passed(k) = DOMAIN arg[k]
  BY KernelAssumption, WrapperAssumption
  DEF Run, Passed, TypeOK, KernelTypeOK, ArgPositions
<1>4. ASSUME NEW w \in Wrappers PROVE Keeps(w) \/ Marking(w)'
  <2>1. CASE onDevice[w] /\ devicearray[w] \in WrittenBy(k)
    <3>1. PICK i \in Passed(k) : /\ arg[k][i].use \in {"out", "inout", "bare"}
                                 /\ arg[k][i].buf = devicearray[w]
      BY <1>3, <2>1 DEF WrittenBy, PassedAs
    <3>2. arg[k][i].use \in {"out", "inout"}
      BY <1>3, <3>1 DEF NoBare
    <3>3. w \in wrappersToDirty[k]
      BY <2>1, <3>1, <3>2 DEF Binds, PassedMarked, OnDevice
    <3> QED
      BY <1>1, <1>2, <3>3 DEF Marking
  <2>2. CASE ~onDevice[w]
    BY <1>2, <2>2 DEF Keeps, wrapperVars
  <2>3. CASE onDevice[w] /\ devicearray[w] \notin WrittenBy(k)
    <3>1. devicearray[w] \in Buffers
      BY <2>3 DEF TypeOK, WrapperTypeOK
    <3> QED
      BY <1>1, <1>2, <2>3, <3>1 DEF Keeps, Intend, wrapperVars
  <2> QED
    BY <2>1, <2>2, <2>3
<1> QED
  BY <1>1, <1>2, <1>4, IdleFlags

LEMMA KernelStepFlags ==
  ASSUME TypeOK, Ownership, Binds, NoBare, Flags, Rule("freshArgs"),
         NEW k \in Kernels, KernelStep(k)
  PROVE  Flags'
<1>1. ASSUME busy = Idle, busy' = Idle, UNCHANGED <<host, intended, wrapperVars>>
      PROVE  Flags'
  BY <1>1, SameKeeps, IdleFlags DEF Idle
<1>2. CASE InputValue(k) \/ DestroyKernel(k)
  BY <1>1, <1>2 DEF InputValue, DestroyKernel, Passing, deviceVars
<1>3. ASSUME NEW w \in Wrappers, Input(k, w) \/ Inout(k, w) \/ InoutBuffer(k, w)
      PROVE  Flags'
  BY <1>1, <1>3 DEF Input, Inout, InoutBuffer, Passing, deviceVars
<1>4. ASSUME NEW w \in Wrappers, OutputWrapper(k, w) \/ OutputWrapperFails(k, w)
      PROVE  Flags'
  <2>1. busy = Idle /\ busy' = Idle /\ UNCHANGED host
    BY <1>4 DEF OutputWrapper, OutputWrapperFails, Passing
  <2>2. CASE UNCHANGED <<deviceVars, wrapperVars>>
    BY <1>1, <2>1, <2>2 DEF deviceVars
  <2>3. CASE (\E b \in FreeBuffers : Attach(w, b) /\ Intend({b}, Junk)) /\ UNCHANGED edited
    BY <2>1, <2>3, AttachKeeps, IdleFlags DEF Idle
  <2> QED
    BY <1>4, <2>2, <2>3 DEF OutputWrapper, OutputWrapperFails
<1>5. ASSUME NEW h \in Hosts, \/ InputArray(k, h) \/ InputArrayFails(k, h)
                              \/ OutputArray(k, h) \/ InoutArray(k, h)
      PROVE  Flags'
  <2>1. /\ busy = Idle /\ busy' = Idle
        /\ UNCHANGED <<host, wrapperVars>>
        /\ \E b \in FreeBuffers : \E v : Intend({b}, v)
    BY <1>5 DEF InputArray, InputArrayFails, OutputArray, InoutArray, Temporary, Passing
  <2> QED
    BY <2>1, NewBufferKeeps, IdleFlags DEF Idle, wrapperVars
<1> QED
  BY <1>2, <1>3, <1>4, <1>5, RunFlags DEF KernelStep

-----------------------------------------------------------------------------
(* The calls in progress.                                                  *)
LEMMA ReturnsFlags ==
  ASSUME TypeOK, Flags, Returns
  PROVE  Flags'
<1>1. CASE CopyToDeviceReturns \/ CopyToHostReturns
  <2>1. /\ busy.op \in {"upload", "download"} /\ busy' = Idle
        /\ busy.w \in Wrappers
        /\ edited' = edited \ {busy.w}
        /\ UNCHANGED <<host, devicearray, onDevice, intended>>
        /\ \A w \in Wrappers : deviceDirty'[w] = IF w = busy.w THEN FALSE ELSE deviceDirty[w]
        /\ host[busy.w] = intended[devicearray[busy.w]]
    BY <1>1 DEF CopyToDeviceReturns, CopyToHostReturns, Transferred, Flags, Uploading,
                Downloading, deviceVars, TypeOK, WrapperTypeOK, HostState
  <2>2. \A w \in Wrappers \ {busy.w} : Seen(w)
    BY <2>1 DEF Flags, CleanSeen, Moving, Marking
  <2>3. \A w \in Wrappers : Seen(w)'
    BY <2>1, <2>2 DEF Seen
  <2> QED
    BY <2>1, <2>3 DEF Flags, CleanSeen, Uploading, Downloading, Idle
<1>2. CASE RunReads \/ RunReadRefused
  <2>1. /\ busy.op = "run" /\ busy'.op = "run" /\ busy'.k = busy.k
        /\ UNCHANGED <<host, intended, wrapperVars, wrappersToDirty>>
    BY <1>2, BusyRun DEF RunReads, RunReadRefused, Reading, Running, deviceVars, kernelVars
  <2> QED
    BY <2>1, SameKeeps, KeepsSeen DEF Flags, CleanSeen, Uploading, Downloading, Moving, Marking
<1>3. CASE RunReturns
  <2>1. /\ busy.op = "run" /\ busy' = Idle
        /\ UNCHANGED <<host, intended, devicearray, onDevice, edited>>
        /\ \A w \in Wrappers : deviceDirty'[w] = (deviceDirty[w] \/ w \in wrappersToDirty[busy.k])
    BY <1>3 DEF RunReturns, MarkWrappers
  <2>2. \A w \in Wrappers : Seen(w) \/ w \in wrappersToDirty[busy.k]
    BY <2>1 DEF Flags, CleanSeen, Moving, Marking
  <2>3. \A w \in Wrappers : Seen(w)'
    BY <2>1, <2>2 DEF Seen
  <2> QED
    BY <2>1, <2>3 DEF Flags, CleanSeen, Uploading, Downloading, Idle
<1>4. CASE CopyToHostThrows
  <2>1. /\ busy.op = "download" /\ busy' = Idle /\ UNCHANGED <<host, intended, wrapperVars>>
        /\ host[busy.w] = intended[devicearray[busy.w]]
    BY <1>4 DEF CopyToHostThrows, Transferred, Flags, Downloading, deviceVars
  <2>2. \A w \in Wrappers : Seen(w)
    BY <2>1 DEF Flags, CleanSeen, Moving, Marking, Seen
  <2>3. \A w \in Wrappers : Seen(w)'
    BY <2>1, <2>2, SameKeeps, KeepsSeen
  <2> QED
    BY <2>1, <2>3 DEF Flags, CleanSeen, Uploading, Downloading, Idle
<1>5. CASE FinishReturns
  <2>1. busy.op = "finish" /\ busy' = Idle /\ UNCHANGED <<host, intended, wrapperVars>>
    BY <1>5 DEF FinishReturns, deviceVars
  <2> QED
    BY <2>1, SameKeeps, KeepsSeen
    DEF Flags, CleanSeen, Uploading, Downloading, Moving, Marking, Idle
<1> QED
  BY <1>1, <1>2, <1>3, <1>4, <1>5 DEF Returns

(* The device.  It writes into no wrapper but the one being read, and when *)
(* it gets to that read nothing else is on its way into the buffer.        *)
LEMMA DeviceStepFlags ==
  ASSUME TypeOK, Order, Flags, NEW q \in Queues, DeviceStep(q)
  PROVE  Flags'
<1>1. /\ Execute(q)
      /\ UNCHANGED <<busy, intended, wrapperVars, wrappersToDirty, devicearray, onDevice>>
  BY DEF DeviceStep, Execute, kernelVars, wrapperVars
<1>2. PICK c \in Command : c = Head(pending[q]) /\ c = pending[q][1] /\ c \in Commands(q)
  BY <1>1, ExecuteElements DEF Commands, TypeOK
<1>3. ASSUME NEW h \in Hosts, c.op # "read" \/ c.array # h PROVE host'[h] = host[h]
  BY <1>1, <1>2, <1>3 DEF Execute, TypeOK, DeviceTypeOK
<1>4. ASSUME NEW w \in Wrappers, host'[w] # host[w]
      PROVE  /\ q = DefaultQueue /\ busy.op = "download" /\ busy.w = w
             /\ c.op = "read" /\ c.array = w
  <2>1. c.op = "read" /\ c.array = w
    BY <1>3, <1>4, WrapperAssumption
  <2> QED
    BY <1>2, <2>1 DEF Order, Use, HostUse
<1>5. CleanSeen'
  BY <1>1, <1>4 DEF Flags, CleanSeen, Seen, Moving, Marking, wrapperVars
<1>6. Uploading'
  <2>1. busy.op = "upload" => busy.w \in Wrappers
    BY DEF TypeOK, WrapperTypeOK, HostState
  <2> QED
    BY <1>1, <1>4, <2>1 DEF Flags, Uploading
<1>7. ASSUME busy.op = "download", q # DefaultQueue PROVE Downloading'
  <2>1. busy.w \in Wrappers
    BY <1>7 DEF TypeOK, WrapperTypeOK, HostState
  <2>2. host'[busy.w] = host[busy.w]
    BY <1>4, <1>7, <2>1
  <2>3. pending'[DefaultQueue] = pending[DefaultQueue]
    BY <1>1, <1>7, ExecuteElements, DeviceAssumption DEF TypeOK
  <2> QED
    BY <1>1, <1>7, <2>2, <2>3 DEF Flags, Downloading, Read
<1>8. ASSUME busy.op = "download", q = DefaultQueue PROVE Downloading'
  <2>1. PICK n \in Nat \ {0} :
          /\ n = Len(pending[q]) /\ DOMAIN pending[q] = 1 .. n
          /\ Len(pending'[q]) = n - 1
          /\ pending'[q] \in Seq(Command)
          /\ \A i \in 1 .. n - 1 : pending'[q][i] = pending[q][i + 1]
    <3>1. pending'[q] \in Seq(Command)
      BY <1>1 DEF Execute, TypeOK, DeviceTypeOK
    <3> QED
      BY <1>1, <3>1, ExecuteElements DEF TypeOK
  <2>2. PICK b \in Buffers : b = devicearray[busy.w]
    BY <1>8 DEF Flags, Downloading, TypeOK, WrapperTypeOK, HostState
  <2>3. onDevice[busy.w] /\ busy.w \in Wrappers /\ pending[q][n] = Read(b, busy.w)
    <3>1. pending[q] # <<>>
      BY <1>1 DEF Execute
    <3> QED
      BY <1>8, <2>1, <2>2, <3>1 DEF Flags, Downloading, TypeOK, WrapperTypeOK, HostState
  <2>4. CASE n > 1
    <3>1. n - 1 \in 1 .. n - 1 /\ (n - 1) + 1 = n
      BY <2>4
    <3>2. pending'[q] # <<>> /\ pending'[q][Len(pending'[q])] = Read(b, busy.w)
      BY <2>1, <2>3, <3>1
    <3> QED
      BY <1>1, <1>8, <2>2, <2>3, <3>2 DEF Downloading, Read
  <2>5. CASE n = 1
    <3>1. c.op = "read" /\ c.array = busy.w /\ c.buf = b
      BY <1>2, <2>3, <2>5 DEF Read
    <3>2. host'[busy.w] = mem[b]
      BY <1>1, <1>2, <2>3, <3>1, WrapperAssumption DEF Execute, TypeOK, DeviceTypeOK
    <3>3. \A p \in Queues \ {q} : \A j \in DOMAIN pending[p] : ~Writer(p, j, b)
      BY <1>8, <2>2, <2>3, WriterUses DEF Order, Use, WrapperUse, OnDevice
    <3>4. Finds(q, Len(pending[q]) + 1, b, intended[b])
      BY <3>3 DEF Order, Ordered, Settled
    <3>5. \A j \in DOMAIN pending[q] : ~Writer(q, j, b)
      BY <1>2, <2>1, <2>5, <3>1 DEF Writer, Writes
    <3>6. mem[b] = intended[b]
      BY <3>4, <3>5 DEF Finds
    <3>7. pending'[DefaultQueue] = <<>>
      BY <1>8, <2>1, <2>5
    <3>8. /\ busy' = busy /\ onDevice' = onDevice /\ devicearray' = devicearray
          /\ intended'[b] = intended[b]
      BY <1>1
    <3>9. onDevice'[busy'.w] /\ host'[busy'.w] = intended'[devicearray'[busy'.w]]
      BY <2>2, <2>3, <3>2, <3>6, <3>8
    <3> QED
      BY <3>7, <3>9, Zenon DEF Downloading
  <2>6. n = 1 \/ n > 1
    OBVIOUS
  <2> QED
    BY <2>4, <2>5, <2>6, Zenon
<1> QED
  BY <1>1, <1>5, <1>6, <1>7, <1>8 DEF Flags, Downloading

-----------------------------------------------------------------------------
(* Every step.                                                             *)
LEMMA NextNoBare ==
  ASSUME TypeOK, NoBare, Rule("wholeWrapper"), [Next]_vars
  PROVE  NoBare'
<1>1. ASSUME UNCHANGED arg PROVE NoBare'
  BY <1>1 DEF NoBare
<1>2. ASSUME NEW k \in Kernels, NEW use, NEW b, use # "bare", SetArg(k, use, b) PROVE NoBare'
  BY <1>2 DEF NoBare, SetArg, TypeOK, KernelTypeOK
<1>3. ASSUME NEW k \in Kernels, KernelStep(k) PROVE NoBare'
  <2>1. CASE InputValue(k)
    BY <1>2, <2>1 DEF InputValue
  <2>2. CASE DestroyKernel(k)
    BY <2>2 DEF DestroyKernel, NoBare, TypeOK, KernelTypeOK
  <2>3. ASSUME NEW w \in Wrappers, \/ Input(k, w) \/ Inout(k, w) \/ InoutBuffer(k, w)
                                   \/ OutputWrapper(k, w) \/ OutputWrapperFails(k, w)
        PROVE  NoBare'
    BY <1>1, <1>2, <2>3
    DEF Input, Inout, InoutBuffer, OutputWrapper, OutputWrapperFails, kernelVars
  <2>4. ASSUME NEW h \in Hosts, \/ InputArray(k, h) \/ InputArrayFails(k, h)
                                \/ OutputArray(k, h) \/ InoutArray(k, h)
        PROVE  NoBare'
    BY <1>1, <1>2, <2>4 DEF InputArray, InputArrayFails, OutputArray, InoutArray, kernelVars
  <2>5. ASSUME NEW q \in Queues, NEW fast_read \in BOOLEAN, Run(k, q, fast_read)
        PROVE  NoBare'
    BY <1>1, <2>5 DEF Run, kernelVars
  <2> QED
    BY <1>3, <2>1, <2>2, <2>3, <2>4, <2>5 DEF KernelStep
<1>4. ASSUME NEW w \in Wrappers, WrapperStep(w) PROVE NoBare'
  BY <1>1, <1>4
  DEF WrapperStep, CreateOnDevice, CopyToDevice, CopyToDeviceFails, CopyToHost,
      DeleteFromDevice, Destroy, ClientMarksDirty, kernelVars
<1>5. CASE Returns
  BY <1>1, <1>5
  DEF Returns, CopyToDeviceReturns, CopyToHostReturns, CopyToHostThrows, RunReads,
      RunReadRefused, RunReturns, FinishReturns, kernelVars
<1> QED
  BY <1>1, <1>3, <1>4, <1>5
  DEF Next, Edit, CopyAllTo, CopyTo, FinishCall, DeviceStep, vars, kernelVars

LEMMA NextFlags ==
  ASSUME TypeOK, Ownership, Binds, Order, NoBare, Flags, Rule("freshArgs"), [Next]_vars
  PROVE  Flags'
<1>1. CASE FinishCall
  BY <1>1, SameKeeps, IdleFlags DEF FinishCall, deviceVars, wrapperVars, Idle
<1>2. CASE UNCHANGED vars
  BY <1>2
  DEF vars, deviceVars, wrapperVars, kernelVars, Flags, CleanSeen, Seen, Moving, Marking,
      Uploading, Downloading
<1> QED
  BY <1>1, <1>2, EditFlags, WrapperStepFlags, CopyToFlags, KernelStepFlags, ReturnsFlags,
     DeviceStepFlags
  DEF Next, CopyAllTo

LEMMA InitFlags == Init => NoBare /\ Flags
BY WrapperAssumption
DEF Init, WrapperInit, KernelInit, NoBare, Flags, CleanSeen, Seen, Uploading, Downloading, Idle

LEMMA FlagsCorrect ==
  ASSUME Rule("keepBound"), Rule("freshArgs"), Rule("defaultQueue"), Rule("wholeWrapper")
  PROVE  Spec => [](NoBare /\ Flags)
<1>1. TypeOK /\ NoBare /\ [Next]_vars => NoBare'
  BY NextNoBare
<1>2. TypeOK /\ Ownership /\ Binds /\ Order /\ NoBare /\ Flags /\ [Next]_vars => Flags'
  BY NextFlags
<1> QED
  BY <1>1, <1>2, InitFlags, TypeCorrect, OwnersKeep, BindsCorrect, OrderCorrect, PTL DEF Spec

(* The device dirty flag of README.md: in a wrapper whose flag is clear,   *)
(* and that the client has not edited itself, the host array holds what    *)
(* the device array will hold once all that was issued has run, though the *)
(* flags are set and cleared long before the device gets there             *)
(* (CLWrapper::copyTo, CLKernel::run) or only when a blocking transfer has *)
(* ended (CLWrapper::copyToHost, CLWrapper::copyToDevice).                 *)
THEOREM CleanIsSeen ==
  ASSUME Rule("keepBound"), Rule("freshArgs"), Rule("defaultQueue"), Rule("wholeWrapper")
  PROVE  Spec => []CleanMeansSeen
<1>1. Flags => CleanMeansSeen
  BY DEF Flags, CleanSeen, Seen, Moving, Marking, CleanMeansSeen, Idle
<1> QED
  BY <1>1, FlagsCorrect, PTL

-----------------------------------------------------------------------------
(* The refinement.                                                         *)

(* No kernel was passed a parameter too many.                              *)
WithinArity == \A k \in Kernels : nextArg[k] <= Arity[k]

(* A wrapper to be marked was passed to be written.                        *)
MarkedWritten ==
  \A k \in Kernels : \A w \in wrappersToDirty[k] : \E i \in Passed(k) :
    arg[k][i].use \in {"out", "inout"} /\ arg[k][i].buf = devicearray[w]

(* A blocking transfer is the last, and only, transfer on its queue.       *)
LastTransfer ==
  busy.op \in {"upload", "download"} =>
    \A i \in DOMAIN pending[DefaultQueue] :
      \/ pending[DefaultQueue][i].op = "compute"
      \/ /\ i = Len(pending[DefaultQueue])
         /\ pending[DefaultQueue][i].op = IF busy.op = "upload" THEN "write" ELSE "read"

-----------------------------------------------------------------------------
LEMMA NextWithinArity ==
  ASSUME TypeOK, WithinArity, Rule("withinArity"), [Next]_vars
  PROVE  WithinArity'
<1>1. ASSUME UNCHANGED nextArg PROVE WithinArity'
  BY <1>1 DEF WithinArity
<1>2. /\ \A k \in Kernels : nextArg[k] \in Nat /\ Arity[k] \in Nat
      /\ DOMAIN nextArg = Kernels
  BY KernelAssumption, WrapperAssumption DEF TypeOK, KernelTypeOK
<1>3. ASSUME NEW k \in Kernels, Passing(k), NextArg(k) PROVE WithinArity'
  BY <1>2, <1>3 DEF WithinArity, Passing, NextArg
<1>4. ASSUME NEW k \in Kernels, ForgetParameters(k) PROVE WithinArity'
  BY <1>2, <1>4 DEF WithinArity, ForgetParameters
<1>5. ASSUME NEW k \in Kernels, KernelStep(k) PROVE WithinArity'
  BY <1>1, <1>3, <1>4, <1>5
  DEF KernelStep, InputValue, DestroyKernel, Input, Inout, InoutBuffer, OutputWrapper,
      OutputWrapperFails, InputArray, InputArrayFails, OutputArray, InoutArray, Run, kernelVars
<1>6. CASE RunReturns
  <2>1. busy.k \in Kernels
    BY <1>6, BusyRun DEF RunReturns, Running
  <2> QED
    BY <1>4, <1>6, <2>1 DEF RunReturns
<1>7. ASSUME NEW w \in Wrappers, WrapperStep(w) PROVE WithinArity'
  BY <1>1, <1>7
  DEF WrapperStep, CreateOnDevice, CopyToDevice, CopyToDeviceFails, CopyToHost,
      DeleteFromDevice, Destroy, ClientMarksDirty, kernelVars
<1>8. CASE \/ CopyToDeviceReturns \/ CopyToHostReturns \/ CopyToHostThrows
           \/ RunReads \/ RunReadRefused \/ FinishReturns
  BY <1>1, <1>8
  DEF CopyToDeviceReturns, CopyToHostReturns, CopyToHostThrows, RunReads, RunReadRefused,
      FinishReturns, kernelVars
<1> QED
  BY <1>1, <1>5, <1>6, <1>7, <1>8
  DEF Next, Returns, Edit, CopyAllTo, CopyTo, FinishCall, DeviceStep, vars, kernelVars

-----------------------------------------------------------------------------
(* A step after which every wrapper to be marked was so before, its device *)
(* copy and the parameters that were passed being the same, or was passed. *)
LEMMA MarksKept ==
  ASSUME MarkedWritten,
         \A k \in Kernels : \A w \in wrappersToDirty'[k] :
           \/ /\ w \in wrappersToDirty[k]
              /\ devicearray'[w] = devicearray[w]
              /\ \A i \in Passed(k) : i \in Passed(k)' /\ arg'[k][i] = arg[k][i]
           \/ \E i \in Passed(k)' : /\ arg'[k][i].use \in {"out", "inout"}
                                    /\ arg'[k][i].buf = devicearray'[w]
  PROVE  MarkedWritten'
<1>1. ASSUME NEW k \in Kernels, NEW w \in wrappersToDirty'[k]
      PROVE  \E i \in Passed(k)' : /\ arg'[k][i].use \in {"out", "inout"}
                                   /\ arg'[k][i].buf = devicearray'[w]
  <2>1. CASE /\ w \in wrappersToDirty[k]
             /\ devicearray'[w] = devicearray[w]
             /\ \A i \in Passed(k) : i \in Passed(k)' /\ arg'[k][i] = arg[k][i]
    <3>1. PICK i \in Passed(k) : /\ arg[k][i].use \in {"out", "inout"}
                                 /\ arg[k][i].buf = devicearray[w]
      BY <2>1 DEF MarkedWritten
    <3>2. i \in Passed(k)' /\ arg'[k][i] = arg[k][i]
      BY <2>1
    <3> QED
      BY <2>1, <3>1, <3>2
  <2> QED
    BY <1>1, <2>1
<1> QED
  BY <1>1 DEF MarkedWritten

(* Parameters and marks are as they were, wrappers on the device too.      *)
LEMMA SameMarks ==
  ASSUME MarkedWritten, MarkedOnDevice, UNCHANGED kernelVars,
         \A w \in OnDevice : devicearray'[w] = devicearray[w]
  PROVE  MarkedWritten'
<1>1. \A k \in Kernels : Passed(k)' = Passed(k)
  BY DEF Passed, kernelVars
<1> QED
  BY <1>1, MarksKept DEF MarkedOnDevice, kernelVars

LEMMA ForgetMarks ==
  ASSUME TypeOK, MarkedWritten, NEW k \in Kernels, ForgetParameters(k),
         \A l \in Kernels \ {k} : arg'[l] = arg[l], UNCHANGED devicearray
  PROVE  MarkedWritten'
<1>1. /\ \A l \in Kernels : wrappersToDirty'[l] = IF l = k THEN {} ELSE wrappersToDirty[l]
      /\ \A l \in Kernels \ {k} : nextArg'[l] = nextArg[l]
  BY DEF ForgetParameters, TypeOK, KernelTypeOK
<1>2. \A l \in Kernels \ {k} : Passed(l)' = Passed(l)
  BY <1>1 DEF Passed
<1> QED
  BY <1>1, <1>2, MarksKept

(* One more parameter; it may be wrapper w, to be written.                 *)
LEMMA PassMarks ==
  ASSUME TypeOK, MarkedWritten, MarkedOnDevice, NEW k \in Kernels, Accepts(k),
         NEW use, NEW c, SetArg(k, use, c), NextArg(k), NEW w \in Wrappers,
         \/ UNCHANGED wrappersToDirty
         \/ ToDirty(k, w) /\ use \in {"out", "inout"} /\ devicearray'[w] = c,
         \A u \in OnDevice : devicearray'[u] = devicearray[u]
  PROVE  MarkedWritten'
<1>1. /\ \A l \in Kernels : \A i \in Passed(l) : i \in Passed(l)' /\ arg'[l][i] = arg[l][i]
      /\ \E j \in Passed(k)' : arg'[k][j] = [use |-> use, buf |-> c]
  BY PassedGrows
<1>2. PICK j \in Passed(k)' : arg'[k][j].use = use /\ arg'[k][j].buf = c
  BY <1>1
<1>3. ASSUME NEW l \in Kernels, NEW u \in wrappersToDirty'[l]
      PROVE  \/ u \in wrappersToDirty[l]
             \/ l = k /\ u = w /\ use \in {"out", "inout"} /\ devicearray'[w] = c
  BY <1>3 DEF ToDirty, TypeOK, KernelTypeOK
<1> QED
  BY <1>1, <1>2, <1>3, MarksKept DEF MarkedOnDevice

LEMMA AttachSame ==
  ASSUME TypeOK, NEW u \in Wrappers, ~onDevice[u], NEW b, Attach(u, b)
  PROVE  \A w \in OnDevice : devicearray'[w] = devicearray[w]
BY DEF Attach, OnDevice, TypeOK, WrapperTypeOK

LEMMA KernelStepMarks ==
  ASSUME TypeOK, Binds, MarkedWritten, NEW k \in Kernels, KernelStep(k)
  PROVE  MarkedWritten'
<1> USE DEF Binds
<1>1. ASSUME NEW use, NEW c, Accepts(k), SetArg(k, use, c), NextArg(k),
             UNCHANGED <<wrapperVars, wrappersToDirty>>
      PROVE  MarkedWritten'
  <2>1. CASE Wrappers = {}
    BY <1>1, <2>1 DEF MarkedWritten, MarkedOnDevice, OnDevice
  <2>2. CASE Wrappers # {}
    BY <1>1, <2>2, PassMarks DEF wrapperVars
  <2> QED
    BY <2>1, <2>2
<1>2. CASE InputValue(k)
  BY <1>1, <1>2 DEF InputValue
<1>3. CASE DestroyKernel(k)
  <2>1. \A l \in Kernels \ {k} : arg'[l] = arg[l]
    BY <1>3 DEF DestroyKernel, TypeOK, KernelTypeOK
  <2> QED
    BY <1>3, <2>1, ForgetMarks DEF DestroyKernel, wrapperVars
<1>4. ASSUME NEW w \in Wrappers, Input(k, w) \/ InoutBuffer(k, w) PROVE MarkedWritten'
  BY <1>1, <1>4 DEF Input, InoutBuffer
<1>5. ASSUME NEW w \in Wrappers, Inout(k, w) PROVE MarkedWritten'
  BY <1>5, PassMarks DEF Inout, wrapperVars
<1>6. ASSUME NEW w \in Wrappers, OutputWrapper(k, w) PROVE MarkedWritten'
  <2>1. Accepts(k) /\ NextArg(k) /\ ToDirty(k, w)
    BY <1>6 DEF OutputWrapper
  <2>2. CASE SetArg(k, "out", devicearray[w]) /\ UNCHANGED wrapperVars
    BY <2>1, <2>2, PassMarks DEF wrapperVars
  <2>3. CASE ~onDevice[w] /\ \E b \in FreeBuffers : Attach(w, b) /\ SetArg(k, "out", b)
    <3>1. PICK b \in FreeBuffers : Attach(w, b) /\ SetArg(k, "out", b)
      BY <2>3
    <3>2. devicearray'[w] = b
      BY <3>1 DEF Attach, TypeOK, WrapperTypeOK
    <3>3. \A u \in OnDevice : devicearray'[u] = devicearray[u]
      BY <2>3, <3>1, AttachSame
    <3> QED
      BY <2>1, <3>1, <3>2, <3>3, PassMarks
  <2> QED
    BY <1>6, <2>2, <2>3 DEF OutputWrapper
<1>7. ASSUME NEW w \in Wrappers, OutputWrapperFails(k, w) PROVE MarkedWritten'
  BY <1>7, AttachSame, SameMarks DEF OutputWrapperFails
<1>8. ASSUME NEW h \in Hosts, InputArray(k, h) \/ InoutArray(k, h) PROVE MarkedWritten'
  BY <1>1, <1>8 DEF InputArray, InoutArray
<1>9. ASSUME NEW h \in Hosts, InputArrayFails(k, h) PROVE MarkedWritten'
  BY <1>9, SameMarks DEF InputArrayFails, wrapperVars
<1>10. ASSUME NEW h \in Hosts, OutputArray(k, h) PROVE MarkedWritten'
  <2>1. CASE Accepts(k)
    BY <1>1, <1>10, <2>1 DEF OutputArray
  <2>2. CASE ~Accepts(k)
    <3>1. /\ \A l \in Kernels : nextArg[l] \in Nat
          /\ \A l \in Kernels : nextArg'[l] = IF l = k THEN nextArg[k] + 1 ELSE nextArg[l]
          /\ UNCHANGED <<arg, wrappersToDirty, devicearray>>
      BY <1>10, <2>2, KernelAssumption
      DEF OutputArray, NextArg, TypeOK, KernelTypeOK, wrapperVars
    <3>2. ASSUME NEW l \in Kernels, NEW i \in Passed(l) PROVE i \in Passed(l)'
      <4>1. i \in DOMAIN arg[l] /\ i < nextArg[l] /\ i \in Int
        BY PassedType DEF Passed
      <4> QED
        BY <3>1, <4>1 DEF Passed
    <3> QED
      BY <3>1, <3>2, MarksKept
  <2> QED
    BY <2>1, <2>2
<1>11. ASSUME NEW q \in Queues, NEW fast_read \in BOOLEAN, Run(k, q, fast_read)
       PROVE  MarkedWritten'
  BY <1>11, SameMarks DEF Run, wrapperVars
<1> QED
  BY <1>2, <1>3, <1>4, <1>5, <1>6, <1>7, <1>8, <1>9, <1>10, <1>11 DEF KernelStep

(* Destroying a wrapper that is off the device, or that no run is going to *)
(* mark, loses no mark.                                                    *)
LEMMA NextMarks ==
  ASSUME TypeOK, Binds, MarkedWritten, Rule("keepBound"), [Next]_vars
  PROVE  MarkedWritten'
<1> USE DEF Binds
<1>1. ASSUME UNCHANGED <<kernelVars, devicearray>> PROVE MarkedWritten'
  BY <1>1, SameMarks
<1>2. ASSUME NEW w \in Wrappers, CreateOnDevice(w) \/ CopyToDeviceFails(w) \/ CopyToDevice(w)
      PROVE  MarkedWritten'
  BY <1>1, <1>2, AttachSame, SameMarks DEF CreateOnDevice, CopyToDevice, CopyToDeviceFails
<1>3. ASSUME NEW w \in Wrappers, Destroy(w) PROVE MarkedWritten'
  <2>1. \A k \in Kernels : w \notin wrappersToDirty[k]
    BY <1>3 DEF Destroy, Bound, MarkedOnDevice, OnDevice
  <2>2. \A k \in Kernels : Passed(k)' = Passed(k) /\ UNCHANGED <<arg, wrappersToDirty>>
    BY <1>3 DEF Destroy, kernelVars, Passed
  <2>3. \A u \in Wrappers \ {w} : devicearray'[u] = devicearray[u]
    BY <1>3 DEF Destroy, TypeOK, WrapperTypeOK
  <2> QED
    BY <2>1, <2>2, <2>3, MarksKept DEF MarkedOnDevice, OnDevice
<1>4. ASSUME NEW w \in Wrappers, WrapperStep(w) PROVE MarkedWritten'
  BY <1>1, <1>2, <1>3, <1>4
  DEF WrapperStep, CopyToHost, DeleteFromDevice, ClientMarksDirty, wrapperVars
<1>5. CASE RunReturns
  <2>1. busy.k \in Kernels
    BY <1>5, BusyRun DEF RunReturns, Running
  <2> QED
    BY <1>5, <2>1, ForgetMarks DEF RunReturns
<1>6. CASE RunReads
  <2>1. UNCHANGED <<kernelVars, devicearray>>
    BY <1>6 DEF RunReads, wrapperVars
  <2> QED
    BY <1>1, <2>1
<1>7. CASE \/ CopyToDeviceReturns \/ CopyToHostReturns \/ CopyToHostThrows
           \/ RunReadRefused \/ FinishReturns
  BY <1>1, <1>7
  DEF CopyToDeviceReturns, CopyToHostReturns, CopyToHostThrows, RunReadRefused,
      FinishReturns, wrapperVars
<1> QED
  BY <1>1, <1>4, <1>5, <1>6, <1>7, KernelStepMarks
  DEF Next, Returns, Edit, CopyAllTo, CopyTo, FinishCall, DeviceStep, vars, wrapperVars

-----------------------------------------------------------------------------
(* A blocking transfer starts when its queue holds none.                   *)
LEMMA StartsLast ==
  ASSUME TypeOK, OnlyTransferring, busy = Idle, NEW c \in Command,
         Enqueue(DefaultQueue, <<c>>),
         c.op = IF busy'.op = "upload" THEN "write" ELSE "read"
  PROVE  LastTransfer'
<1>1. DefaultQueue \in Queues /\ NoTransfers(DefaultQueue)
  BY DeviceAssumption DEF OnlyTransferring, Transferring, Idle
<1>2. /\ Len(pending[DefaultQueue]) \in Nat
      /\ DOMAIN pending[DefaultQueue] = 1 .. Len(pending[DefaultQueue])
      /\ Len(pending'[DefaultQueue]) = Len(pending[DefaultQueue]) + 1
      /\ DOMAIN pending'[DefaultQueue] = 1 .. Len(pending[DefaultQueue]) + 1
      /\ \A i \in 1 .. Len(pending[DefaultQueue]) :
           pending'[DefaultQueue][i] = pending[DefaultQueue][i]
      /\ pending'[DefaultQueue][Len(pending[DefaultQueue]) + 1] = c
  BY <1>1, EnqueueElements DEF TypeOK
<1> QED
  BY <1>1, <1>2 DEF LastTransfer, NoTransfers

LEMMA ExecuteLast ==
  ASSUME TypeOK, LastTransfer, NEW q \in Queues, DeviceStep(q)
  PROVE  LastTransfer'
<1>1. Execute(q) /\ UNCHANGED busy
  BY DEF DeviceStep
<1>2. CASE q # DefaultQueue
  <2>1. pending'[DefaultQueue] = pending[DefaultQueue]
    BY <1>1, <1>2, ExecuteElements, DeviceAssumption DEF TypeOK
  <2> QED
    BY <1>1, <2>1 DEF LastTransfer
<1>3. CASE q = DefaultQueue
  <2>1. PICK n \in Nat \ {0} :
          /\ n = Len(pending[q]) /\ DOMAIN pending[q] = 1 .. n
          /\ Len(pending'[q]) = n - 1 /\ DOMAIN pending'[q] = 1 .. n - 1
          /\ \A i \in 1 .. n - 1 : pending'[q][i] = pending[q][i + 1]
    BY <1>1, ExecuteElements DEF TypeOK
  <2>2. ASSUME busy.op \in {"upload", "download"}, NEW i \in 1 .. n - 1
        PROVE  \/ pending[q][i + 1].op = "compute"
               \/ /\ i = n - 1
                  /\ pending[q][i + 1].op = IF busy.op = "upload" THEN "write" ELSE "read"
    <3>1. i + 1 \in 1 .. n
      BY <2>2
    <3> QED
      BY <1>3, <2>1, <2>2, <3>1 DEF LastTransfer
  <2>3. ASSUME busy.op \in {"upload", "download"}, NEW i \in DOMAIN pending'[q]
        PROVE  \/ pending'[q][i].op = "compute"
               \/ /\ i = Len(pending'[q])
                  /\ pending'[q][i].op = IF busy.op = "upload" THEN "write" ELSE "read"
    BY <2>1, <2>2, <2>3
  <2> QED
    BY <1>1, <1>3, <2>3 DEF LastTransfer
<1> QED
  BY <1>2, <1>3

LEMMA NextLast ==
  ASSUME TypeOK, OnlyTransferring, LastTransfer, [Next]_vars
  PROVE  LastTransfer'
<1>1. ASSUME busy'.op \notin {"upload", "download"} PROVE LastTransfer'
  BY <1>1 DEF LastTransfer
<1>2. ASSUME busy = Idle, UNCHANGED busy PROVE LastTransfer'
  BY <1>1, <1>2 DEF Idle
<1>3. ASSUME NEW w \in Wrappers, CopyToDevice(w) PROVE LastTransfer'
  <2>1. PICK b \in Buffers : Enqueue(DefaultQueue, <<Write(b, w)>>)
    BY <1>3 DEF CopyToDevice, FreeBuffers, TypeOK, WrapperTypeOK
  <2>2. PICK c \in Command : c = Write(b, w)
    BY WrapperAssumption DEF Write, Command
  <2>3. busy = Idle /\ busy'.op = "upload" /\ c.op = "write"
    BY <1>3, <2>2 DEF CopyToDevice, Write
  <2> QED
    BY <2>1, <2>2, <2>3, StartsLast
<1>4. ASSUME NEW w \in Wrappers, CopyToHost(w) PROVE LastTransfer'
  <2>1. Enqueue(DefaultQueue, <<Read(devicearray[w], w)>>) /\ devicearray[w] \in Buffers
    BY <1>4 DEF CopyToHost, TypeOK, WrapperTypeOK
  <2>2. PICK c \in Command : c = Read(devicearray[w], w)
    BY <2>1, WrapperAssumption DEF Read, Command
  <2>3. busy = Idle /\ busy'.op = "download" /\ c.op = "read"
    BY <1>4, <2>2 DEF CopyToHost, Read
  <2> QED
    BY <2>1, <2>2, <2>3, StartsLast
<1>5. ASSUME NEW w \in Wrappers, WrapperStep(w) PROVE LastTransfer'
  BY <1>2, <1>3, <1>4, <1>5
  DEF WrapperStep, CreateOnDevice, CopyToDeviceFails, DeleteFromDevice, Destroy, ClientMarksDirty
<1>6. ASSUME NEW k \in Kernels, KernelStep(k) PROVE LastTransfer'
  <2>1. ASSUME NEW q \in Queues, NEW fast_read \in BOOLEAN, Run(k, q, fast_read)
        PROVE  LastTransfer'
    BY <1>1, <2>1 DEF Run
  <2> QED
    BY <1>2, <1>6, <2>1
    DEF KernelStep, InputValue, DestroyKernel, Input, Inout, InoutBuffer, OutputWrapper,
        OutputWrapperFails, InputArray, InputArrayFails, OutputArray, InoutArray, Passing
<1>7. CASE RunReads \/ RunReadRefused
  <2>1. busy.op = "run" /\ busy'.op = "run"
    BY <1>7, BusyRun DEF RunReads, RunReadRefused, Reading, Running
  <2> QED
    BY <1>1, <2>1
<1>8. CASE \/ FinishCall \/ FinishReturns \/ RunReturns
           \/ CopyToDeviceReturns \/ CopyToHostReturns \/ CopyToHostThrows
  BY <1>1, <1>8
  DEF FinishCall, FinishReturns, RunReturns, CopyToDeviceReturns, CopyToHostReturns,
      CopyToHostThrows, Idle
<1>9. CASE UNCHANGED vars
  BY <1>9 DEF vars, deviceVars, LastTransfer
<1> QED
  BY <1>2, <1>5, <1>6, <1>7, <1>8, <1>9, ExecuteLast
  DEF Next, Returns, Edit, CopyAllTo, CopyTo

-----------------------------------------------------------------------------
(* The refinement mapping, point by point.                                 *)
SyncStep == [Sync!Next]_(Sync!vars)

NoCall == Call = [op |-> "none"]

SameContent == \A u \in Wrappers : Content(u)' = Content(u)
SameTakes == \A j \in Kernels : Takes(j)' = Takes(j)
SameFed == \A j \in Kernels : Fed(j)' = Fed(j)
SameDue == \A j \in Kernels : Due(j)' = Due(j)
SameParams == SameTakes /\ SameFed /\ SameDue

LEMMA SyncSame ==
  ASSUME UNCHANGED <<host, onDevice, deviceDirty, wrappersToDirty>>, Call' = Call,
         SameContent, SameParams
  PROVE  SyncStep
<1>1. UNCHANGED Sync!vars
  BY DEF Sync!vars, Sync!parameters, SameContent, SameParams, SameTakes, SameFed, SameDue
<1> QED
  BY <1>1 DEF SyncStep

LEMMA SyncEdit ==
  ASSUME NEW h \in Hosts, NEW v \in Val, host' = [host EXCEPT ![h] = v],
         UNCHANGED <<onDevice, deviceDirty, wrappersToDirty>>, NoCall, NoCall',
         SameContent, SameParams
  PROVE  SyncStep
<1>1. Sync!Edit(h, v)
  BY DEF Sync!Edit, Sync!None, Sync!parameters, NoCall, SameContent, SameParams, SameTakes,
         SameFed, SameDue
<1> QED
  BY <1>1 DEF SyncStep, Sync!Next

LEMMA SyncCreate ==
  ASSUME NEW w \in Wrappers, ~onDevice[w], Sync!Placed(w),
         UNCHANGED <<host, wrappersToDirty>>, NoCall, NoCall', SameContent, SameParams
  PROVE  SyncStep
<1>1. Sync!CreateOnDevice(w)
  BY DEF Sync!CreateOnDevice, Sync!None, Sync!parameters, NoCall, SameContent, SameParams,
         SameTakes, SameFed, SameDue
<1> QED
  BY <1>1 DEF SyncStep, Sync!Next, Sync!WrapperStep

LEMMA SyncUpload ==
  ASSUME NEW w \in Wrappers, Sync!Placed(w), UNCHANGED <<host, wrappersToDirty>>,
         NoCall, Call' = [op |-> "upload", w |-> w],
         \A u \in Wrappers : Content(u)' = IF u = w THEN host[w] ELSE Content(u),
         SameParams
  PROVE  SyncStep
<1>1. Sync!CopyToDevice(w)
  BY DEF Sync!CopyToDevice, Sync!None, Sync!parameters, NoCall, SameParams, SameTakes,
         SameFed, SameDue
<1> QED
  BY <1>1 DEF SyncStep, Sync!Next, Sync!WrapperStep

LEMMA SyncAsk ==
  ASSUME NEW w \in Wrappers, onDevice[w],
         UNCHANGED <<host, onDevice, deviceDirty, wrappersToDirty>>,
         NoCall, Call' = [op |-> "download", w |-> w], SameContent, SameParams
  PROVE  SyncStep
<1>1. Sync!CopyToHost(w)
  BY DEF Sync!CopyToHost, Sync!None, Sync!parameters, NoCall, SameContent, SameParams,
         SameTakes, SameFed, SameDue
<1> QED
  BY <1>1 DEF SyncStep, Sync!Next, Sync!WrapperStep

LEMMA SyncDownload ==
  ASSUME NEW w \in Wrappers, host' = [host EXCEPT ![w] = Content(w)],
         UNCHANGED <<onDevice, deviceDirty, wrappersToDirty>>,
         Call = [op |-> "download", w |-> w], Call' = [op |-> "downloaded", w |-> w],
         SameContent, SameParams
  PROVE  SyncStep
<1>1. Sync!Download
  BY DEF Sync!Download, Sync!parameters, SameContent, SameParams, SameTakes, SameFed, SameDue
<1> QED
  BY <1>1 DEF SyncStep, Sync!Next

LEMMA SyncCopied ==
  ASSUME NEW w \in Wrappers, NEW op \in {"upload", "downloaded"},
         Call = [op |-> op, w |-> w], NoCall',
         UNCHANGED <<host, onDevice, wrappersToDirty>>,
         deviceDirty' = [deviceDirty EXCEPT ![w] = FALSE], SameContent, SameParams
  PROVE  SyncStep
<1>1. Sync!CopyReturns
  BY DEF Sync!CopyReturns, Sync!None, Sync!parameters, NoCall, SameContent, SameParams,
         SameTakes, SameFed, SameDue
<1> QED
  BY <1>1 DEF SyncStep, Sync!Next

LEMMA SyncThrows ==
  ASSUME Call.op = "downloaded", NoCall',
         UNCHANGED <<host, onDevice, deviceDirty, wrappersToDirty>>, SameContent, SameParams
  PROVE  SyncStep
<1>1. Sync!CopyThrows
  BY DEF Sync!CopyThrows, Sync!None, Sync!parameters, NoCall, SameContent, SameParams,
         SameTakes, SameFed, SameDue
<1> QED
  BY <1>1 DEF SyncStep, Sync!Next

LEMMA SyncRemove ==
  ASSUME NEW w \in Wrappers, \A k \in Kernels : w \notin Takes(k) \cup wrappersToDirty[k],
         onDevice' = [onDevice EXCEPT ![w] = FALSE],
         deviceDirty' = [deviceDirty EXCEPT ![w] = FALSE],
         UNCHANGED <<host, wrappersToDirty>>, NoCall, NoCall',
         \A u \in Wrappers : Content(u)' = IF u = w THEN Junk ELSE Content(u), SameParams
  PROVE  SyncStep
<1>1. Sync!Remove(w)
  BY DEF Sync!Remove, Sync!None, Sync!parameters, NoCall, SameParams, SameTakes, SameFed,
         SameDue
<1> QED
  BY <1>1 DEF SyncStep, Sync!Next, Sync!WrapperStep

LEMMA SyncMark ==
  ASSUME NEW w \in Wrappers, deviceDirty' = [deviceDirty EXCEPT ![w] = TRUE],
         UNCHANGED <<host, onDevice, wrappersToDirty>>, NoCall, NoCall',
         SameContent, SameParams
  PROVE  SyncStep
<1>1. Sync!Mark(w)
  BY DEF Sync!Mark, Sync!None, Sync!parameters, NoCall, SameContent, SameParams, SameTakes,
         SameFed, SameDue
<1> QED
  BY <1>1 DEF SyncStep, Sync!Next, Sync!WrapperStep

LEMMA SyncCopyTo ==
  ASSUME NEW s \in Wrappers, NEW t \in Wrappers, NEW count \in 1 .. Size[s],
         count <= Size[s], count <= Size[t], onDevice[s], onDevice[t],
         NEW v \in Sync!Copied(s, t, count),
         \A u \in Wrappers : Content(u)' = IF u = t THEN v ELSE Content(u),
         deviceDirty' = [deviceDirty EXCEPT ![t] = TRUE],
         UNCHANGED <<host, onDevice, wrappersToDirty>>, NoCall, NoCall', SameParams
  PROVE  SyncStep
<1>1. [w \in Wrappers |-> Content(w)'] = [[w \in Wrappers |-> Content(w)] EXCEPT ![t] = v]
  OBVIOUS
<1>2. Sync!CopyTo(s, t, count)
  BY <1>1 DEF Sync!CopyTo, Sync!None, Sync!parameters, NoCall, SameParams, SameTakes,
              SameFed, SameDue
<1> QED
  BY <1>2 DEF SyncStep, Sync!Next

LEMMA SyncPassWrapper ==
  ASSUME NEW k \in Kernels, NEW w \in Wrappers, NEW use \in {"in", "out", "inout"},
         onDevice[w] \/ use = "out", Sync!Placed(w), UNCHANGED host, NoCall, NoCall',
         \A j \in Kernels : Takes(j)' = Sync!With(Takes(j), w, j = k /\ use # "out"),
         wrappersToDirty \in [Kernels -> SUBSET Wrappers],
         wrappersToDirty'
           = [wrappersToDirty EXCEPT ![k] = Sync!With(wrappersToDirty[k], w, use # "in")],
         SameContent, SameFed, SameDue
  PROVE  SyncStep
<1>1. [j \in Kernels |-> Takes(j)']
        = [[j \in Kernels |-> Takes(j)] EXCEPT ![k] = Sync!With(Takes(k), w, use # "out")]
  BY DEF Sync!With
<1>2. Sync!PassWrapper(k, w, use)
  BY <1>1 DEF Sync!PassWrapper, Sync!None, NoCall, SameContent, SameFed, SameDue
<1> QED
  BY <1>2 DEF SyncStep, Sync!Next, Sync!KernelStep

LEMMA SyncPassArray ==
  ASSUME NEW k \in Kernels, NEW h \in Hosts, NEW use \in {"in", "out", "inout"},
         UNCHANGED <<host, onDevice, deviceDirty, wrappersToDirty>>, NoCall, NoCall',
         \A j \in Kernels : Fed(j)' = Sync!With(Fed(j), host[h], j = k /\ use # "out"),
         \A j \in Kernels : Due(j)' = Sync!With(Due(j), h, j = k /\ use # "in"),
         SameContent, SameTakes
  PROVE  SyncStep
<1>1. [j \in Kernels |-> Fed(j)']
        = [[j \in Kernels |-> Fed(j)] EXCEPT ![k] = Sync!With(Fed(k), host[h], use # "out")]
  BY DEF Sync!With
<1>2. [j \in Kernels |-> Due(j)']
        = [[j \in Kernels |-> Due(j)] EXCEPT ![k] = Sync!With(Due(k), h, use # "in")]
  BY DEF Sync!With
<1>3. Sync!PassArray(k, h, use)
  BY <1>1, <1>2 DEF Sync!PassArray, Sync!None, NoCall, SameContent, SameTakes
<1> QED
  BY <1>3 DEF SyncStep, Sync!Next, Sync!KernelStep


LEMMA SyncRebuild ==
  ASSUME NEW k \in Kernels, UNCHANGED <<host, onDevice, deviceDirty>>, NoCall, NoCall',
         wrappersToDirty' = [wrappersToDirty EXCEPT ![k] = {}],
         \A j \in Kernels : Takes(j)' = IF j = k THEN {} ELSE Takes(j),
         \A j \in Kernels : Fed(j)' = IF j = k THEN {} ELSE Fed(j),
         \A j \in Kernels : Due(j)' = IF j = k THEN {} ELSE Due(j),
         SameContent
  PROVE  SyncStep
<1>1. Sync!Rebuild(k)
  BY DEF Sync!Rebuild, Sync!None, NoCall, SameContent
<1> QED
  BY <1>1 DEF SyncStep, Sync!Next, Sync!KernelStep

LEMMA SyncRun ==
  ASSUME NEW k \in Kernels, NEW v \in Sync!Computes(k),
         UNCHANGED <<host, onDevice, deviceDirty, wrappersToDirty>>,
         NoCall, Call' = [op |-> "run", k |-> k, val |-> v],
         \A u \in Wrappers : Content(u)' = IF u \in wrappersToDirty[k] THEN v ELSE Content(u),
         \A j \in Kernels : Takes(j)' = IF j = k THEN {} ELSE Takes(j),
         \A j \in Kernels : Fed(j)' = IF j = k THEN {} ELSE Fed(j),
         SameDue
  PROVE  SyncStep
<1>1. [w \in Wrappers |-> Content(w)']
        = [w \in Wrappers |-> IF w \in wrappersToDirty[k] THEN v
                              ELSE [u \in Wrappers |-> Content(u)][w]]
  OBVIOUS
<1>2. Sync!Run(k)
  BY <1>1 DEF Sync!Run, Sync!None, NoCall, SameDue
<1> QED
  BY <1>2 DEF SyncStep, Sync!Next, Sync!KernelStep

LEMMA SyncDeliver ==
  ASSUME NEW k \in Kernels, Call.op = "run", Call.k = k, NEW h \in Hosts, h \in Due(k),
         host' = [host EXCEPT ![h] = Call.val],
         UNCHANGED <<onDevice, deviceDirty, wrappersToDirty>>, Call' = Call,
         SameContent, SameParams
  PROVE  SyncStep
<1>1. Sync!Deliver(h)
  BY DEF Sync!Deliver, Sync!parameters, SameContent, SameParams, SameTakes, SameFed, SameDue
<1> QED
  BY <1>1 DEF SyncStep, Sync!Next

LEMMA SyncRefuse ==
  ASSUME NEW k \in Kernels, Call.op = "run", Call.k = k, NEW h \in Hosts,
         UNCHANGED <<host, onDevice, deviceDirty, wrappersToDirty>>, Call' = Call,
         \A j \in Kernels : Due(j)' = IF j = k THEN Due(k) \ {h} ELSE Due(j),
         SameContent, SameTakes, SameFed
  PROVE  SyncStep
<1>1. Sync!Refuse(h)
  BY DEF Sync!Refuse, SameContent, SameTakes, SameFed
<1> QED
  BY <1>1 DEF SyncStep, Sync!Next

LEMMA SyncRunReturns ==
  ASSUME NEW k \in Kernels, Call.op = "run", Call.k = k, NoCall',
         \A h \in Due(k) : host[h] = Call.val,
         deviceDirty' = [w \in Wrappers |-> deviceDirty[w] \/ w \in wrappersToDirty[k]],
         wrappersToDirty' = [wrappersToDirty EXCEPT ![k] = {}],
         \A j \in Kernels : Due(j)' = IF j = k THEN {} ELSE Due(j),
         UNCHANGED <<host, onDevice>>, SameContent, SameTakes, SameFed
  PROVE  SyncStep
<1>1. Sync!RunReturns
  BY DEF Sync!RunReturns, Sync!None, NoCall, SameContent, SameTakes, SameFed
<1> QED
  BY <1>1 DEF SyncStep, Sync!Next

LEMMA SyncFinish ==
  ASSUME UNCHANGED <<host, onDevice, deviceDirty, wrappersToDirty>>,
         \/ NoCall /\ Call' = [op |-> "finish"]
         \/ Call = [op |-> "finish"] /\ NoCall',
         SameContent, SameParams
  PROVE  SyncStep
<1>1. Sync!Finish \/ Sync!FinishReturns
  BY DEF Sync!Finish, Sync!FinishReturns, Sync!None, Sync!parameters, NoCall, SameContent,
         SameParams, SameTakes, SameFed, SameDue
<1> QED
  BY <1>1 DEF SyncStep, Sync!Next

-----------------------------------------------------------------------------
(* What is passed, and what a step leaves of it.                           *)

(* A parameter passed to be read names a live buffer.                      *)
LEMMA PassedInHeld ==
  ASSUME TypeOK, Ownership, Binds, NEW k \in Kernels, NEW b \in PassedIn(k)
  PROVE  b \in live /\ b \in Buffers /\ Holds(k, b)
<1>1. PICK i \in Passed(k) : arg[k][i].use \in {"in", "inout"} /\ arg[k][i].buf = b
  BY DEF PassedIn
<1>2. Holds(k, b)
  BY <1>1 DEF Binds, PassedHeld
<1>3. b \in live
  BY <1>2 DEF Holds, Ownership
<1> QED
  BY <1>2, <1>3 DEF TypeOK, DeviceTypeOK

(* Nothing passed to k to be read becomes another wrapper's, or no one's.  *)
Undisturbed(w) ==
  \/ onDevice'[w] = onDevice[w] /\ devicearray'[w] = devicearray[w]
  \/ /\ \A k \in Kernels : w \notin Takes(k)
     /\ onDevice'[w] => devicearray'[w] \notin live

LEMMA KeepTakes ==
  ASSUME TypeOK, Ownership, Binds, NEW k \in Kernels, PassedIn(k)' = PassedIn(k),
         ~Launched(k), ~Launched(k)', \A w \in Wrappers : Undisturbed(w)
  PROVE  Takes(k)' = Takes(k)
<1>1. ASSUME NEW w \in Wrappers
      PROVE  onDevice'[w] /\ devicearray'[w] \in PassedIn(k)
               <=> onDevice[w] /\ devicearray[w] \in PassedIn(k)
  <2>1. CASE onDevice'[w] = onDevice[w] /\ devicearray'[w] = devicearray[w]
    BY <2>1
  <2>2. CASE w \notin Takes(k) /\ (onDevice'[w] => devicearray'[w] \notin live)
    <3>1. ~(onDevice[w] /\ devicearray[w] \in PassedIn(k))
      BY <2>2 DEF Takes
    <3>2. onDevice'[w] => devicearray'[w] \notin PassedIn(k)
      BY <2>2, PassedInHeld
    <3> QED
      BY <3>1, <3>2
  <2> QED
    BY <2>1, <2>2 DEF Undisturbed
<1> QED
  BY <1>1 DEF Takes

LEMMA KeepFed ==
  ASSUME NEW k \in Kernels, PassedIn(k)' = PassedIn(k), ~Launched(k), ~Launched(k)',
         \A b \in PassedIn(k) : b \in buffers'[k] <=> b \in buffers[k],
         \A b \in buffers[k] : intended'[b] = intended[b]
  PROVE  Fed(k)' = Fed(k)
<1>1. {c \in buffers'[k] : c \in PassedIn(k)} = {c \in buffers[k] : c \in PassedIn(k)}
  OBVIOUS
<1>2. /\ Fed(k) = {intended[b] : b \in {c \in buffers[k] : c \in PassedIn(k)}}
      /\ Fed(k)' = {intended'[b] : b \in {c \in buffers'[k] : c \in PassedIn(k)}}
  BY DEF Fed
<1> QED
  BY <1>1, <1>2

LEMMA KeepDue ==
  ASSUME NEW k \in Kernels, outputs'[k] = outputs[k],
         Launched(k)' <=> Launched(k), Launched(k) => busy'.refused = busy.refused
  PROVE  Due(k)' = Due(k)
<1>1. \A j \in DOMAIN outputs[k] :
        (Launched(k) /\ j \in busy.refused) <=> (Launched(k)' /\ j \in busy'.refused)
  OBVIOUS
<1> QED
  BY <1>1 DEF Due

LEMMA KeepPassed ==
  ASSUME NEW k \in Kernels, arg'[k] = arg[k], nextArg'[k] = nextArg[k]
  PROVE  PassedIn(k)' = PassedIn(k)
BY DEF PassedIn, Passed

(* No launch, no parameter.                                                *)
LEMMA KeepParams ==
  ASSUME TypeOK, Ownership, Binds, UNCHANGED <<nextArg, arg, buffers, outputs>>,
         busy.op # "run", busy'.op # "run",
         \A k \in Kernels : \A b \in buffers[k] : intended'[b] = intended[b],
         \A w \in Wrappers : Undisturbed(w)
  PROVE  SameParams
<1>1. \A k \in Kernels : PassedIn(k)' = PassedIn(k) /\ ~Launched(k) /\ ~Launched(k)'
  BY KeepPassed DEF Launched
<1> QED
  BY <1>1, KeepTakes, KeepFed, KeepDue DEF SameParams, SameTakes, SameFed, SameDue

(* A run goes on.                                                          *)
LEMMA RunParams ==
  ASSUME UNCHANGED <<nextArg, arg, buffers, outputs, intended, devicearray, onDevice>>,
         busy'.op = busy.op, busy.op = "run" => busy'.k = busy.k
  PROVE  /\ SameTakes /\ SameFed
         /\ (busy.op = "run" => busy'.refused = busy.refused) => SameDue
<1>1. \A k \in Kernels : PassedIn(k)' = PassedIn(k) /\ (Launched(k)' <=> Launched(k))
  BY KeepPassed DEF Launched
<1>2. SameTakes /\ SameFed
  BY <1>1 DEF SameTakes, SameFed, Takes, Fed
<1>3. ASSUME busy.op = "run" => busy'.refused = busy.refused PROVE SameDue
  BY <1>1, <1>3, KeepDue DEF SameDue, Launched
<1> QED
  BY <1>2, <1>3

(* One more parameter of kernel k: buffer c.                               *)
LEMMA PassedInNext ==
  ASSUME TypeOK, NEW k \in Kernels, Accepts(k), NEW use, NEW c, SetArg(k, use, c), NextArg(k)
  PROVE  /\ \A j \in Kernels \ {k} : PassedIn(j)' = PassedIn(j)
         /\ use \in {"in", "inout"} => PassedIn(k)' = PassedIn(k) \cup {c}
         /\ use \notin {"in", "inout"} => PassedIn(k)' = PassedIn(k)
<1>1. /\ \A l \in Kernels : \A i \in Passed(l) : i \in Passed(l)' /\ arg'[l][i] = arg[l][i]
      /\ \E n \in Passed(k)' : arg'[k][n] = [use |-> use, buf |-> c]
  BY PassedGrows
<1>2. \A l \in Kernels : \A i \in Passed(l)' :
        \/ i \in Passed(l) /\ arg'[l][i] = arg[l][i]
        \/ l = k /\ arg'[l][i] = [use |-> use, buf |-> c]
  BY PassedNext
<1>3. PICK n \in Passed(k)' : arg'[k][n].use = use /\ arg'[k][n].buf = c
  BY <1>1
<1>4. \A i \in Passed(k)' : \/ i \in Passed(k) /\ arg'[k][i] = arg[k][i]
                            \/ arg'[k][i].use = use /\ arg'[k][i].buf = c
  BY <1>2
<1>5. ASSUME NEW j \in Kernels \ {k} PROVE PassedIn(j)' = PassedIn(j)
  BY <1>1, <1>2 DEF PassedIn
<1>6. ASSUME use \in {"in", "inout"} PROVE PassedIn(k)' = PassedIn(k) \cup {c}
  <2>1. ASSUME NEW b \in PassedIn(k)' PROVE b \in PassedIn(k) \cup {c}
    BY <1>4, <2>1 DEF PassedIn
  <2>2. PassedIn(k) \subseteq PassedIn(k)'
    BY <1>1 DEF PassedIn
  <2>3. c \in PassedIn(k)'
    BY <1>3, <1>6 DEF PassedIn
  <2> QED
    BY <2>1, <2>2, <2>3
<1>7. ASSUME use \notin {"in", "inout"} PROVE PassedIn(k)' = PassedIn(k)
  <2>1. ASSUME NEW b \in PassedIn(k)' PROVE b \in PassedIn(k)
    BY <1>4, <1>7, <2>1 DEF PassedIn
  <2>2. PassedIn(k) \subseteq PassedIn(k)'
    BY <1>1 DEF PassedIn
  <2> QED
    BY <2>1, <2>2
<1> QED
  BY <1>5, <1>6, <1>7

(* The parameters of kernel k are forgotten, and it is not run any more.   *)
LEMMA ForgottenParams ==
  ASSUME TypeOK, NEW k \in Kernels, ForgetParameters(k),
         \A j \in Kernels \ {k} : arg'[j] = arg[j], DOMAIN arg'[k] = ArgPositions(k),
         UNCHANGED <<intended, devicearray, onDevice>>,
         busy.op = "run" => busy.k = k, busy'.op # "run"
  PROVE  /\ \A j \in Kernels : Takes(j)' = IF j = k THEN {} ELSE Takes(j)
         /\ \A j \in Kernels : Fed(j)' = IF j = k THEN {} ELSE Fed(j)
         /\ \A j \in Kernels : Due(j)' = IF j = k THEN {} ELSE Due(j)
<1>1. /\ \A j \in Kernels : outputs'[j] = IF j = k THEN <<>> ELSE outputs[j]
      /\ \A j \in Kernels : buffers'[j] = IF j = k THEN {} ELSE buffers[j]
      /\ \A j \in Kernels : nextArg'[j] = IF j = k THEN 0 ELSE nextArg[j]
  BY DEF ForgetParameters, TypeOK, KernelTypeOK
<1>2. ASSUME NEW j \in Kernels \ {k}
      PROVE  Takes(j)' = Takes(j) /\ Fed(j)' = Fed(j) /\ Due(j)' = Due(j)
  <2>1. PassedIn(j)' = PassedIn(j) /\ ~Launched(j) /\ ~Launched(j)'
    BY <1>1, KeepPassed DEF Launched
  <2> QED
    BY <1>1, <2>1 DEF Takes, Fed, Due
<1>3. Passed(k)' = {}
  BY <1>1, WrapperAssumption DEF Passed, ArgPositions
<1>4. PassedIn(k)' = {}
  BY <1>3 DEF PassedIn
<1>5. Takes(k)' = {} /\ Fed(k)' = {} /\ Due(k)' = {}
  BY <1>1, <1>4 DEF Takes, Fed, Due
<1> QED
  BY <1>2, <1>5

-----------------------------------------------------------------------------
(* The client and its wrappers.                                            *)

(* Between two calls the device has no transfer to do.                     *)
LEMMA IdleCall ==
  ASSUME NoLateTransfer, NoLateTransfer'
  PROVE  /\ busy = Idle => NoCall
         /\ busy' = Idle => NoCall'
<1>1. ASSUME busy = Idle PROVE NoCall
  BY <1>1 DEF NoCall, Call, NoLateTransfer, Idle
<1>2. ASSUME busy' = Idle PROVE NoCall'
  BY <1>2 DEF NoCall, Call, NoLateTransfer, Idle
<1> QED
  BY <1>1, <1>2

(* The content of the other wrappers does not change with b's.             *)
LEMMA OtherContent ==
  ASSUME TypeOK, NEW b, NEW v, Intend({b}, v), NEW u \in Wrappers,
         onDevice'[u] = onDevice[u], devicearray'[u] = devicearray[u],
         onDevice[u] => devicearray[u] # b
  PROVE  Content(u)' = Content(u)
<1>1. onDevice[u] => devicearray[u] \in Buffers
  BY DEF TypeOK, WrapperTypeOK
<1> QED
  BY <1>1 DEF Content, Intend

(* A new buffer is no kernel's.                                            *)
LEMMA NewIntended ==
  ASSUME TypeOK, Ownership, NEW b \in FreeBuffers, NEW v, Intend({b}, v)
  PROVE  \A k \in Kernels : \A c \in buffers[k] : intended'[c] = intended[c]
BY DEF FreeBuffers, Ownership, Intend, TypeOK, KernelTypeOK

(* A wrapper that was not on the device is created there.                  *)
LEMMA AttachView ==
  ASSUME TypeOK, Ownership, NEW w \in Wrappers, ~onDevice[w], NEW b \in FreeBuffers,
         Attach(w, b), NEW v, Intend({b}, v)
  PROVE  /\ Sync!Placed(w)
         /\ \A u \in Wrappers : Undisturbed(u)
         /\ \A u \in Wrappers : Content(u)' = IF u = w THEN v ELSE Content(u)
         /\ Content(w) = Junk
<1>1. /\ onDevice' = [onDevice EXCEPT ![w] = TRUE] /\ onDevice'[w]
      /\ deviceDirty' = [deviceDirty EXCEPT ![w] = FALSE]
      /\ devicearray'[w] = b /\ b \notin live /\ b \in Buffers
      /\ \A u \in Wrappers \ {w} : /\ onDevice'[u] = onDevice[u]
                                   /\ devicearray'[u] = devicearray[u]
                                   /\ onDevice[u] => devicearray[u] # b
  BY DEF Attach, FreeBuffers, Ownership, OnDevice, TypeOK, WrapperTypeOK
<1>2. deviceDirty' = [deviceDirty EXCEPT ![w] = deviceDirty[w] /\ onDevice[w]]
  BY <1>1
<1>3. Sync!Placed(w)
  BY <1>1, <1>2 DEF Sync!Placed
<1>4. \A u \in Wrappers : Undisturbed(u)
  BY <1>1 DEF Undisturbed, Takes
<1>5. \A u \in Wrappers \ {w} : Content(u)' = Content(u)
  BY <1>1, OtherContent
<1>6. Content(w)' = v /\ Content(w) = Junk
  BY <1>1 DEF Content, Intend
<1> QED
  BY <1>3, <1>4, <1>5, <1>6

(* One that was is not touched.                                            *)
LEMMA StaysPlaced ==
  ASSUME TypeOK, NEW w \in Wrappers, onDevice[w], UNCHANGED <<onDevice, deviceDirty>>
  PROVE  Sync!Placed(w)
<1>1. onDevice[w] = TRUE /\ deviceDirty[w] \in BOOLEAN
  BY DEF TypeOK, WrapperTypeOK
<1>2. onDevice' = [onDevice EXCEPT ![w] = TRUE]
  BY <1>1 DEF TypeOK, WrapperTypeOK
<1>3. deviceDirty' = [deviceDirty EXCEPT ![w] = deviceDirty[w] /\ onDevice[w]]
  BY <1>1 DEF TypeOK, WrapperTypeOK
<1> QED
  BY <1>2, <1>3 DEF Sync!Placed

LEMMA CreateSync ==
  ASSUME TypeOK, Ownership, Binds, NoLateTransfer, NoLateTransfer', busy = Idle,
         UNCHANGED <<host, kernelVars, busy>>, NEW w \in Wrappers, ~onDevice[w],
         NEW b \in FreeBuffers, Attach(w, b), Intend({b}, Junk)
  PROVE  SyncStep
<1>1. NoCall /\ NoCall' /\ busy.op # "run"
  BY IdleCall DEF Idle
<1>2. /\ Sync!Placed(w)
      /\ \A u \in Wrappers : Undisturbed(u)
      /\ \A u \in Wrappers : Content(u)' = Content(u)
  BY AttachView
<1>3. SameParams
  BY <1>1, <1>2, NewIntended, KeepParams DEF kernelVars
<1> QED
  BY <1>1, <1>2, <1>3, SyncCreate DEF SameContent, kernelVars

(* An upload takes the host array as it is when the client calls.          *)
LEMMA CopyToDeviceSync ==
  ASSUME TypeOK, Ownership, Binds, NoLateTransfer, NoLateTransfer',
         NEW w \in Wrappers, CopyToDevice(w)
  PROVE  SyncStep
<1>1. /\ busy = Idle /\ busy' = [op |-> "upload", w |-> w]
      /\ UNCHANGED <<host, nextArg, arg, buffers, outputs, wrappersToDirty>>
  BY DEF CopyToDevice, kernelVars
<1>2. NoCall /\ Call' = [op |-> "upload", w |-> w] /\ busy.op # "run" /\ busy'.op # "run"
  BY <1>1, IdleCall DEF Call, Idle
<1>3. /\ Sync!Placed(w)
      /\ \A u \in Wrappers : Undisturbed(u)
      /\ \A u \in Wrappers : Content(u)' = IF u = w THEN host[w] ELSE Content(u)
      /\ \A k \in Kernels : \A c \in buffers[k] : intended'[c] = intended[c]
  <2>1. CASE ~onDevice[w]
    <3>1. PICK b \in FreeBuffers : Attach(w, b) /\ Intend({b}, host[w])
      BY <2>1 DEF CopyToDevice
    <3> QED
      BY <2>1, <3>1, AttachView, NewIntended
  <2>2. CASE onDevice[w]
    <3>1. /\ Intend({devicearray[w]}, host[w])
          /\ UNCHANGED <<devicearray, onDevice, deviceDirty>>
      BY <2>2 DEF CopyToDevice
    <3>2. /\ Sync!Placed(w)
          /\ \A u \in Wrappers : Undisturbed(u)
      BY <2>2, <3>1, StaysPlaced DEF Undisturbed
    <3>3. \A u \in Wrappers \ {w} : onDevice[u] => devicearray[u] # devicearray[w]
      BY <2>2 DEF Ownership, OnDevice
    <3>4. ASSUME NEW u \in Wrappers \ {w} PROVE Content(u)' = Content(u)
      <4>1. /\ onDevice'[u] = onDevice[u] /\ devicearray'[u] = devicearray[u]
            /\ onDevice[u] => devicearray[u] # devicearray[w]
        BY <3>1, <3>3
      <4> QED
        BY <3>1, <4>1, OtherContent
    <3>5. Content(w)' = host[w]
      BY <2>2, <3>1 DEF Content, Intend, TypeOK, WrapperTypeOK
    <3>6. \A k \in Kernels : \A c \in buffers[k] : c # devicearray[w] /\ c \in Buffers
      BY <2>2 DEF Ownership, OnDevice, TypeOK, KernelTypeOK
    <3>7. \A k \in Kernels : \A c \in buffers[k] : intended'[c] = intended[c]
      BY <3>1, <3>6 DEF Intend
    <3> QED
      BY <3>2, <3>4, <3>5, <3>7
  <2> QED
    BY <2>1, <2>2
<1>4. SameParams
  BY <1>1, <1>2, <1>3, KeepParams
<1> QED
  BY <1>1, <1>2, <1>3, <1>4, SyncUpload

(* A download is asked for, and has its effect when the device does it.    *)
LEMMA CopyToHostSync ==
  ASSUME TypeOK, Ownership, Binds, NoLateTransfer, NoLateTransfer',
         NEW w \in Wrappers, CopyToHost(w)
  PROVE  SyncStep
<1>1. /\ busy = Idle /\ busy' = [op |-> "download", w |-> w] /\ onDevice[w]
      /\ UNCHANGED <<host, intended, devicearray, onDevice, deviceDirty>>
      /\ UNCHANGED <<nextArg, arg, buffers, outputs, wrappersToDirty>>
      /\ DefaultQueue \in Queues /\ devicearray[w] \in Buffers
      /\ Enqueue(DefaultQueue, <<Read(devicearray[w], w)>>)
  BY DeviceAssumption DEF CopyToHost, wrapperVars, kernelVars, TypeOK, WrapperTypeOK
<1>2. PICK c \in Command : c = Read(devicearray[w], w)
  BY <1>1, WrapperAssumption DEF Read, Command
<1>3. ~Transferred'
  <2>1. /\ Len(pending'[DefaultQueue]) = Len(pending[DefaultQueue]) + 1
        /\ Len(pending[DefaultQueue]) \in Nat
    BY <1>1, <1>2, EnqueueElements DEF TypeOK
  <2>2. Len(pending'[DefaultQueue]) # 0
    BY <2>1
  <2> QED
    BY <2>2 DEF Transferred
<1>4. NoCall /\ Call' = [op |-> "download", w |-> w] /\ busy.op # "run" /\ busy'.op # "run"
  BY <1>1, <1>3, IdleCall DEF Call, Idle
<1>5. SameContent /\ \A u \in Wrappers : Undisturbed(u)
  BY <1>1 DEF SameContent, Content, Undisturbed
<1>6. SameParams
  BY <1>1, <1>4, <1>5, KeepParams
<1> QED
  BY <1>1, <1>4, <1>5, <1>6, SyncAsk

(* A wrapper leaves the device, or is destroyed.                           *)
LEMMA RemoveSync ==
  ASSUME TypeOK, Ownership, Binds, Rule("keepBound"), Rule("freshArgs"),
         NoLateTransfer, NoLateTransfer',
         NEW w \in Wrappers, DeleteFromDevice(w) \/ Destroy(w)
  PROVE  SyncStep
<1>1. /\ busy = Idle /\ UNCHANGED <<host, intended, busy>>
      /\ UNCHANGED <<nextArg, arg, buffers, outputs, wrappersToDirty>>
      /\ onDevice' = [onDevice EXCEPT ![w] = FALSE]
      /\ deviceDirty' = [deviceDirty EXCEPT ![w] = FALSE]
      /\ \A u \in Wrappers \ {w} : devicearray'[u] = devicearray[u]
      /\ ~Bound(w)
  BY DEF DeleteFromDevice, Destroy, Detach, kernelVars, TypeOK, WrapperTypeOK
<1>2. NoCall /\ NoCall' /\ busy.op # "run"
  BY <1>1, IdleCall DEF Idle
<1>3. ~onDevice'[w] /\ \A u \in Wrappers \ {w} : onDevice'[u] = onDevice[u]
  BY <1>1 DEF TypeOK, WrapperTypeOK
<1>4. \A u \in Wrappers : Content(u)' = IF u = w THEN Junk ELSE Content(u)
  BY <1>1, <1>3 DEF Content
<1>5. \A k \in Kernels : w \notin Takes(k) \cup wrappersToDirty[k]
  <2>1. CASE onDevice[w]
    <3>1. ASSUME NEW k \in Kernels, devicearray[w] \in PassedIn(k) PROVE FALSE
      <4>1. PICK i \in Passed(k) : arg[k][i].buf = devicearray[w]
        BY <3>1 DEF PassedIn
      <4> QED
        BY <1>1, <2>1, <4>1 DEF Bound
    <3>2. \A k \in Kernels : w \notin wrappersToDirty[k]
      BY <1>1, <2>1 DEF Bound
    <3> QED
      BY <3>1, <3>2 DEF Takes
  <2>2. CASE ~onDevice[w]
    BY <2>2 DEF Takes, Binds, MarkedOnDevice, OnDevice
  <2> QED
    BY <2>1, <2>2
<1>6. \A u \in Wrappers : Undisturbed(u)
  BY <1>1, <1>3, <1>5 DEF Undisturbed
<1>7. SameParams
  BY <1>1, <1>2, <1>6, KeepParams
<1> QED
  BY <1>1, <1>2, <1>4, <1>5, <1>7, SyncRemove

LEMMA WrapperStepSync ==
  ASSUME TypeOK, Ownership, Binds, Rule("keepBound"), Rule("freshArgs"),
         NoLateTransfer, NoLateTransfer', NEW w \in Wrappers, WrapperStep(w)
  PROVE  SyncStep
<1>1. CASE CreateOnDevice(w) \/ CopyToDeviceFails(w)
  BY <1>1, CreateSync DEF CreateOnDevice, CopyToDeviceFails
<1>2. CASE ClientMarksDirty(w)
  <2>1. /\ busy = Idle
        /\ UNCHANGED <<host, intended, devicearray, onDevice, busy>>
        /\ UNCHANGED <<nextArg, arg, buffers, outputs, wrappersToDirty>>
        /\ deviceDirty' = [deviceDirty EXCEPT ![w] = TRUE]
    BY <1>2 DEF ClientMarksDirty, MarkDeviceDirty, deviceVars, kernelVars
  <2>2. NoCall /\ NoCall' /\ busy.op # "run"
    BY <2>1, IdleCall DEF Idle
  <2>3. SameContent /\ \A u \in Wrappers : Undisturbed(u)
    BY <2>1 DEF SameContent, Content, Undisturbed
  <2>4. SameParams
    BY <2>1, <2>2, <2>3, KeepParams
  <2> QED
    BY <2>1, <2>2, <2>3, <2>4, SyncMark
<1> QED
  BY <1>1, <1>2, CopyToDeviceSync, CopyToHostSync, RemoveSync DEF WrapperStep

(* A copy on the device takes what is there when the client calls.         *)
LEMMA CopyToSync ==
  ASSUME TypeOK, Ownership, Binds, NoLateTransfer, NoLateTransfer',
         NEW s \in Wrappers, NEW t \in Wrappers,
         NEW from \in Int, NEW to \in Int, NEW count \in Int, CopyTo(s, t, from, to, count)
  PROVE  SyncStep
<1>1. /\ busy = Idle /\ UNCHANGED <<host, devicearray, onDevice, busy>>
      /\ UNCHANGED <<nextArg, arg, buffers, outputs, wrappersToDirty>>
      /\ devicearray' = devicearray /\ onDevice' = onDevice
      /\ onDevice[s] /\ onDevice[t]
      /\ deviceDirty' = [deviceDirty EXCEPT ![t] = TRUE]
  BY DEF CopyTo, MarkDeviceDirty, kernelVars
<1>2. count \in 1 .. Size[s] /\ count <= Size[s] /\ count <= Size[t]
  BY WrapperAssumption DEF CopyTo, CopyAccepted
<1>3. PICK b \in {devicearray[t]}, v \in Blends(s, t, count) : Intend({b}, v)
  BY DEF CopyTo, EnqueueCopy
<1>4. v \in Sync!Copied(s, t, count)
  <2>1. devicearray[s] \in Buffers /\ devicearray[t] \in Buffers
    BY <1>1 DEF TypeOK, WrapperTypeOK
  <2>2. /\ intended[devicearray[s]] \in Val \/ intended[devicearray[s]] = Junk
        /\ intended[devicearray[t]] \in Val \/ intended[devicearray[t]] = Junk
    BY <2>1 DEF TypeOK, DeviceTypeOK, Data
  <2>3. /\ Content(s) = intended[devicearray[s]]
        /\ Content(t) = intended[devicearray[t]]
    BY <1>1 DEF Content
  <2>4. count < Size[t] \/ count = Size[t]
    BY <1>2, WrapperAssumption
  <2> QED
    BY <1>3, <2>2, <2>3, <2>4, DeviceAssumption DEF Blends, Sync!Copied
<1>5. NoCall /\ NoCall' /\ busy.op # "run"
  BY <1>1, IdleCall DEF Idle
<1>6. Content(t)' = v
  BY <1>1, <1>3 DEF Content, Intend, TypeOK, WrapperTypeOK
<1>7. \A u \in Wrappers \ {t} : onDevice[u] => devicearray[u] # b
  BY <1>1, <1>3 DEF Ownership, OnDevice
<1>8. \A u \in Wrappers \ {t} : Content(u)' = Content(u)
  BY <1>1, <1>3, <1>7, OtherContent
<1>9. \A u \in Wrappers : Content(u)' = IF u = t THEN v ELSE Content(u)
  BY <1>6, <1>8
<1>10. \A k \in Kernels : \A c \in buffers[k] : intended'[c] = intended[c]
  <2>1. \A k \in Kernels : \A c \in buffers[k] : c # b /\ c \in Buffers
    BY <1>1, <1>3 DEF Ownership, OnDevice, TypeOK, KernelTypeOK
  <2> QED
    BY <1>3, <2>1 DEF Intend
<1>11. SameParams
  BY <1>1, <1>5, <1>10, KeepParams DEF Undisturbed
<1> QED
  BY <1>1, <1>2, <1>4, <1>5, <1>9, <1>11, SyncCopyTo

-----------------------------------------------------------------------------
(* Parameters.                                                             *)

(* Wrapper w is passed to kernel k as buffer c.                            *)
LEMMA PassWrapperSync ==
  ASSUME TypeOK, Ownership, Binds, NoCall, NoCall', busy.op # "run", UNCHANGED busy,
         NEW k \in Kernels, NEW w \in Wrappers, NEW use \in {"in", "out", "inout"},
         onDevice[w] \/ use = "out", Sync!Placed(w), onDevice'[w],
         Accepts(k), SetArg(k, use, devicearray'[w]), NextArg(k),
         UNCHANGED <<host, buffers, outputs>>,
         IF use = "in" THEN UNCHANGED wrappersToDirty ELSE ToDirty(k, w),
         \A u \in Wrappers : Undisturbed(u), SameContent,
         \A u \in Wrappers \ {w} : onDevice'[u] => devicearray'[u] # devicearray'[w],
         \A j \in Kernels : devicearray'[w] \notin buffers[j],
         onDevice[w] => devicearray'[w] = devicearray[w],
         \A j \in Kernels : \A b \in buffers[j] : intended'[b] = intended[b]
  PROVE  SyncStep
<1>1. /\ \A j \in Kernels \ {k} : PassedIn(j)' = PassedIn(j)
      /\ use # "out" => PassedIn(k)' = PassedIn(k) \cup {devicearray'[w]}
      /\ use = "out" => PassedIn(k)' = PassedIn(k)
  BY PassedInNext
<1>2. \A j \in Kernels : ~Launched(j) /\ ~Launched(j)'
  BY DEF Launched
<1>3. \A j \in Kernels \ {k} : Takes(j)' = Takes(j)
  BY <1>1, <1>2, KeepTakes
<1>4. Takes(k)' = Sync!With(Takes(k), w, use # "out")
  <2>1. CASE use = "out"
    BY <1>1, <1>2, <2>1, KeepTakes DEF Sync!With
  <2>2. CASE use # "out"
    <3>1. ASSUME NEW u \in Wrappers
          PROVE  u \in Takes(k)' <=> u \in Takes(k) \/ u = w
      <4>1. u \in Takes(k)' <=> onDevice'[u] /\ devicearray'[u] \in PassedIn(k) \cup {devicearray'[w]}
        BY <1>1, <1>2, <2>2 DEF Takes
      <4>2. CASE u = w
        BY <4>1, <4>2
      <4>3. CASE u # w /\ onDevice'[u] = onDevice[u] /\ devicearray'[u] = devicearray[u]
        BY <1>2, <4>1, <4>3 DEF Takes
      <4>4. CASE u # w /\ u \notin Takes(k) /\ (onDevice'[u] => devicearray'[u] \notin live)
        BY <4>1, <4>4, PassedInHeld
      <4> QED
        BY <4>2, <4>3, <4>4 DEF Undisturbed
    <3>2. Takes(k) \subseteq Wrappers /\ Takes(k)' \subseteq Wrappers
      BY DEF Takes
    <3> QED
      BY <2>2, <3>1, <3>2 DEF Sync!With
  <2> QED
    BY <2>1, <2>2
<1>5. \A j \in Kernels : Takes(j)' = Sync!With(Takes(j), w, j = k /\ use # "out")
  BY <1>3, <1>4 DEF Sync!With
<1>6. SameFed
  <2>1. ASSUME NEW j \in Kernels PROVE Fed(j)' = Fed(j)
    <3>1. \A b \in buffers[j] : b \in PassedIn(j)' <=> b \in PassedIn(j)
      BY <1>1
    <3>2. /\ Fed(j) = {intended[b] : b \in {c \in buffers[j] : c \in PassedIn(j)}}
          /\ Fed(j)' = {intended'[b] : b \in {c \in buffers[j] : c \in PassedIn(j)'}}
      BY <1>2 DEF Fed
    <3>3. {c \in buffers[j] : c \in PassedIn(j)'} = {c \in buffers[j] : c \in PassedIn(j)}
      BY <3>1
    <3> QED
      BY <3>2, <3>3
  <2> QED
    BY <2>1 DEF SameFed
<1>7. SameDue
  BY <1>2, KeepDue DEF SameDue
<1>8. /\ wrappersToDirty \in [Kernels -> SUBSET Wrappers]
      /\ wrappersToDirty'
           = [wrappersToDirty EXCEPT ![k] = Sync!With(wrappersToDirty[k], w, use # "in")]
  BY DEF ToDirty, Sync!With, TypeOK, KernelTypeOK
<1> QED
  BY <1>5, <1>6, <1>7, <1>8, SyncPassWrapper

LEMMA InputWrapperSync ==
  ASSUME TypeOK, Ownership, Binds, NoLateTransfer, NoLateTransfer',
         NEW k \in Kernels, NEW w \in Wrappers, NEW use \in {"in", "out", "inout"},
         Passing(k), Accepts(k), onDevice[w], SetArg(k, use, devicearray[w]), NextArg(k),
         UNCHANGED <<host, deviceVars, wrapperVars, buffers, outputs, busy>>,
         IF use = "in" THEN UNCHANGED wrappersToDirty ELSE ToDirty(k, w)
  PROVE  SyncStep
<1>1. /\ NoCall /\ NoCall' /\ busy.op # "run"
      /\ UNCHANGED <<intended, devicearray, onDevice, deviceDirty>>
  BY IdleCall DEF Passing, Idle, deviceVars, wrapperVars
<1>2. Sync!Placed(w) /\ onDevice'[w]
  BY <1>1, StaysPlaced
<1>3. SameContent /\ \A u \in Wrappers : Undisturbed(u)
  BY <1>1 DEF SameContent, Content, Undisturbed
<1>4. /\ \A u \in Wrappers \ {w} : onDevice'[u] => devicearray'[u] # devicearray'[w]
      /\ \A j \in Kernels : devicearray'[w] \notin buffers[j]
  BY <1>1 DEF Ownership, OnDevice
<1> QED
  BY <1>1, <1>2, <1>3, <1>4, PassWrapperSync

LEMMA OutputWrapperSync ==
  ASSUME TypeOK, Ownership, Binds, NoLateTransfer, NoLateTransfer',
         NEW k \in Kernels, NEW w \in Wrappers, OutputWrapper(k, w)
  PROVE  SyncStep
<1>1. CASE onDevice[w]
  BY <1>1, InputWrapperSync DEF OutputWrapper
<1>2. CASE ~onDevice[w]
  <2>1. PICK b \in FreeBuffers : Attach(w, b) /\ Intend({b}, Junk) /\ SetArg(k, "out", b)
    BY <1>2 DEF OutputWrapper
  <2>2. /\ Passing(k) /\ Accepts(k) /\ NextArg(k) /\ ToDirty(k, w)
        /\ UNCHANGED <<host, buffers, outputs, busy>>
    BY DEF OutputWrapper
  <2>3. NoCall /\ NoCall' /\ busy.op # "run"
    BY <2>2, IdleCall DEF Passing, Idle
  <2>4. Sync!Placed(w) /\ SameContent /\ \A u \in Wrappers : Undisturbed(u)
    BY <1>2, <2>1, AttachView DEF SameContent
  <2>5. /\ onDevice'[w] /\ devicearray'[w] = b /\ b \notin live
        /\ \A u \in Wrappers \ {w} : /\ onDevice'[u] = onDevice[u]
                                     /\ devicearray'[u] = devicearray[u]
    BY <2>1 DEF Attach, FreeBuffers, TypeOK, WrapperTypeOK
  <2>6. /\ \A u \in Wrappers \ {w} : onDevice'[u] => devicearray'[u] # devicearray'[w]
        /\ \A j \in Kernels : devicearray'[w] \notin buffers[j]
    BY <2>5 DEF Ownership, OnDevice
  <2> QED
    BY <1>2, <2>1, <2>2, <2>3, <2>4, <2>5, <2>6, NewIntended, PassWrapperSync
<1> QED
  BY <1>1, <1>2

(* Plain array h is passed to kernel k as the new buffer b.                *)
LEMMA PassArraySync ==
  ASSUME TypeOK, Ownership, Binds, NoLateTransfer, NoLateTransfer',
         NEW k \in Kernels, NEW h \in Hosts, NEW use \in {"in", "out", "inout"},
         Passing(k), Accepts(k), NEW b \in FreeBuffers,
         Intend({b}, IF use = "out" THEN Junk ELSE host[h]), SetArg(k, use, b), NextArg(k),
         buffers' = [buffers EXCEPT ![k] = @ \cup {b}],
         IF use = "in" THEN UNCHANGED outputs
         ELSE outputs' = [outputs EXCEPT ![k] = Append(@, [buf |-> b, array |-> h])],
         UNCHANGED <<host, wrapperVars, wrappersToDirty, busy>>
  PROVE  SyncStep
<1>1. /\ NoCall /\ NoCall' /\ busy.op # "run"
      /\ \A j \in Kernels : ~Launched(j) /\ ~Launched(j)'
      /\ UNCHANGED <<devicearray, onDevice, deviceDirty>>
  BY IdleCall DEF Passing, Idle, wrapperVars, Launched
<1>2. b \in Buffers /\ b \notin live
  BY DEF FreeBuffers
<1>3. /\ \A j \in Kernels \ {k} : PassedIn(j)' = PassedIn(j)
      /\ use # "out" => PassedIn(k)' = PassedIn(k) \cup {b}
      /\ use = "out" => PassedIn(k)' = PassedIn(k)
  BY PassedInNext
<1>4. SameContent
  <2>1. \A u \in Wrappers : onDevice[u] => devicearray[u] # b
    BY <1>2 DEF Ownership, OnDevice
  <2>2. PICK v : Intend({b}, v)
    OBVIOUS
  <2>3. ASSUME NEW u \in Wrappers PROVE Content(u)' = Content(u)
    <3>1. /\ onDevice'[u] = onDevice[u] /\ devicearray'[u] = devicearray[u]
          /\ onDevice[u] => devicearray[u] # b
      BY <1>1, <2>1
    <3> QED
      BY <2>2, <3>1, OtherContent
  <2> QED
    BY <2>3 DEF SameContent
<1>5. SameTakes
  <2>1. ASSUME NEW j \in Kernels, NEW u \in Wrappers, onDevice[u]
        PROVE  devicearray[u] \in PassedIn(j)' <=> devicearray[u] \in PassedIn(j)
    BY <1>2, <1>3, <2>1 DEF Ownership, OnDevice
  <2>2. ASSUME NEW j \in Kernels PROVE Takes(j)' = Takes(j)
    BY <1>1, <2>1 DEF Takes
  <2> QED
    BY <2>2 DEF SameTakes
<1>6. \A j \in Kernels : Fed(j)' = Sync!With(Fed(j), host[h], j = k /\ use # "out")
  <2>1. \A j \in Kernels : buffers'[j] = IF j = k THEN buffers[k] \cup {b} ELSE buffers[j]
    BY DEF TypeOK, KernelTypeOK
  <2>2. \A j \in Kernels : b \notin PassedIn(j) /\ b \notin buffers[j]
    BY <1>2, PassedInHeld DEF Ownership
  <2>3. \A j \in Kernels : \A c \in buffers[j] : intended'[c] = intended[c]
    BY NewIntended
  <2>4. intended'[b] = IF use = "out" THEN Junk ELSE host[h]
    BY <1>2 DEF Intend
  <2> DEFINE Kept(j) == {c \in buffers[j] : c \in PassedIn(j)}
  <2>5. ASSUME NEW j \in Kernels
        PROVE  /\ Fed(j) = {intended[c] : c \in Kept(j)}
               /\ Fed(j)' = {intended'[c] : c \in {d \in buffers'[j] : d \in PassedIn(j)'}}
    BY <1>1 DEF Fed
  <2>6. ASSUME NEW j \in Kernels, j # k \/ use = "out" PROVE Fed(j)' = Fed(j)
    <3>1. {d \in buffers'[j] : d \in PassedIn(j)'} = Kept(j)
      BY <1>3, <2>1, <2>2, <2>6
    <3>2. \A c \in Kept(j) : intended'[c] = intended[c]
      BY <2>3
    <3>3. /\ Fed(j) = {intended[c] : c \in Kept(j)}
          /\ Fed(j)' = {intended'[c] : c \in Kept(j)}
      BY <2>5, <3>1
    <3> HIDE DEF Kept
    <3> QED
      BY <3>2, <3>3
  <2>7. ASSUME use # "out" PROVE Fed(k)' = Fed(k) \cup {host[h]}
    <3>1. {d \in buffers'[k] : d \in PassedIn(k)'} = Kept(k) \cup {b}
      BY <1>3, <2>1, <2>2, <2>7
    <3>2. \A c \in Kept(k) : intended'[c] = intended[c]
      BY <2>3
    <3> HIDE DEF Kept
    <3>3. {intended'[c] : c \in Kept(k) \cup {b}}
            = {intended[c] : c \in Kept(k)} \cup {host[h]}
      BY <2>4, <2>7, <3>2
    <3> QED
      BY <2>5, <3>1, <3>3
  <2> QED
    BY <2>6, <2>7 DEF Sync!With
<1>7. \A j \in Kernels : Due(j)' = Sync!With(Due(j), h, j = k /\ use # "in")
  <2>1. \A j \in Kernels : /\ Due(j) = {outputs[j][i].array : i \in DOMAIN outputs[j]}
                           /\ Due(j)' = {outputs'[j][i].array : i \in DOMAIN outputs'[j]}
    BY <1>1 DEF Due
  <2>2. ASSUME NEW j \in Kernels, j # k \/ use = "in" PROVE Due(j)' = Due(j)
    <3>1. outputs'[j] = outputs[j]
      BY <2>2 DEF TypeOK, KernelTypeOK
    <3>2. /\ Due(j) = {outputs[j][i].array : i \in DOMAIN outputs[j]}
          /\ Due(j)' = {outputs'[j][i].array : i \in DOMAIN outputs'[j]}
      BY <2>1, <2>2
    <3> QED
      BY <3>1, <3>2
  <2>3. ASSUME use # "in" PROVE Due(k)' = Due(k) \cup {h}
    <3>1. PICK o \in Output : o = [buf |-> b, array |-> h]
      BY <1>2 DEF Output
    <3>2. outputs[k] \in Seq(Output) /\ outputs'[k] = Append(outputs[k], o)
      BY <2>3, <3>1 DEF TypeOK, KernelTypeOK
    <3>3. /\ DOMAIN outputs[k] = 1 .. Len(outputs[k]) /\ Len(outputs[k]) \in Nat
          /\ DOMAIN outputs'[k] = 1 .. Len(outputs[k]) + 1
          /\ \A i \in 1 .. Len(outputs[k]) : outputs'[k][i] = outputs[k][i]
          /\ outputs'[k][Len(outputs[k]) + 1] = o
      BY <3>2
    <3>4. DOMAIN outputs'[k] = DOMAIN outputs[k] \cup {Len(outputs[k]) + 1}
      BY <3>3
    <3>5. o.array = h
      BY <3>1
    <3>6. {outputs'[k][i].array : i \in DOMAIN outputs[k] \cup {Len(outputs[k]) + 1}}
            = {outputs[k][i].array : i \in DOMAIN outputs[k]} \cup {h}
      BY <3>3, <3>5
    <3> QED
      BY <2>1, <3>4, <3>6
  <2> QED
    BY <2>2, <2>3 DEF Sync!With
<1> QED
  BY <1>1, <1>4, <1>5, <1>6, <1>7, SyncPassArray

(* A buffer is created that is nobody's.                                   *)
LEMMA LostSync ==
  ASSUME TypeOK, Ownership, Binds, NoLateTransfer, NoLateTransfer',
         NEW b \in FreeBuffers, NEW v, Intend({b}, v), busy = Idle,
         UNCHANGED <<host, wrapperVars, kernelVars, busy>>
  PROVE  SyncStep
<1>1. /\ NoCall /\ NoCall' /\ busy.op # "run"
      /\ UNCHANGED <<devicearray, onDevice, deviceDirty>>
      /\ UNCHANGED <<nextArg, arg, buffers, outputs, wrappersToDirty>>
  BY IdleCall DEF Idle, wrapperVars, kernelVars
<1>2. \A u \in Wrappers : onDevice[u] => devicearray[u] # b
  BY DEF FreeBuffers, Ownership, OnDevice
<1>3. SameContent
  BY <1>1, <1>2, OtherContent DEF SameContent
<1>4. SameParams
  BY <1>1, NewIntended, KeepParams DEF Undisturbed
<1>5. Call' = Call
  BY <1>1 DEF NoCall
<1> QED
  BY <1>1, <1>3, <1>4, <1>5, SyncSame

LEMMA InputValueSync ==
  ASSUME TypeOK, Ownership, NoLateTransfer, NoLateTransfer', NEW k \in Kernels, InputValue(k)
  PROVE  SyncStep
<1>1. /\ NoCall /\ NoCall' /\ busy.op # "run" /\ busy' = busy
      /\ UNCHANGED <<host, intended, devicearray, onDevice, deviceDirty>>
      /\ UNCHANGED <<buffers, outputs, wrappersToDirty>>
  BY IdleCall DEF InputValue, Passing, Idle, deviceVars, wrapperVars
<1>2. \A j \in Kernels : PassedIn(j)' = PassedIn(j)
  BY PassedInNext DEF InputValue
<1>3. SameParams
  BY <1>1, <1>2 DEF SameParams, SameTakes, SameFed, SameDue, Takes, Fed, Due, Launched
<1>4. Call' = Call /\ SameContent
  BY <1>1 DEF NoCall, SameContent, Content
<1> QED
  BY <1>1, <1>3, <1>4, SyncSame

LEMMA DestroyKernelSync ==
  ASSUME TypeOK, NoLateTransfer, NoLateTransfer', NEW k \in Kernels, DestroyKernel(k)
  PROVE  SyncStep
<1>1. /\ NoCall /\ NoCall' /\ busy.op # "run" /\ busy'.op # "run"
      /\ UNCHANGED <<host, intended, devicearray, onDevice, deviceDirty>>
      /\ ForgetParameters(k)
      /\ wrappersToDirty' = [wrappersToDirty EXCEPT ![k] = {}]
  BY IdleCall DEF DestroyKernel, ForgetParameters, Idle, deviceVars, wrapperVars
<1>2. (\A j \in Kernels \ {k} : arg'[j] = arg[j]) /\ DOMAIN arg'[k] = ArgPositions(k)
  BY DEF DestroyKernel, TypeOK, KernelTypeOK
<1>3. /\ \A j \in Kernels : Takes(j)' = IF j = k THEN {} ELSE Takes(j)
      /\ \A j \in Kernels : Fed(j)' = IF j = k THEN {} ELSE Fed(j)
      /\ \A j \in Kernels : Due(j)' = IF j = k THEN {} ELSE Due(j)
  BY <1>1, <1>2, ForgottenParams
<1>4. SameContent
  BY <1>1 DEF SameContent, Content
<1> QED
  BY <1>1, <1>3, <1>4, SyncRebuild

-----------------------------------------------------------------------------
(* A launch is given what is there when the client calls, and writes what  *)
(* was passed for it to write.                                             *)
LEMMA RunSync ==
  ASSUME TypeOK, Ownership, Binds, NoBare, MarkedWritten, Rule("freshArgs"),
         NoLateTransfer, NoLateTransfer',
         NEW k \in Kernels, NEW q \in Queues, NEW fast_read \in BOOLEAN,
         Run(k, q, fast_read)
  PROVE  SyncStep
<1>1. PICK v \in Results(k) :
        /\ Intend(WrittenBy(k), v)
        /\ busy'.op = "run" /\ busy'.k = k /\ busy'.val = v /\ busy'.refused = {}
  BY DEF Run
<1>2. /\ busy = Idle /\ busy.op # "run" /\ NoCall
      /\ UNCHANGED <<host, devicearray, onDevice, deviceDirty>>
      /\ UNCHANGED <<nextArg, arg, buffers, outputs, wrappersToDirty>>
  BY IdleCall DEF Run, Idle, kernelVars, wrapperVars
<1>3. Passed(k) = DOMAIN arg[k]
  BY KernelAssumption, WrapperAssumption
  DEF Run, Passed, TypeOK, KernelTypeOK, ArgPositions
<1>4. wrappersToDirty[k] \in SUBSET Wrappers /\ \A w \in wrappersToDirty[k] : onDevice[w]
  BY DEF Binds, MarkedOnDevice, OnDevice
<1>5. ASSUME NEW w \in Wrappers, onDevice[w]
      PROVE  devicearray[w] \in WrittenBy(k) <=> w \in wrappersToDirty[k]
  <2>1. ASSUME w \in wrappersToDirty[k] PROVE devicearray[w] \in WrittenBy(k)
    <3>1. PICK i \in Passed(k) : /\ arg[k][i].use \in {"out", "inout"}
                                 /\ arg[k][i].buf = devicearray[w]
      BY <2>1 DEF MarkedWritten
    <3> QED
      BY <1>3, <3>1 DEF WrittenBy, PassedAs
  <2>2. ASSUME devicearray[w] \in WrittenBy(k) PROVE w \in wrappersToDirty[k]
    <3>1. PICK i \in Passed(k) : /\ arg[k][i].use \in {"out", "inout", "bare"}
                                 /\ arg[k][i].buf = devicearray[w]
      BY <1>3, <2>2 DEF WrittenBy, PassedAs
    <3>2. arg[k][i].use \in {"out", "inout"}
      BY <1>3, <3>1 DEF NoBare
    <3> QED
      BY <1>5, <3>1, <3>2 DEF Binds, PassedMarked, OnDevice
  <2> QED
    BY <2>1, <2>2
<1>6. ASSUME NEW u \in Wrappers
      PROVE  Content(u)' = IF u \in wrappersToDirty[k] THEN v ELSE Content(u)
  <2>1. CASE onDevice[u]
    <3>1. devicearray[u] \in Buffers
      BY <2>1 DEF TypeOK, WrapperTypeOK
    <3>2. intended'[devicearray[u]] = IF u \in wrappersToDirty[k] THEN v
                                      ELSE intended[devicearray[u]]
      BY <1>1, <1>5, <2>1, <3>1 DEF Intend
    <3> QED
      BY <1>2, <2>1, <3>2 DEF Content
  <2>2. CASE ~onDevice[u]
    BY <1>2, <1>4, <2>2 DEF Content
  <2> QED
    BY <2>1, <2>2
<1>7. /\ ReadBy(k) = PassedIn(k)
      /\ \A b \in ReadBy(k) \cup WrittenBy(k) : Holds(k, b)
  <2>1. \A i \in DOMAIN arg[k] : arg[k][i].use # "bare"
    BY DEF NoBare
  <2>2. PassedIn(k) = {arg[k][i].buf : i \in {j \in DOMAIN arg[k] : arg[k][j].use \in {"in", "inout"}}}
    BY <1>3 DEF PassedIn
  <2>3. ReadBy(k) = PassedIn(k)
    BY <2>1, <2>2 DEF ReadBy, PassedAs
  <2>4. ASSUME NEW b \in ReadBy(k) \cup WrittenBy(k) PROVE Holds(k, b)
    <3>1. PICK i \in Passed(k) : arg[k][i].use # "value" /\ arg[k][i].buf = b
      BY <1>3, <2>4 DEF ReadBy, WrittenBy, PassedAs
    <3> QED
      BY <3>1 DEF Binds, PassedHeld
  <2> QED
    BY <2>3, <2>4
<1>8. v \in Sync!Computes(k)
  <2>1. ReadBy(k) \cup WrittenBy(k) \subseteq live
    BY <1>7 DEF Holds, Ownership
  <2>2. ~Launched(k)
    BY <1>2 DEF Launched
  <2> DEFINE given == Fed(k) \cup {Content(w) : w \in Takes(k)}
  <2>3. ASSUME NEW b \in ReadBy(k) PROVE intended[b] \in given
    <3>1. CASE b \in buffers[k]
      BY <1>7, <2>2, <3>1 DEF Fed
    <3>2. CASE \E w \in OnDevice : devicearray[w] = b
      <4>1. PICK w \in OnDevice : devicearray[w] = b
        BY <3>2
      <4>2. w \in Takes(k) /\ Content(w) = intended[b]
        BY <1>7, <2>2, <4>1 DEF Takes, Content, OnDevice
      <4> QED
        BY <4>2
    <3> QED
      BY <1>7, <3>1, <3>2 DEF Holds
  <2>4. ASSUME NEW x \in given PROVE \E b \in ReadBy(k) : intended[b] = x
    <3>1. CASE x \in Fed(k)
      BY <1>7, <3>1 DEF Fed
    <3>2. CASE \E w \in Takes(k) : x = Content(w)
      BY <1>7, <3>2 DEF Takes, Content
    <3> QED
      BY <3>1, <3>2
  <2>5. (\A b \in ReadBy(k) : intended[b] \in Val) <=> given \subseteq Val
    BY <2>3, <2>4
  <2>6. given = [j \in Kernels |-> Fed(j)][k]
                  \cup {[u \in Wrappers |-> Content(u)][w] : w \in [j \in Kernels |-> Takes(j)][k]}
    BY DEF Takes
  <2>7. Sync!Computes(k) = IF given \subseteq Val THEN Val ELSE {Junk}
    BY <2>6 DEF Sync!Computes
  <2> QED
    BY <1>1, <2>1, <2>5, <2>7 DEF Results
<1>9. /\ Launched(k)' /\ \A j \in Kernels : ~Launched(j)
      /\ \A j \in Kernels \ {k} : ~Launched(j)'
      /\ \A j \in Kernels : PassedIn(j)' = PassedIn(j)
  BY <1>1, <1>2, KeepPassed DEF Launched
<1>10. \A j \in Kernels : Takes(j)' = IF j = k THEN {} ELSE Takes(j)
  BY <1>2, <1>9 DEF Takes
<1>11. \A j \in Kernels : Fed(j)' = IF j = k THEN {} ELSE Fed(j)
  <2>1. Fed(k)' = {}
    BY <1>9 DEF Fed
  <2>2. ASSUME NEW j \in Kernels \ {k}, NEW b \in buffers[j] PROVE intended'[b] = intended[b]
    <3>1. b \in Buffers
      BY <2>2 DEF TypeOK, KernelTypeOK
    <3>2. ~Holds(k, b)
      BY <2>2 DEF Holds, Ownership
    <3> QED
      BY <1>1, <1>7, <3>1, <3>2 DEF Intend
  <2> QED
    BY <1>2, <1>9, <2>1, <2>2, KeepFed
<1>12. SameDue
  BY <1>1, <1>2, <1>9 DEF SameDue, Due
<1>13. Call' = [op |-> "run", k |-> k, val |-> v]
  BY <1>1 DEF Call
<1> QED
  BY <1>2, <1>6, <1>8, <1>10, <1>11, <1>12, <1>13, SyncRun

LEMMA KernelStepSync ==
  ASSUME TypeOK, Ownership, Binds, NoBare, MarkedWritten, WithinArity, WithinArity',
         Rule("freshArgs"), Rule("wholeWrapper"), Rule("withinArity"),
         NoLateTransfer, NoLateTransfer', NEW k \in Kernels, KernelStep(k)
  PROVE  SyncStep
<1>1. ASSUME NEW w \in Wrappers, \/ Input(k, w) \/ Inout(k, w) \/ InoutBuffer(k, w)
                                 \/ OutputWrapper(k, w) \/ OutputWrapperFails(k, w)
      PROVE  SyncStep
  <2>1. CASE Input(k, w)
    BY <2>1, InputWrapperSync DEF Input
  <2>2. CASE Inout(k, w)
    BY <2>2, InputWrapperSync DEF Inout
  <2>3. CASE OutputWrapperFails(k, w)
    BY <2>3, CreateSync DEF OutputWrapperFails, Passing
  <2> QED
    BY <1>1, <2>1, <2>2, <2>3, OutputWrapperSync DEF InoutBuffer
<1>2. ASSUME NEW h \in Hosts \ Wrappers, \/ InputArray(k, h) \/ InputArrayFails(k, h)
                                         \/ OutputArray(k, h) \/ InoutArray(k, h)
      PROVE  SyncStep
  <2>1. CASE InputArray(k, h)
    BY <2>1, PassArraySync DEF InputArray, Temporary
  <2>2. CASE InoutArray(k, h)
    BY <2>2, PassArraySync DEF InoutArray, Temporary
  <2>3. CASE OutputArray(k, h)
    <3>1. Accepts(k)
      BY <2>3 DEF OutputArray, Passing, Accepts
    <3> QED
      BY <2>3, <3>1, PassArraySync DEF OutputArray, Temporary
  <2>4. CASE InputArrayFails(k, h)
    BY <2>4, LostSync DEF InputArrayFails, Temporary, Passing
  <2> QED
    BY <1>2, <2>1, <2>2, <2>3, <2>4
<1> QED
  BY <1>1, <1>2, RunSync, InputValueSync, DestroyKernelSync DEF KernelStep

-----------------------------------------------------------------------------
(* The calls in progress, and the device.                                  *)

LEMMA RunReturnsSync ==
  ASSUME TypeOK, OnlyTransferring, RefusedTried, Delivery, WithinArity, RunReturns,
         NoLateTransfer, NoLateTransfer'
  PROVE  SyncStep
<1>1. /\ busy.op = "run" /\ busy \in Running /\ busy' = Idle /\ NoCall' /\ busy'.op # "run"
      /\ UNCHANGED <<host, intended, devicearray, onDevice, arg>>
  BY BusyRun, IdleCall DEF RunReturns, Idle
<1>2. PICK k \in Kernels : busy.k = k
  BY <1>1 DEF Running
<1>3. /\ ForgetParameters(k)
      /\ deviceDirty' = [w \in Wrappers |-> deviceDirty[w] \/ w \in wrappersToDirty[k]]
      /\ wrappersToDirty' = [wrappersToDirty EXCEPT ![k] = {}]
  BY <1>2 DEF RunReturns, MarkWrappers, ForgetParameters
<1>4. Call = [op |-> "run", k |-> k, val |-> busy.val]
  BY <1>1, <1>2 DEF Call
<1>5. /\ \A j \in Kernels : Takes(j)' = IF j = k THEN {} ELSE Takes(j)
      /\ \A j \in Kernels : Fed(j)' = IF j = k THEN {} ELSE Fed(j)
      /\ \A j \in Kernels : Due(j)' = IF j = k THEN {} ELSE Due(j)
  <2>1. DOMAIN arg'[k] = ArgPositions(k)
    BY <1>1 DEF TypeOK, KernelTypeOK
  <2> QED
    BY <1>1, <1>2, <1>3, <2>1, ForgottenParams
<1>6. Launched(k)
  BY <1>1, <1>2 DEF Launched
<1>7. Takes(k) = {} /\ Fed(k) = {}
  BY <1>6 DEF Takes, Fed
<1>8. SameTakes /\ SameFed
  BY <1>5, <1>7 DEF SameTakes, SameFed
<1>9. ASSUME NEW h \in Due(k) PROVE host[h] = busy.val
  <2>1. PICK i \in DOMAIN outputs[k] \ busy.refused : h = outputs[k][i].array
    BY <1>6 DEF Due
  <2>2. nextArg[k] <= Arity[k]
    BY DEF WithinArity
  <2> QED
    BY <1>2, <2>1, <2>2, ReturnsDelivered
<1>10. SameContent
  BY <1>1 DEF SameContent, Content
<1> QED
  BY <1>1, <1>3, <1>4, <1>5, <1>8, <1>9, <1>10, SyncRunReturns

(* A read that is refused will not be delivered, unless the same array is  *)
(* to be filled by another one.                                            *)
LEMMA RefusedSync ==
  ASSUME TypeOK, RunReadRefused
  PROVE  SyncStep
<1>1. busy.op = "run" /\ busy \in Running /\ busy.next \in DOMAIN outputs[busy.k]
  <2>1. busy.op = "run" /\ busy \in Running /\ busy.next <= Len(outputs[busy.k])
    BY BusyRun DEF RunReadRefused, Reading
  <2>2. outputs[busy.k] \in Seq(Output) /\ busy.next \in Nat \ {0}
    BY <2>1 DEF Running, TypeOK, KernelTypeOK
  <2> QED
    BY <2>1, <2>2
<1>2. PICK k \in Kernels : busy.k = k
  BY <1>1 DEF Running
<1>3. /\ busy'.op = "run" /\ busy'.k = k /\ busy'.val = busy.val
      /\ busy'.refused = busy.refused \cup {busy.next}
      /\ UNCHANGED <<host, intended, devicearray, onDevice, deviceDirty>>
      /\ UNCHANGED <<nextArg, arg, buffers, outputs, wrappersToDirty>>
  BY <1>1, <1>2 DEF RunReadRefused, Running, deviceVars, wrapperVars, kernelVars
<1>4. SameContent /\ SameTakes /\ SameFed /\ Call' = Call
  BY <1>1, <1>2, <1>3, RunParams DEF SameContent, Content, Call
<1>5. PICK h : h = outputs[k][busy.next].array
  OBVIOUS
<1>6. h \in Hosts
  <2>1. outputs[k] \in Seq(Output)
    BY DEF TypeOK, KernelTypeOK
  <2>2. outputs[k][busy.next] \in Output
    BY <1>1, <1>2, <2>1
  <2> QED
    BY <1>5, <2>2 DEF Output
<1>7. ASSUME NEW j \in Kernels \ {k} PROVE Due(j)' = Due(j)
  BY <1>2, <1>3 DEF Due, Launched
<1>8. /\ Due(k) = {outputs[k][i].array : i \in DOMAIN outputs[k] \ busy.refused}
      /\ Due(k)' = {outputs[k][i].array :
                      i \in DOMAIN outputs[k] \ (busy.refused \cup {busy.next})}
  BY <1>1, <1>2, <1>3 DEF Due, Launched
<1>9. Due(k)' = Due(k) \/ Due(k)' = Due(k) \ {h}
  <2>1. CASE h \in Due(k)'
    BY <1>5, <1>8, <2>1
  <2>2. CASE h \notin Due(k)'
    BY <1>5, <1>8, <2>2
  <2> QED
    BY <2>1, <2>2
<1>10. CASE Due(k)' = Due(k)
  BY <1>3, <1>4, <1>7, <1>10, SyncSame DEF SameParams, SameDue
<1>11. CASE Due(k)' = Due(k) \ {h}
  <2>1. Call.op = "run" /\ Call.k = k
    BY <1>1, <1>2 DEF Call
  <2> QED
    BY <1>3, <1>4, <1>6, <1>7, <1>11, <2>1, SyncRefuse
<1> QED
  BY <1>9, <1>10, <1>11

LEMMA ReturnsSync ==
  ASSUME TypeOK, Ownership, Binds, OnlyTransferring, RefusedTried, Delivery, WithinArity,
         NoLateTransfer, NoLateTransfer', Returns
  PROVE  SyncStep
<1>1. CASE CopyToDeviceReturns \/ CopyToHostReturns \/ CopyToHostThrows
  <2>1. /\ busy' = Idle /\ NoCall' /\ busy.op # "run" /\ busy'.op # "run"
        /\ busy.op \in {"upload", "download"}
        /\ UNCHANGED <<host, intended, devicearray, onDevice>>
        /\ UNCHANGED <<nextArg, arg, buffers, outputs, wrappersToDirty>>
    BY <1>1, IdleCall
    DEF CopyToDeviceReturns, CopyToHostReturns, CopyToHostThrows, deviceVars, wrapperVars,
        kernelVars, Idle
  <2>2. PICK w \in Wrappers : busy.w = w /\ busy = [op |-> busy.op, w |-> w]
    BY <2>1 DEF TypeOK, WrapperTypeOK, HostState
  <2>3. SameContent /\ SameParams
    BY <2>1, KeepParams DEF SameContent, Content, Undisturbed
  <2>4. CASE CopyToDeviceReturns
    <3>1. Call = [op |-> "upload", w |-> w] /\ deviceDirty' = [deviceDirty EXCEPT ![w] = FALSE]
      BY <2>2, <2>4 DEF CopyToDeviceReturns, Call
    <3> QED
      BY <2>1, <2>3, <3>1, SyncCopied
  <2>5. CASE CopyToHostReturns
    <3>1. /\ Call = [op |-> "downloaded", w |-> w]
          /\ deviceDirty' = [deviceDirty EXCEPT ![w] = FALSE]
      BY <2>2, <2>5 DEF CopyToHostReturns, Call
    <3> QED
      BY <2>1, <2>3, <3>1, SyncCopied
  <2>6. CASE CopyToHostThrows
    <3>1. Call.op = "downloaded" /\ UNCHANGED deviceDirty
      BY <2>6 DEF CopyToHostThrows, Call, wrapperVars
    <3> QED
      BY <2>1, <2>3, <3>1, SyncThrows
  <2> QED
    BY <1>1, <2>4, <2>5, <2>6
<1>2. CASE RunReads
  <2>1. /\ busy.op = "run" /\ busy'.op = "run" /\ busy'.k = busy.k /\ busy'.val = busy.val
        /\ busy'.refused = busy.refused
        /\ UNCHANGED <<host, intended, devicearray, onDevice, deviceDirty>>
        /\ UNCHANGED <<nextArg, arg, buffers, outputs, wrappersToDirty>>
    BY <1>2, BusyRun DEF RunReads, Reading, Running, wrapperVars, kernelVars
  <2>2. Call' = Call /\ SameContent /\ SameParams
    BY <2>1, RunParams DEF Call, SameContent, Content, SameParams
  <2> QED
    BY <2>1, <2>2, SyncSame
<1>3. CASE FinishReturns
  <2>1. /\ busy.op = "finish" /\ busy' = Idle /\ busy'.op # "run"
        /\ UNCHANGED <<host, intended, devicearray, onDevice, deviceDirty>>
        /\ UNCHANGED <<nextArg, arg, buffers, outputs, wrappersToDirty>>
    BY <1>3 DEF FinishReturns, deviceVars, wrapperVars, kernelVars, Idle
  <2>2. NoCall' /\ Call = [op |-> "finish"]
    BY <2>1, IdleCall DEF Call, TypeOK, WrapperTypeOK, HostState
  <2>3. SameContent /\ SameParams
    BY <2>1, KeepParams DEF SameContent, Content, Undisturbed
  <2> QED
    BY <2>1, <2>2, <2>3, SyncFinish
<1> QED
  BY <1>1, <1>2, <1>3, RunReturnsSync, RefusedSync DEF Returns

(* Whatever the device executes but a read, the client does not see.       *)
LEMMA DeviceStepSync ==
  ASSUME TypeOK, Order, OnlyTransferring, Delivery, Flags, LastTransfer, WithinArity,
         NoLateTransfer, NoLateTransfer', NEW q \in Queues, DeviceStep(q)
  PROVE  SyncStep
<1>1. /\ Execute(q)
      /\ busy' = busy
      /\ UNCHANGED <<intended, devicearray, onDevice, deviceDirty>>
      /\ UNCHANGED <<nextArg, arg, buffers, outputs, wrappersToDirty>>
  BY DEF DeviceStep, Execute, kernelVars, wrapperVars
<1>2. PICK n \in Nat \ {0} :
        /\ n = Len(pending[q]) /\ DOMAIN pending[q] = 1 .. n
        /\ Len(pending'[q]) = n - 1
        /\ \A p \in Queues \ {q} : pending'[p] = pending[p]
        /\ Head(pending[q]) = pending[q][1]
  BY <1>1, ExecuteElements DEF TypeOK
<1>3. PICK c \in Command : c = Head(pending[q]) /\ c = pending[q][1]
  BY <1>1, ExecuteElements DEF TypeOK
<1>4. SameParams /\ SameContent
  BY <1>1, RunParams DEF SameParams, SameContent, Content
<1>5. DefaultQueue \in Queues
  BY DeviceAssumption
<1>6. ASSUME busy.op = "download" => (Transferred' <=> Transferred) PROVE Call' = Call
  <2>1. CASE busy.op = "idle"
    <3>1. TransfersDone /\ TransfersDone'
      BY <1>1, <2>1 DEF NoLateTransfer, Idle, TypeOK, WrapperTypeOK, HostState
    <3> QED
      BY <1>1, <2>1, <3>1 DEF Call
  <2>2. CASE busy.op = "download"
    BY <1>1, <1>6, <2>2 DEF Call
  <2>3. CASE busy.op \notin {"idle", "download"}
    BY <1>1, <2>3 DEF Call
  <2> QED
    BY <2>1, <2>2, <2>3
<1>7. CASE c.op # "read"
  <2>1. UNCHANGED host
    BY <1>1, <1>3, <1>7 DEF Execute
  <2>2. ASSUME busy.op = "download" PROVE Transferred' <=> Transferred
    <3>1. CASE q # DefaultQueue
      BY <1>2, <1>5, <3>1 DEF Transferred
    <3>2. CASE q = DefaultQueue /\ n = 1
      <4>1. pending[q] # <<>> /\ pending[q][1] = Read(devicearray[busy.w], busy.w)
        BY <1>2, <2>2, <3>2 DEF Flags, Downloading
      <4> QED
        BY <1>3, <1>7, <4>1 DEF Read
    <3>3. CASE q = DefaultQueue /\ n # 1
      <4>1. Len(pending[q]) # 0 /\ Len(pending'[q]) # 0
        BY <1>2, <3>3
      <4>2. pending[q] # <<>> /\ pending'[q] # <<>>
        BY <4>1
      <4> QED
        BY <3>3, <4>2 DEF Transferred
    <3> QED
      BY <3>1, <3>2, <3>3
  <2>3. Call' = Call
    BY <1>6, <2>2
  <2> QED
    BY <1>1, <1>4, <2>1, <2>3, SyncSame
<1>8. CASE c.op = "read" /\ busy.op = "run" /\ q = busy.q
  <2>1. PICK k \in Kernels : busy.k = k
    BY <1>8, BusyRun DEF Running
  <2>2. Delivering
    BY <1>8, <2>1 DEF Delivering, WithinArity
  <2>3. PICK m \in DOMAIN outputs[busy.k], b \in Buffers, a \in Hosts :
          /\ m \notin busy.refused /\ a = outputs[busy.k][m].array
          /\ host' = [host EXCEPT ![a] = mem[b]] /\ mem[b] = busy.val
    BY <1>1, <1>3, <1>8, <2>2, DeviceReads
  <2>4. Call = [op |-> "run", k |-> k, val |-> busy.val]
    BY <1>8, <2>1 DEF Call
  <2>5. a \in Due(k)
    BY <1>8, <2>1, <2>3 DEF Due, Launched
  <2>6. host' = [host EXCEPT ![a] = Call.val]
    BY <2>3, <2>4
  <2>7. Call' = Call
    BY <1>6, <1>8
  <2> QED
    BY <1>1, <1>4, <2>4, <2>5, <2>6, <2>7, SyncDeliver
<1>9. CASE c.op = "read" /\ busy.op \in {"upload", "download"} /\ q = DefaultQueue
  <2>1. busy.op = "download" /\ n = 1
    <3>1. 1 \in DOMAIN pending[q] /\ pending[q][1].op = "read"
      BY <1>2, <1>3, <1>9
    <3>2. 1 = Len(pending[q]) /\ "read" = IF busy.op = "upload" THEN "write" ELSE "read"
      BY <1>9, <3>1 DEF LastTransfer
    <3> QED
      BY <1>2, <1>9, <3>2
  <2>2. PICK w \in Wrappers : w = busy.w
    BY <2>1 DEF TypeOK, WrapperTypeOK, HostState
  <2>3. c = Read(devicearray[w], w) /\ onDevice[w] /\ pending[DefaultQueue] # <<>>
    BY <1>2, <1>3, <1>9, <2>1, <2>2 DEF Flags, Downloading
  <2>4. c.array = w
    BY <2>3 DEF Read
  <2>5. host' = [host EXCEPT ![w] = mem[c.buf]]
    BY <1>1, <1>3, <1>9, <2>4 DEF Execute
  <2>6. pending'[DefaultQueue] = <<>>
    <3>1. pending'[q] \in Seq(Command)
      BY <1>1 DEF Execute, TypeOK, DeviceTypeOK
    <3>2. Len(pending'[q]) = 0
      BY <1>2, <2>1
    <3>3. pending'[q] = <<>>
      BY <3>1, <3>2
    <3> QED
      BY <1>9, <3>3
  <2>7. Flags'
    BY DeviceStepFlags
  <2>8. host'[w] = intended'[devicearray'[w]]
    BY <1>1, <2>1, <2>2, <2>6, <2>7 DEF Flags, Downloading
  <2>9. host' = [host EXCEPT ![w] = Content(w)]
    <3>1. w \in DOMAIN host
      BY WrapperAssumption DEF TypeOK, DeviceTypeOK
    <3>2. mem[c.buf] = Content(w)
      BY <1>1, <2>3, <2>5, <2>8, <3>1 DEF Content
    <3> QED
      BY <2>5, <3>2
  <2>10. /\ Call = [op |-> "download", w |-> w]
         /\ Call' = [op |-> "downloaded", w |-> w]
    BY <1>1, <2>1, <2>2, <2>3, <2>6 DEF Call, Transferred
  <2> QED
    BY <1>1, <1>4, <2>9, <2>10, SyncDownload
<1>10. ASSUME c.op = "read" PROVE Transferring(q)
  <2>1. ~NoTransfers(q)
    BY <1>2, <1>3, <1>10 DEF NoTransfers
  <2> QED
    BY <2>1 DEF OnlyTransferring
<1> QED
  BY <1>7, <1>8, <1>9, <1>10 DEF Transferring

-----------------------------------------------------------------------------
LEMMA NextSync ==
  ASSUME TypeOK, Ownership, Binds, Order, NoBare, Flags, OnlyTransferring, RefusedTried,
         Delivery, WithinArity, WithinArity', MarkedWritten, LastTransfer,
         NoLateTransfer, NoLateTransfer',
         Rule("keepBound"), Rule("freshArgs"), Rule("wholeWrapper"), Rule("withinArity"),
         [Next]_vars
  PROVE  SyncStep
<1>1. ASSUME NEW h \in Hosts, NEW v \in Val, Edit(h, v) PROVE SyncStep
  <2>1. /\ busy = Idle /\ UNCHANGED busy /\ host' = [host EXCEPT ![h] = v]
        /\ UNCHANGED <<intended, devicearray, onDevice, deviceDirty>>
        /\ UNCHANGED <<nextArg, arg, buffers, outputs, wrappersToDirty>>
    BY <1>1 DEF Edit, deviceVars, kernelVars
  <2>2. NoCall /\ NoCall' /\ busy.op # "run"
    BY <2>1, IdleCall DEF Idle
  <2>3. SameContent /\ SameParams
    BY <2>1, <2>2, KeepParams DEF SameContent, Content, Undisturbed
  <2> QED
    BY <2>1, <2>2, <2>3, SyncEdit
<1>2. CASE FinishCall
  <2>1. /\ busy = Idle /\ busy' = [op |-> "finish"] /\ busy.op # "run"
        /\ UNCHANGED <<host, intended, devicearray, onDevice, deviceDirty>>
        /\ UNCHANGED <<nextArg, arg, buffers, outputs, wrappersToDirty>>
    BY <1>2 DEF FinishCall, deviceVars, wrapperVars, kernelVars, Idle
  <2>2. NoCall /\ Call' = [op |-> "finish"]
    BY <2>1, IdleCall DEF Call
  <2>3. SameContent /\ SameParams
    BY <2>1, KeepParams DEF SameContent, Content, Undisturbed
  <2> QED
    BY <2>1, <2>2, <2>3, SyncFinish
<1>3. ASSUME NEW s \in Wrappers, NEW t \in Wrappers, CopyAllTo(s, t) PROVE SyncStep
  BY <1>3, WrapperAssumption, CopyToSync DEF CopyAllTo
<1>4. ASSUME NEW s \in Wrappers, NEW t \in Wrappers,
             NEW from \in Offsets, NEW to \in Offsets, NEW count \in Offsets,
             CopyTo(s, t, from, to, count)
      PROVE  SyncStep
  BY <1>4, CopyToSync DEF Offsets
<1>5. CASE UNCHANGED vars
  <2>1. /\ UNCHANGED <<host, intended, devicearray, onDevice, deviceDirty, busy, pending>>
        /\ UNCHANGED <<nextArg, arg, buffers, outputs, wrappersToDirty>>
    BY <1>5 DEF vars, deviceVars, wrapperVars, kernelVars
  <2>2. SameContent /\ SameParams
    BY <2>1, RunParams DEF SameContent, Content, SameParams
  <2>3. Call' = Call
    BY <2>1 DEF Call, Transferred, TransfersDone, Commands
  <2> QED
    BY <2>1, <2>2, <2>3, SyncSame
<1> QED
  BY <1>1, <1>2, <1>3, <1>4, <1>5, WrapperStepSync, KernelStepSync, ReturnsSync, DeviceStepSync
  DEF Next

(* README.md, "CLWrapper objects", as EasyCLSync states it: the client     *)
(* cannot tell that the device works behind its back.  A transfer carries, *)
(* and a launch is given, what is there when the client calls, however     *)
(* late the device gets to it; the results, and the flags, are there when  *)
(* the call returns; and no host array changes between two calls but by    *)
(* the client's own hand.                                                  *)
THEOREM ClientSeesSynchronous ==
  ASSUME Rule("keepBound"), Rule("freshArgs"), Rule("defaultQueue"), Rule("wholeWrapper"),
         Rule("withinArity"), Rule("fastAccepted")
  PROVE  Spec => SyncSpec
<1>1. Init => Sync!Init
  <2>1. ASSUME Init PROVE Sync!Init
    <3>1. /\ Call = [op |-> "none"]
          /\ \A k \in Kernels : Takes(k) = {} /\ Fed(k) = {} /\ Due(k) = {}
          /\ \A w \in Wrappers : Content(w) = Junk
      BY <2>1
      DEF Init, DeviceInit, WrapperInit, KernelInit, Idle, Call, TransfersDone, Commands,
          Takes, Fed, Due, Content
    <3> QED
      BY <2>1, <3>1
      DEF Init, DeviceInit, WrapperInit, KernelInit, Sync!Init, Sync!None, Sync!Data, Data
  <2> QED
    BY <2>1
<1>2. Init => WithinArity /\ MarkedWritten /\ LastTransfer
  BY WrapperAssumption DEF Init, WrapperInit, KernelInit, WithinArity, MarkedWritten,
                           LastTransfer, Idle
<1>3. TypeOK /\ WithinArity /\ [Next]_vars => WithinArity'
  BY NextWithinArity
<1>4. TypeOK /\ Binds /\ MarkedWritten /\ [Next]_vars => MarkedWritten'
  BY NextMarks
<1>5. TypeOK /\ OnlyTransferring /\ LastTransfer /\ [Next]_vars => LastTransfer'
  BY NextLast
<1>6. TypeOK /\ Ownership /\ Binds /\ Order /\ NoBare /\ Flags /\ OnlyTransferring
      /\ RefusedTried /\ Delivery /\ WithinArity /\ WithinArity' /\ MarkedWritten
      /\ LastTransfer /\ NoLateTransfer /\ NoLateTransfer' /\ [Next]_vars
        => [Sync!Next]_(Sync!vars)
  BY NextSync DEF SyncStep
<1> QED
  BY <1>1, <1>2, <1>3, <1>4, <1>5, <1>6, TypeCorrect, OwnersKeep, BindsCorrect, OrderCorrect,
     FlagsCorrect, DeliveryCorrect, TransfersAwaited, PTL
  DEF Spec, SyncSpec, Sync!Spec
=============================================================================
