----------------------------- MODULE CLWrapper ------------------------------
(***************************************************************************)
(* CLWrapper (src/CLWrapper.cpp): a host array and its mirror on the       *)
(* device.  The host is one thread; `busy' says which blocking call it is  *)
(* in.  An operation that throws before it has changed anything is not an  *)
(* action; one that throws after a change is an action named ...Fails.     *)
(* clCreateBuffer failing (no FreeBuffer), or a transfer being refused on  *)
(* a wrapper already on the device, changes nothing.                       *)
(***************************************************************************)
EXTENDS ClDevice

CONSTANTS Wrappers,      \* CLWrapper objects; each is also its host array
          ConstWrappers, \* those over a const host array
          Kernels,       \* CLKernel objects
          Arity,         \* Arity[k]: number of parameters of kernel k
          Size,          \* Size[w]: number of elements
          ElementSize,   \* ElementSize[w]
          Rules          \* the rules the client program keeps to, see Rule

ASSUME WrapperAssumption == /\ Wrappers \subseteq Hosts
                            /\ ConstWrappers \subseteq Wrappers
                            /\ Arity \in [Kernels -> Nat]
                            /\ Size \in [Wrappers -> Nat \ {0}]
                            /\ ElementSize \in [Wrappers -> Nat \ {0}]

VARIABLES devicearray,     \* devicearray[w]: the wrapper's cl_mem
          onDevice,        \* onDevice[w]
          deviceDirty,     \* deviceDirty[w]
          edited,          \* auxiliary: wrappers whose host array the client
                           \* has written since the last copy either way
          nextArg,         \* nextArg[k]: next parameter to be set
          arg,             \* arg[k][i]: what parameter i was last set to
          buffers,         \* buffers[k]: temporary buffers of plain arrays
          outputs,         \* outputs[k]: plain arrays to read back, in order
          wrappersToDirty, \* wrappersToDirty[k]
          busy             \* the call the host thread is in

wrapperVars == <<devicearray, onDevice, deviceDirty, edited>>
kernelVars  == <<nextArg, arg, buffers, outputs, wrappersToDirty>>
vars == <<host, deviceVars, wrapperVars, kernelVars, busy>>

Idle == [op |-> "idle"]
HostState == [op : {"idle", "finish"}]
             \cup [op : {"upload", "download"}, w : Wrappers]
             \cup [op : {"run"}, k : Kernels, q : Queues, val : Data,
                   fast : BOOLEAN, next : Nat \ {0}, refused : SUBSET (Nat \ {0})]

(* Rule(r): the client program keeps to rule r.                            *)
(*   "freshArgs"    every parameter is passed again before each run        *)
(*   "withinArity"  no more parameters are passed than the kernel has      *)
(*   "keepBound"    a wrapper stays on the device from the moment it is    *)
(*                  passed to a kernel until the run that uses it          *)
(*   "defaultQueue" wrappers are used on the default queue only            *)
(*   "runPassed"    a kernel is not deleted between the passing of a plain *)
(*                  array and its run                                      *)
(*   "wholeWrapper" a kernel is passed wrappers, never the bare buffer of  *)
(*                  one                                                    *)
(*   "markOnDevice" a wrapper is marked dirty by the client only while it  *)
(*                  is on the device                                       *)
(* One is not the client's:                                                *)
(*   "fastAccepted" OpenCL refuses none of the reads of a fast_read        *)
Rule(r) == r \in Rules

(* Parameters passed since the last run.                                   *)
Passed(k) == {i \in DOMAIN arg[k] : i < nextArg[k]}

(* Handles clCreateBuffer may return: it may return one that was released, *)
(* even while a parameter of a kernel still names it.                      *)
FreeBuffers == Buffers \ (live \cup InFlight)

(* A run may still use the wrapper's device copy.                          *)
Bound(w) ==
  /\ onDevice[w]
  /\ \E k \in Kernels :
       \/ w \in wrappersToDirty[k]
       \/ \E i \in IF Rule("freshArgs") THEN Passed(k) ELSE DOMAIN arg[k] :
            arg[k][i].buf = devicearray[w]

WrapperTypeOK == /\ devicearray \in [Wrappers -> Buffers \cup {NoBuffer}]
                 /\ onDevice \in [Wrappers -> BOOLEAN]
                 /\ \A w \in Wrappers : onDevice[w] => devicearray[w] \in Buffers
                 /\ deviceDirty \in [Wrappers -> BOOLEAN]
                 /\ edited \in SUBSET Wrappers
                 /\ busy \in HostState

WrapperInit == /\ devicearray = [w \in Wrappers |-> NoBuffer]
               /\ onDevice = [w \in Wrappers |-> FALSE]
               /\ deviceDirty = [w \in Wrappers |-> FALSE]
               /\ edited = {}
               /\ busy = Idle

(* The client writes v into one of its arrays.                             *)
Edit(h, v) == /\ busy = Idle
              /\ host' = [host EXCEPT ![h] = v]
              /\ edited' = edited \cup ({h} \cap Wrappers)
              /\ UNCHANGED <<deviceVars, devicearray, onDevice, deviceDirty,
                             kernelVars, busy>>

(* Slip: the new handle is not kept.                                       *)
AttachUnkept(w, b) == /\ Create(b, Junk)
                      /\ onDevice' = [onDevice EXCEPT ![w] = TRUE]
                      /\ deviceDirty' = [deviceDirty EXCEPT ![w] = FALSE]
                      /\ UNCHANGED devicearray

(* What createOnDevice does to the wrapper, the new buffer being b.        *)
Attach(w, b) == /\ Create(b, Junk)
                /\ devicearray' = [devicearray EXCEPT ![w] = b]
                /\ onDevice' = [onDevice EXCEPT ![w] = TRUE]
                /\ deviceDirty' = [deviceDirty EXCEPT ![w] = FALSE]

CreateOnDevice(w) ==
  /\ busy = Idle
  /\ ~onDevice[w]
  /\ \E b \in FreeBuffers : Attach(w, b) /\ Intend({b}, Junk)
  /\ UNCHANGED <<host, pending, edited, kernelVars, busy>>

(* copyToDevice up to the blocking write, on the way to which the buffer   *)
(* is created if there is none.                                            *)
CopyToDevice(w) ==
  /\ busy = Idle
  /\ Room(DefaultQueue, 1)
  /\ \/ /\ onDevice[w]
        /\ Intend({devicearray[w]}, host[w])
        /\ Enqueue(DefaultQueue, <<Write(devicearray[w], w)>>)
        /\ UNCHANGED <<mem, live, devicearray, onDevice, deviceDirty>>
     \/ /\ ~onDevice[w]
        /\ \E b \in FreeBuffers :
             /\ Attach(w, b)
             /\ Intend({b}, host[w])
             /\ Enqueue(DefaultQueue, <<Write(b, w)>>)
  /\ busy' = [op |-> "upload", w |-> w]
  /\ UNCHANGED <<host, edited, kernelVars>>

(* The write is refused after the buffer was created: the exception leaves *)
(* the wrapper on the device, with nothing written there.                  *)
CopyToDeviceFails(w) == CreateOnDevice(w)

(* Slip: transfers are enqueued and not waited for.                        *)
TransferEnqueued == TRUE

(* The blocking read or write of the default queue is done.                *)
Transferred == pending[DefaultQueue] = <<>>

CopyToDeviceReturns ==
  /\ busy.op = "upload"
  /\ Transferred
  /\ deviceDirty' = [deviceDirty EXCEPT ![busy.w] = FALSE]
  /\ edited' = edited \ {busy.w}
  /\ busy' = Idle
  /\ UNCHANGED <<host, deviceVars, devicearray, onDevice, kernelVars>>

(* copyToHost up to the blocking read.  A wrapper over a const array has   *)
(* no host array to read into and throws.                                  *)
CopyToHost(w) ==
  /\ busy = Idle
  /\ onDevice[w]
  /\ w \notin ConstWrappers
  /\ Room(DefaultQueue, 1)
  /\ Enqueue(DefaultQueue, <<Read(devicearray[w], w)>>)
  /\ busy' = [op |-> "download", w |-> w]
  /\ UNCHANGED <<host, mem, live, intended, wrapperVars, kernelVars>>

CopyToHostReturns ==
  /\ busy.op = "download"
  /\ Transferred
  /\ deviceDirty' = [deviceDirty EXCEPT ![busy.w] = FALSE]
  /\ edited' = edited \ {busy.w}
  /\ busy' = Idle
  /\ UNCHANGED <<host, deviceVars, devicearray, onDevice, kernelVars>>

(* The array was read, but clWaitForEvents reports an error: the exception *)
(* leaves the flag as it was.                                              *)
CopyToHostThrows ==
  /\ busy.op = "download"
  /\ Transferred
  /\ busy' = Idle
  /\ UNCHANGED <<host, deviceVars, wrapperVars, kernelVars>>

(* Slip: the dirty flag survives.                                          *)
DetachDirty(w) == /\ live' = live \ {devicearray[w]}
                  /\ onDevice' = [onDevice EXCEPT ![w] = FALSE]
                  /\ UNCHANGED deviceDirty

(* Release the device copy and clear both flags.                           *)
Detach(w) == /\ live' = live \ {devicearray[w]}
             /\ onDevice' = [onDevice EXCEPT ![w] = FALSE]
             /\ deviceDirty' = [deviceDirty EXCEPT ![w] = FALSE]

DeleteFromDevice(w) ==
  /\ busy = Idle
  /\ onDevice[w]
  /\ Rule("keepBound") => ~Bound(w)
  /\ Detach(w)
  /\ UNCHANGED <<host, mem, pending, intended, devicearray, edited, kernelVars, busy>>

(* What clEnqueueCopyBuffer accepts: unsigned offsets, a positive count,   *)
(* no overlap within one buffer.                                           *)
CopyAccepted(s, t, from, to, count) ==
  /\ from >= 0 /\ to >= 0 /\ count > 0
  /\ s = t => from + count <= to \/ to + count <= from

(* The content of t after count elements of s, or all of them, are copied  *)
(* over a part of it, or all of it.                                        *)
Blends(s, t, count) ==
  LET vs == intended[devicearray[s]]  vt == intended[devicearray[t]]
  IN  IF count = Size[t] /\ count = Size[s] THEN {vs}
      ELSE IF vs = Junk \/ (count < Size[t] /\ vt = Junk) THEN {Junk}
      ELSE Val

(* clEnqueueCopyBuffer: reads s, and t too when a part of it stays.        *)
EnqueueCopy(s, t, count) ==
  LET bs == devicearray[s]
      bt == devicearray[t]
      read == IF count = Size[t] THEN {bs} ELSE {bs, bt}
  IN  \E v \in Blends(s, t, count) :
        /\ Enqueue(DefaultQueue,
                   <<Compute({<<b, intended[b]>> : b \in read}, {bt}, v)>>)
        /\ Intend({bt}, v)

(* Slip: the call does nothing.                                            *)
MarkDeviceDirtyNot(w) == UNCHANGED deviceDirty

MarkDeviceDirty(w) == deviceDirty' = [deviceDirty EXCEPT ![w] = TRUE]

(* markDeviceDirty() called by the client.  The method does not ask        *)
(* whether there is a device copy the flag could speak of.                 *)
ClientMarksDirty(w) == /\ busy = Idle
                       /\ Rule("markOnDevice") => onDevice[w]
                       /\ MarkDeviceDirty(w)
                       /\ UNCHANGED <<host, deviceVars, devicearray, onDevice,
                                      edited, kernelVars, busy>>

(* copyTo(target, srcOffset, dstOffset, count): the copy is enqueued and   *)
(* not waited for, the target is marked dirty at once.                     *)
CopyTo(s, t, from, to, count) ==
  /\ busy = Idle
  /\ onDevice[s] /\ onDevice[t]
  /\ from + count <= Size[s]
  /\ to + count <= Size[t]
  /\ ElementSize[s] = ElementSize[t]
  /\ CopyAccepted(s, t, from, to, count)
  /\ Room(DefaultQueue, 1)
  /\ EnqueueCopy(s, t, count)
  /\ MarkDeviceDirty(t)
  /\ UNCHANGED <<host, mem, live, devicearray, onDevice, edited, kernelVars, busy>>

(* copyTo(target)                                                          *)
CopyAllTo(s, t) == Size[s] = Size[t] /\ CopyTo(s, t, 0, 0, Size[s])

(* The destructor; the object is then constructed again over the same      *)
(* host array.                                                             *)
Destroy(w) ==
  /\ busy = Idle
  /\ Rule("keepBound") => ~Bound(w)
  /\ IF onDevice[w] THEN Detach(w)
     ELSE /\ deviceDirty' = [deviceDirty EXCEPT ![w] = FALSE]
          /\ UNCHANGED <<live, onDevice>>
  /\ devicearray' = [devicearray EXCEPT ![w] = NoBuffer]
  /\ edited' = edited \ {w}
  /\ UNCHANGED <<host, mem, pending, intended, kernelVars, busy>>
=============================================================================
