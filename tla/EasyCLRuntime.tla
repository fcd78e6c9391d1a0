--------------------------- MODULE EasyCLRuntime ----------------------------
(***************************************************************************)
(* EasyCL at work: one host thread that uses wrappers, kernels and queues, *)
(* and the device that executes what it enqueued behind its back.          *)
(***************************************************************************)
EXTENDS CLKernel

(* EasyCL::finish() waits for the default queue, and only for that one.    *)
FinishCall == /\ busy = Idle
              /\ busy' = [op |-> "finish"]
              /\ UNCHANGED <<host, deviceVars, wrapperVars, kernelVars>>
FinishReturns == /\ busy.op = "finish"
                 /\ pending[DefaultQueue] = <<>>
                 /\ busy' = Idle
                 /\ UNCHANGED <<host, deviceVars, wrapperVars, kernelVars>>

(* The device works while the host does whatever it does.                  *)
DeviceStep(q) == Execute(q) /\ UNCHANGED <<wrapperVars, kernelVars, busy>>

Init == DeviceInit /\ WrapperInit /\ KernelInit

WrapperStep(w) == \/ CreateOnDevice(w) \/ CopyToDevice(w) \/ CopyToDeviceFails(w)
                  \/ CopyToHost(w) \/ DeleteFromDevice(w) \/ Destroy(w)
                  \/ ClientMarksDirty(w)

KernelStep(k) ==
  \/ InputValue(k) \/ DestroyKernel(k)
  \/ \E w \in Wrappers : \/ Input(k, w) \/ Inout(k, w) \/ InoutBuffer(k, w)
                         \/ OutputWrapper(k, w) \/ OutputWrapperFails(k, w)
  \/ \E h \in Hosts \ Wrappers : \/ InputArray(k, h) \/ InputArrayFails(k, h)
                                 \/ OutputArray(k, h) \/ InoutArray(k, h)
  \/ \E q \in Queues, fast_read \in BOOLEAN : Run(k, q, fast_read)

Returns == \/ CopyToDeviceReturns \/ CopyToHostReturns \/ CopyToHostThrows
           \/ RunReads \/ RunReadRefused \/ RunReturns \/ FinishReturns

(* Offsets and counts for copyTo, from the offset zero, which is too small *)
(* for a count, to the count of a whole array, too large for an offset.    *)
(* Negative ones would only be refused (CopyAccepted).                     *)
MaxSize == CHOOSE n \in {Size[w] : w \in Wrappers} : \A w \in Wrappers : Size[w] <= n
Offsets == 0 .. MaxSize

Next == \/ \E h \in Hosts, v \in Val : Edit(h, v)
        \/ \E w \in Wrappers : WrapperStep(w)
        \/ \E s, t \in Wrappers : CopyAllTo(s, t)
        \/ \E s, t \in Wrappers : \E from, to, count \in Offsets :
             CopyTo(s, t, from, to, count)
        \/ \E k \in Kernels : KernelStep(k)
        \/ FinishCall
        \/ Returns
        \/ \E q \in Queues : DeviceStep(q)

Spec == Init /\ [][Next]_vars

(* The driver runs what was enqueued, and a blocking call returns once     *)
(* what it waits for is done.  The client need not call anything.          *)
FairSpec == Spec /\ WF_vars(Returns) /\ \A q \in Queues : WF_vars(DeviceStep(q))

-----------------------------------------------------------------------------
TypeOK == DeviceTypeOK /\ WrapperTypeOK /\ KernelTypeOK

(* The device dirty flag of README.md: in a wrapper whose flag is clear,   *)
(* and that the client has not edited itself, the host array holds what    *)
(* the device array holds once all that was issued has run.  (A device     *)
(* array that holds nothing meaningful has nothing to copy.)               *)
CleanMeansSeen ==
  busy = Idle =>
    \A w \in Wrappers :
      onDevice[w] /\ ~deviceDirty[w] /\ w \notin edited
      /\ intended[devicearray[w]] \in Val
        => host[w] = intended[devicearray[w]]

(* Once no enqueued command writes a buffer it holds what program order    *)
(* says: no launch or copy has read an array too early or too late, none   *)
(* was overtaken.                                                          *)
ProgramOrder ==
  \A b \in live : (\A q \in Queues : \A c \in Commands(q) : b \notin Writes(c))
                    => mem[b] = intended[b]

(* Every live buffer has one owner: a wrapper that is on the device, or a  *)
(* kernel that will release it after its run.  None leaks, none is shared. *)
OnDevice == {w \in Wrappers : onDevice[w]}
OneOwner ==
  /\ live = {devicearray[w] : w \in OnDevice} \cup UNION {buffers[k] : k \in Kernels}
  /\ \A w \in OnDevice : \A k \in Kernels : devicearray[w] \notin buffers[k]
  /\ \A v, w \in OnDevice : devicearray[v] = devicearray[w] => v = w
  /\ \A j, k \in Kernels : j # k => buffers[j] \cap buffers[k] = {}

(* A parameter passed since the last run names a buffer that still exists  *)
(* when the kernel is launched.                                            *)
ArgsAlive == \A k \in Kernels : \A i \in Passed(k) :
               arg[k][i].use # "value" => arg[k][i].buf \in live

(* A dirty flag speaks about a device copy that exists (CLWrapper.h:24).   *)
DirtyOnDevice == \A w \in Wrappers : deviceDirty[w] => onDevice[w]

(* When no call is in progress the device is not going to touch any host   *)
(* array: run() has waited for every read it enqueued, one that was        *)
(* refused before or after notwithstanding (fast_read: under fastAccepted).*)
TransfersDone == \A q \in Queues : \A c \in Commands(q) : c.op = "compute"
NoLateTransfer == busy = Idle => TransfersDone

(* When run() returns, each array passed with out(N, data) or              *)
(* inout(N, data) whose read was not refused holds what the kernel just    *)
(* computed, unless more parameters were passed than the kernel has:       *)
(* output(N, data) does not notice, and reads back a buffer nothing wrote. *)
OutputsDelivered ==
  [][RunReturns /\ nextArg[busy.k] <= Arity[busy.k] =>
       \A i \in DOMAIN outputs[busy.k] \ busy.refused :
         host[outputs[busy.k][i].array] = busy.val]_vars

(* A kernel's run leaves no wrapper it was passed to write both clean and  *)
(* on the device; that it wrote the bare buffer of one it cannot know.     *)
WrittenMeansDirty ==
  [][RunReturns => \A w \in OnDevice :
                     devicearray[w] \in PassedAs(busy.k, {"out", "inout"})
                       => deviceDirty'[w]]_vars

(* Every call returns.                                                     *)
CallsReturn == busy # Idle ~> busy = Idle

-----------------------------------------------------------------------------
(* The client sees a synchronous device, EasyCLSync: no host array changes *)
(* between two calls but by the client, each transfer carries, and each    *)
(* launch is given, what is there when the client calls, plain arrays have *)
(* the result when run() returns, and a flag changes as the call it speaks *)
(* of returns.                                                             *)
(*                                                                         *)
(* Device content is content in program order.  While a transfer is still  *)
(* to be executed though the client is in no call, the call is one that    *)
(* EasyCLSync does not know.                                               *)
Content(w) == IF onDevice[w] THEN intended[devicearray[w]] ELSE Junk
Call ==
  CASE busy.op = "idle" -> [op |-> IF TransfersDone THEN "none" ELSE "transferring"]
    [] busy.op = "download" ->
         [op |-> IF Transferred THEN "downloaded" ELSE "download", w |-> busy.w]
    [] busy.op = "run" -> [op |-> "run", k |-> busy.k, val |-> busy.val]
    [] OTHER -> busy

(* The parameters passed for kernel k to read, until it is launched, and   *)
(* the arrays it is to fill, but for those refused.                        *)
Launched(k) == busy.op = "run" /\ busy.k = k
PassedIn(k) == {arg[k][i].buf : i \in {j \in Passed(k) : arg[k][j].use \in {"in", "inout"}}}
Takes(k) == {w \in Wrappers : ~Launched(k) /\ onDevice[w] /\ devicearray[w] \in PassedIn(k)}
Fed(k) == {intended[b] : b \in {c \in buffers[k] : ~Launched(k) /\ c \in PassedIn(k)}}
Due(k) == {outputs[k][i].array :
             i \in {j \in DOMAIN outputs[k] : ~(Launched(k) /\ j \in busy.refused)}}

Sync == INSTANCE EasyCLSync WITH
          dev <- [w \in Wrappers |-> Content(w)],
          call <- Call,
          takes <- [k \in Kernels |-> Takes(k)],
          fed <- [k \in Kernels |-> Fed(k)],
          makes <- wrappersToDirty,
          due <- [k \in Kernels |-> Due(k)]

SyncSpec == Sync!Spec
=============================================================================
