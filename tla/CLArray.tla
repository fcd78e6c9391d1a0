------------------------------- MODULE CLArray ------------------------------
(***************************************************************************)
(* CLArrayFloat and CLArrayInt (src/CLArray.h, src/CLArrayFloat.h,         *)
(* src/CLArrayInt.h): arrays that move between host and device by          *)
(* themselves, when a kernel takes them and when the client looks at an    *)
(* element, composed with the kernels and queues of CLKernel.              *)
(*                                                                         *)
(* A failed assert() ends the program and is no action.                    *)
(***************************************************************************)
EXTENDS CLKernel

CONSTANTS Arrays,    \* CLArray objects; each is also its host array
          IntArrays, \* those that are CLArrayInt
          Managed    \* those the client leaves to EasyCL: it uses operator[],
                     \* createOnHost and kernels, moves nothing by hand, and
                     \* leaves an array it has passed alone until the run

ASSUME ArrayAssumption == /\ Arrays \subseteq Hosts \ Wrappers
                          /\ IntArrays \subseteq Arrays
                          /\ Managed \subseteq Arrays

VARIABLES arrayOnHost,   \* onHost
          arrayOnDevice, \* onDevice
          arrayBuffer,   \* devicearray
          content        \* auxiliary: what the array holds for the client

places == <<arrayOnHost, arrayOnDevice, arrayBuffer>>
arrayVars == <<places, content>>

ByHand(a) == a \notin Managed
Held(a) == arrayOnDevice[a] /\ \E k \in Kernels : \E i \in Passed(k) :
                                 arg[k][i].buf = arrayBuffer[a]
Free(a) == busy = Idle /\ (ByHand(a) \/ ~Held(a))

(* Device content in program order.                                        *)
Intended(a) == intended[arrayBuffer[a]]
Hold(a, v) == content' = [content EXCEPT ![a] = v]

OnHost(a, yes) == arrayOnHost' = [arrayOnHost EXCEPT ![a] = yes]
OnDevice(a, yes) == arrayOnDevice' = [arrayOnDevice EXCEPT ![a] = yes]

CreateOnHost(a) ==
  /\ busy = Idle
  /\ ~arrayOnHost[a] /\ ~arrayOnDevice[a]
  /\ host' = [host EXCEPT ![a] = Junk]
  /\ OnHost(a, TRUE)
  /\ Hold(a, Junk)
  /\ UNCHANGED <<deviceVars, wrapperVars, kernelVars, busy, arrayOnDevice, arrayBuffer>>

(* A buffer with content v becomes the array's.                            *)
Allocate(a, b, v) == /\ Create(b, v) /\ Intend({b}, v)
                     /\ arrayBuffer' = [arrayBuffer EXCEPT ![a] = b]
                     /\ OnDevice(a, TRUE)

ArrayCreateOnDevice(a) ==
  /\ ByHand(a) /\ busy = Idle
  /\ ~arrayOnHost[a] /\ ~arrayOnDevice[a]
  /\ \E b \in FreeBuffers : Allocate(a, b, Junk)
  /\ UNCHANGED <<host, pending, wrapperVars, kernelVars, busy, arrayOnHost, content>>

(* copyToDevice, and moveToDevice or getDeviceArray.                       *)
ArrayToDevice(a, move) ==
  /\ ByHand(a) /\ busy = Idle
  /\ arrayOnHost[a] /\ ~arrayOnDevice[a]
  /\ \E b \in FreeBuffers : Allocate(a, b, host[a])
  /\ OnHost(a, ~move)
  /\ UNCHANGED <<host, pending, wrapperVars, kernelVars, busy, content>>

(* copyToHost, or moveToHost, up to the blocking read: the host array is   *)
(* there from now on.                                                      *)
Fetch(a, move) ==
  /\ Free(a)
  /\ arrayOnDevice[a]
  /\ Room(DefaultQueue, 1)
  /\ Enqueue(DefaultQueue, <<Read(arrayBuffer[a], a)>>)
  /\ host' = IF arrayOnHost[a] THEN host ELSE [host EXCEPT ![a] = Junk]
  /\ OnHost(a, TRUE)
  /\ busy' = [op |-> "fetch", a |-> a, move |-> move]
  /\ UNCHANGED <<mem, live, intended, wrapperVars, kernelVars, arrayOnDevice, arrayBuffer>>

ArrayToHost(a, move) == ByHand(a) /\ Fetch(a, move) /\ Hold(a, Intended(a))

(* Slip: the device copy of a CLArrayFloat stays.                          *)
MovesOnAccessNever(a) == FALSE
(* operator[] of a CLArrayFloat moves, that of a CLArrayInt copies.        *)
MovesOnAccess(a) == a \notin IntArrays

(* operator[] of an array that is not on the host.                         *)
Index(a) ==
  \/ /\ ~arrayOnHost[a] /\ arrayOnDevice[a]
     /\ Fetch(a, MovesOnAccess(a))
     /\ UNCHANGED content
  \/ a \notin IntArrays /\ CreateOnHost(a)

(* Slip: the array still says it is on the device.                         *)
ReleaseStays(a) == live' = live \ {arrayBuffer[a]} /\ UNCHANGED arrayOnDevice
Release(a) == live' = live \ {arrayBuffer[a]} /\ OnDevice(a, FALSE)

FetchReturns ==
  /\ busy.op = "fetch"
  /\ pending[DefaultQueue] = <<>>
  /\ IF busy.move THEN Release(busy.a) ELSE UNCHANGED <<live, arrayOnDevice>>
  /\ busy' = Idle
  /\ UNCHANGED <<host, mem, pending, intended, wrapperVars, kernelVars,
                 arrayOnHost, arrayBuffer, content>>

(* The read is refused: nothing was moved, but the host array was made.    *)
(* Not looked at for arrays left to EasyCL: operator[] then throws, and    *)
(* what the array holds is lost.                                           *)
FetchFails(a) ==
  /\ ByHand(a) /\ Free(a)
  /\ arrayOnDevice[a] /\ ~arrayOnHost[a]
  /\ host' = [host EXCEPT ![a] = Junk]
  /\ OnHost(a, TRUE)
  /\ UNCHANGED <<deviceVars, wrapperVars, kernelVars, busy, arrayOnDevice,
                 arrayBuffer, content>>

(* The client assigns to an element, through what operator[] returned.     *)
Assign(a, v) ==
  /\ busy = Idle
  /\ arrayOnHost[a]
  /\ host' = [host EXCEPT ![a] = v]
  /\ Hold(a, v)
  /\ UNCHANGED <<deviceVars, wrapperVars, kernelVars, busy, places>>

DeleteFromHost(a) ==
  /\ ByHand(a) /\ busy = Idle
  /\ arrayOnHost[a]
  /\ OnHost(a, FALSE)
  /\ Hold(a, IF arrayOnDevice[a] THEN Intended(a) ELSE Junk)
  /\ UNCHANGED <<host, deviceVars, wrapperVars, kernelVars, busy, arrayOnDevice, arrayBuffer>>

ArrayDeleteFromDevice(a) ==
  /\ ByHand(a) /\ Free(a)
  /\ arrayOnDevice[a]
  /\ Release(a)
  /\ Hold(a, IF arrayOnHost[a] THEN host[a] ELSE Junk)
  /\ UNCHANGED <<host, mem, pending, intended, wrapperVars, kernelVars, busy,
                 arrayOnHost, arrayBuffer>>

(* clSetKernelArg; when it refuses the parameter the call throws, whatever *)
(* has been moved.                                                         *)
Pass(k, use, b) == IF Accepts(k) THEN SetArg(k, use, b) /\ NextArg(k)
                                 ELSE UNCHANGED <<arg, nextArg>>

(* Slip: the host array stays.                                             *)
TakenKeepingHost(a) == UNCHANGED arrayOnHost
(* A kernel takes the array: what it holds from now on is on the device.   *)
Taken(a) == OnHost(a, FALSE)

(* input and inout: the array is moved to the device.                      *)
InputTaken(k, use, a) ==
  /\ Passing(k)
  /\ \/ /\ arrayOnDevice[a]
        /\ Pass(k, use, arrayBuffer[a])
        /\ UNCHANGED <<mem, live, intended, arrayOnDevice, arrayBuffer>>
     \/ /\ arrayOnHost[a] /\ ~arrayOnDevice[a]
        /\ \E b \in FreeBuffers : Allocate(a, b, host[a]) /\ Pass(k, use, b)
  /\ Taken(a)
  /\ UNCHANGED <<host, pending, wrapperVars, buffers, outputs, wrappersToDirty,
                 busy, content>>

(* output: what was on the host only is given up.                          *)
OutputTaken(k, a) ==
  /\ Passing(k)
  /\ \/ /\ arrayOnDevice[a]
        /\ Pass(k, "out", arrayBuffer[a])
        /\ Hold(a, Intended(a))
        /\ UNCHANGED <<mem, live, intended, arrayOnDevice, arrayBuffer>>
     \/ /\ ~arrayOnDevice[a]
        /\ \E b \in FreeBuffers : Allocate(a, b, Junk) /\ Pass(k, "out", b)
        /\ Hold(a, Junk)
  /\ Taken(a)
  /\ UNCHANGED <<host, pending, wrapperVars, buffers, outputs, wrappersToDirty, busy>>

(* run(): the arrays the kernel writes hold its result.                    *)
ArrayRun(k, q, fast_read) ==
  /\ Run(k, q, fast_read)
  /\ content' = [a \in Arrays |->
       IF arrayOnDevice[a] /\ arrayBuffer[a] \in WrittenBy(k) THEN busy'.val ELSE content[a]]
  /\ UNCHANGED places

(* Slip: the device copy is not released.                                  *)
DestroyArrayLeaking(a) ==
  /\ Free(a)
  /\ UNCHANGED live
  /\ OnDevice(a, FALSE) /\ OnHost(a, FALSE) /\ Hold(a, Junk)
  /\ UNCHANGED <<host, mem, pending, intended, wrapperVars, kernelVars, busy, arrayBuffer>>

(* The destructors; another array of the same type takes its place.        *)
DestroyArray(a) ==
  /\ Free(a)
  /\ live' = IF arrayOnDevice[a] THEN live \ {arrayBuffer[a]} ELSE live
  /\ OnDevice(a, FALSE) /\ OnHost(a, FALSE) /\ Hold(a, Junk)
  /\ UNCHANGED <<host, mem, pending, intended, wrapperVars, kernelVars, busy, arrayBuffer>>

Init == /\ DeviceInit /\ WrapperInit /\ KernelInit
        /\ arrayOnHost = [a \in Arrays |-> FALSE]
        /\ arrayOnDevice = [a \in Arrays |-> FALSE]
        /\ arrayBuffer = [a \in Arrays |-> NoBuffer]
        /\ content = [a \in Arrays |-> Junk]

ArrayStep(a) ==
  \/ CreateOnHost(a) \/ ArrayCreateOnDevice(a) \/ Index(a) \/ FetchFails(a)
  \/ DeleteFromHost(a) \/ ArrayDeleteFromDevice(a) \/ DestroyArray(a)
  \/ \E move \in BOOLEAN : ArrayToDevice(a, move) \/ ArrayToHost(a, move)
  \/ \E v \in Val : Assign(a, v)
  \/ \E k \in Kernels : OutputTaken(k, a) \/ \E use \in {"in", "inout"} : InputTaken(k, use, a)

Next == \/ \E a \in Arrays : ArrayStep(a)
        \/ \E k \in Kernels, q \in Queues, fast_read \in BOOLEAN : ArrayRun(k, q, fast_read)
        \/ FetchReturns
        \/ RunReturns /\ UNCHANGED arrayVars
        \/ \E q \in Queues : Execute(q) /\ UNCHANGED <<wrapperVars, kernelVars, busy, arrayVars>>

Spec == Init /\ [][Next]_<<vars, arrayVars>>
-----------------------------------------------------------------------------
ArrayState == [op : {"fetch"}, a : Arrays, move : BOOLEAN]
TypeOK == /\ DeviceTypeOK
          /\ KernelTypeOK
          /\ busy \in HostState \cup ArrayState
          /\ arrayOnHost \in [Arrays -> BOOLEAN]
          /\ arrayOnDevice \in [Arrays -> BOOLEAN]
          /\ arrayBuffer \in [Arrays -> Buffers \cup {NoBuffer}]
          /\ \A a \in Arrays : arrayOnDevice[a] => arrayBuffer[a] \in live
          /\ content \in [Arrays -> Data]

(* An element of an array left to EasyCL, read through operator[], is the *)
(* one last assigned or the result of the last run that wrote the array    *)
(* (README.md:225).                                                        *)
ElementsCurrent ==
  busy = Idle => \A a \in Managed :
    arrayOnHost[a] /\ content[a] \in Val => host[a] = content[a]

(* A kernel that takes such an array gets what the client put there:       *)
(* nothing assigned is lost on the way to the device (README.md:215).      *)
DeviceCurrent ==
  busy = Idle => \A a \in Managed :
    arrayOnDevice[a] /\ ~arrayOnHost[a] /\ content[a] \in Val => Intended(a) = content[a]

(* Wherever the arrays have been, each buffer belongs to one of them and   *)
(* none leaks.                                                             *)
ArraysOwnBuffers ==
  /\ live = {arrayBuffer[a] : a \in {x \in Arrays : arrayOnDevice[x]}}
  /\ \A a, c \in Arrays : /\ a # c /\ arrayOnDevice[a] /\ arrayOnDevice[c]
                          => arrayBuffer[a] # arrayBuffer[c]
=============================================================================
