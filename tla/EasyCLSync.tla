----------------------------- MODULE EasyCLSync -----------------------------
(***************************************************************************)
(* What EasyCL promises a program that uses wrappers and kernels on one    *)
(* queue: the program cannot tell that the device works behind its back.   *)
(* A wrapper has a host content, a device content and a flag that says the *)
(* device one was updated since it was last copied to the host.  A call    *)
(* has its whole effect between the moment it is made and the moment it    *)
(* returns, and between two calls nothing changes but what the program     *)
(* itself writes into its arrays (README.md, "CLWrapper objects").         *)
(*                                                                         *)
(* There is no device queue here, and no buffer: a transfer copies, and a  *)
(* launch computes, what is there when the program calls.                  *)
(***************************************************************************)
EXTENDS Naturals

CONSTANTS Hosts, Wrappers, Kernels, Size, Val, Junk

VARIABLES host,   \* content of the host arrays
          dev,    \* content of the wrappers on the device
          onDevice, deviceDirty,
          call,   \* the call the program is in
          takes,  \* takes[k]: wrappers passed to k for it to read
          fed,    \* fed[k]: contents of the plain arrays passed to k for it
                  \* to read, when they were passed
          makes,  \* makes[k]: wrappers passed to k for it to write
          due     \* due[k]: plain arrays the run of k is to fill

parameters == <<takes, fed, makes, due>>
vars == <<host, dev, onDevice, deviceDirty, call, parameters>>

Data == Val \cup {Junk}
None == [op |-> "none"]

Init == /\ host \in [Hosts -> Data]
        /\ dev = [w \in Wrappers |-> Junk]
        /\ onDevice = [w \in Wrappers |-> FALSE]
        /\ deviceDirty = [w \in Wrappers |-> FALSE]
        /\ call = None
        /\ takes = [k \in Kernels |-> {}]
        /\ fed = [k \in Kernels |-> {}]
        /\ makes = [k \in Kernels |-> {}]
        /\ due = [k \in Kernels |-> {}]

(* The program writes into an array: no call is in progress.               *)
Edit(h, v) == /\ call = None
              /\ host' = [host EXCEPT ![h] = v]
              /\ UNCHANGED <<dev, onDevice, deviceDirty, call, parameters>>

(* A device copy is made if there is none, and its flag is clear.          *)
Placed(w) == /\ onDevice' = [onDevice EXCEPT ![w] = TRUE]
             /\ deviceDirty' = [deviceDirty EXCEPT ![w] = @ /\ onDevice[w]]

CreateOnDevice(w) == /\ call = None
                     /\ ~onDevice[w]
                     /\ Placed(w)
                     /\ UNCHANGED <<host, dev, call, parameters>>

CopyToDevice(w) == /\ call = None
                   /\ Placed(w)
                   /\ dev' = [dev EXCEPT ![w] = host[w]]
                   /\ call' = [op |-> "upload", w |-> w]
                   /\ UNCHANGED <<host, parameters>>

CopyToHost(w) == /\ call = None
                 /\ onDevice[w]
                 /\ call' = [op |-> "download", w |-> w]
                 /\ UNCHANGED <<host, dev, onDevice, deviceDirty, parameters>>
Download == /\ call.op = "download"
            /\ host' = [host EXCEPT ![call.w] = dev[call.w]]
            /\ call' = [op |-> "downloaded", w |-> call.w]
            /\ UNCHANGED <<dev, onDevice, deviceDirty, parameters>>

(* A copy returns when it has been done, and the two sides agree.          *)
CopyReturns == /\ call.op \in {"upload", "downloaded"}
               /\ deviceDirty' = [deviceDirty EXCEPT ![call.w] = FALSE]
               /\ call' = None
               /\ UNCHANGED <<host, dev, onDevice, parameters>>
CopyThrows == /\ call.op = "downloaded"
              /\ call' = None
              /\ UNCHANGED <<host, dev, onDevice, deviceDirty, parameters>>

(* A wrapper leaves the device, or is replaced by a new one: not while a   *)
(* kernel it was passed to has yet to run.                                 *)
Remove(w) == /\ call = None
             /\ \A k \in Kernels : w \notin takes[k] \cup makes[k]
             /\ onDevice' = [onDevice EXCEPT ![w] = FALSE]
             /\ dev' = [dev EXCEPT ![w] = Junk]
             /\ deviceDirty' = [deviceDirty EXCEPT ![w] = FALSE]
             /\ UNCHANGED <<host, call, parameters>>

Mark(w) == /\ call = None
           /\ deviceDirty' = [deviceDirty EXCEPT ![w] = TRUE]
           /\ UNCHANGED <<host, dev, onDevice, call, parameters>>

(* What t holds after count elements of s were copied there: all of s; or  *)
(* something meaningful, if the part of s and the part of t that stays are.*)
Copied(s, t, count) ==
  IF count = Size[s] /\ count = Size[t] THEN {dev[s]}
  ELSE IF dev[s] \in Val /\ (count = Size[t] \/ dev[t] \in Val) THEN Val
  ELSE {Junk}

CopyTo(s, t, count) ==
  /\ call = None
  /\ onDevice[s] /\ onDevice[t]
  /\ count <= Size[s] /\ count <= Size[t]
  /\ \E v \in Copied(s, t, count) : dev' = [dev EXCEPT ![t] = v]
  /\ deviceDirty' = [deviceDirty EXCEPT ![t] = TRUE]
  /\ UNCHANGED <<host, onDevice, call, parameters>>

(* S with x, if p.                                                         *)
With(S, x, p) == IF p THEN S \cup {x} ELSE S

(* The parameters of kernel k: a wrapper, placed on the device if it is    *)
(* only to be written, or a plain array, of which the kernel gets what it  *)
(* holds now.                                                              *)
PassWrapper(k, w, use) ==
  /\ call = None
  /\ onDevice[w] \/ use = "out"
  /\ Placed(w)
  /\ takes' = [takes EXCEPT ![k] = With(@, w, use # "out")]
  /\ makes' = [makes EXCEPT ![k] = With(@, w, use # "in")]
  /\ UNCHANGED <<host, dev, call, fed, due>>

PassArray(k, h, use) ==
  /\ call = None
  /\ fed' = [fed EXCEPT ![k] = With(@, host[h], use # "out")]
  /\ due' = [due EXCEPT ![k] = With(@, h, use # "in")]
  /\ UNCHANGED <<host, dev, onDevice, deviceDirty, call, takes, makes>>

(* A new kernel has no parameters.                                         *)
Rebuild(k) == /\ call = None
              /\ takes' = [takes EXCEPT ![k] = {}]
              /\ fed' = [fed EXCEPT ![k] = {}]
              /\ makes' = [makes EXCEPT ![k] = {}]
              /\ due' = [due EXCEPT ![k] = {}]
              /\ UNCHANGED <<host, dev, onDevice, deviceDirty, call>>

(* A kernel computes something meaningful if all it is given is, and Junk  *)
(* if not.                                                                 *)
Computes(k) == IF fed[k] \cup {dev[w] : w \in takes[k]} \subseteq Val
               THEN Val ELSE {Junk}

Run(k) ==
  /\ call = None
  /\ \E v \in Computes(k) :
       /\ dev' = [w \in Wrappers |-> IF w \in makes[k] THEN v ELSE dev[w]]
       /\ call' = [op |-> "run", k |-> k, val |-> v]
  /\ takes' = [takes EXCEPT ![k] = {}]
  /\ fed' = [fed EXCEPT ![k] = {}]
  /\ UNCHANGED <<host, onDevice, deviceDirty, makes, due>>

(* run() puts its result into plain arrays of the program, but for those   *)
(* OpenCL refuses to read.                                                 *)
Deliver(h) == /\ call.op = "run"
              /\ h \in due[call.k]
              /\ host' = [host EXCEPT ![h] = call.val]
              /\ UNCHANGED <<dev, onDevice, deviceDirty, call, parameters>>
Refuse(h) == /\ call.op = "run"
             /\ due' = [due EXCEPT ![call.k] = @ \ {h}]
             /\ UNCHANGED <<host, dev, onDevice, deviceDirty, call, takes, fed, makes>>

(* It returns when all of them have the result; what it wrote is dirty.    *)
RunReturns ==
  /\ call.op = "run"
  /\ \A h \in due[call.k] : host[h] = call.val
  /\ deviceDirty' = [w \in Wrappers |-> deviceDirty[w] \/ w \in makes[call.k]]
  /\ makes' = [makes EXCEPT ![call.k] = {}]
  /\ due' = [due EXCEPT ![call.k] = {}]
  /\ call' = None
  /\ UNCHANGED <<host, dev, onDevice, takes, fed>>

(* finish() has nothing to do.                                             *)
Finish == /\ call = None
          /\ call' = [op |-> "finish"]
          /\ UNCHANGED <<host, dev, onDevice, deviceDirty, parameters>>
FinishReturns == /\ call.op = "finish"
                 /\ call' = None
                 /\ UNCHANGED <<host, dev, onDevice, deviceDirty, parameters>>

WrapperStep(w) == \/ CreateOnDevice(w) \/ CopyToDevice(w) \/ CopyToHost(w)
                  \/ Remove(w) \/ Mark(w)

KernelStep(k) ==
  \/ Rebuild(k) \/ Run(k)
  \/ \E use \in {"in", "out", "inout"} :
       \/ \E w \in Wrappers : PassWrapper(k, w, use)
       \/ \E h \in Hosts : PassArray(k, h, use)

Next == \/ \E h \in Hosts, v \in Val : Edit(h, v)
        \/ \E w \in Wrappers : WrapperStep(w)
        \/ \E s, t \in Wrappers : \E count \in 1 .. Size[s] : CopyTo(s, t, count)
        \/ \E k \in Kernels : KernelStep(k)
        \/ Download \/ CopyReturns \/ CopyThrows
        \/ \E h \in Hosts : Deliver(h) \/ Refuse(h)
        \/ RunReturns \/ Finish \/ FinishReturns

Spec == Init /\ [][Next]_vars
=============================================================================
