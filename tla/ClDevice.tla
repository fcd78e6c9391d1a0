------------------------------ MODULE ClDevice ------------------------------
(***************************************************************************)
(* The OpenCL side of EasyCL, which is not part of the repository: memory  *)
(* objects (cl_mem) and in-order command queues (cl_command_queue), as     *)
(* src/CLWrapper.cpp and src/CLKernel.cpp use them.  A queue runs its      *)
(* commands one at a time in the order they were enqueued, at any later    *)
(* moment; queues are not ordered with each other.                         *)
(*                                                                         *)
(* The content of an array or a buffer is one abstract value.  What a      *)
(* kernel computes is not interpreted: a launch is issued with the value   *)
(* its result has in program order, and the device produces that value     *)
(* when it finds every input as it was in program order and Junk when it   *)
(* does not.  Junk is also the content of memory nothing has written.      *)
(***************************************************************************)
EXTENDS Integers, Sequences

CONSTANTS Hosts,        \* host arrays, those of wrappers included
          Buffers,      \* cl_mem handles
          NoBuffer,     \* the value of a cl_mem that was never created
          Queues,       \* command queues
          DefaultQueue, \* the one in EasyCL::queue
          Val, Junk,    \* meaningful contents, and the other one
          MaxPending    \* bound: commands waiting in one queue

ASSUME DeviceAssumption == /\ DefaultQueue \in Queues
                           /\ Junk \notin Val
                           /\ NoBuffer \notin Buffers
                           /\ MaxPending \in Nat \ {0}

VARIABLES host,     \* host[h]: content of a host array
          mem,      \* mem[b]: content of a buffer on the device
          live,     \* buffers created and not released
          pending,  \* pending[q]: commands enqueued on q and not executed
          intended  \* auxiliary: content of a buffer in program order, that
                    \* is, once everything issued so far has executed

deviceVars == <<mem, live, pending, intended>>

Data == Val \cup {Junk}

(* The three kinds of command.  A copy between buffers is a "compute".     *)
Compute(reads, writes, val) ==
  [op |-> "compute", reads |-> reads, writes |-> writes, val |-> val]
Write(b, h) == [op |-> "write", buf |-> b, array |-> h]
Read(b, h)  == [op |-> "read", buf |-> b, array |-> h]

Command == [op : {"compute"}, reads : SUBSET (Buffers \X Data),
            writes : SUBSET Buffers, val : Data]
           \cup [op : {"write", "read"}, buf : Buffers, array : Hosts]

DeviceTypeOK == /\ host \in [Hosts -> Data]
                /\ mem \in [Buffers -> Data]
                /\ live \in SUBSET Buffers
                /\ pending \in [Queues -> Seq(Command)]
                /\ intended \in [Buffers -> Data]

DeviceInit == /\ host \in [Hosts -> Data]
              /\ mem = [b \in Buffers |-> Junk]
              /\ live = {}
              /\ pending = [q \in Queues |-> <<>>]
              /\ intended = [b \in Buffers |-> Junk]

Uses(c) == IF c.op = "compute" THEN c.writes \cup {r[1] : r \in c.reads}
                               ELSE {c.buf}
Writes(c) == IF c.op = "compute" THEN c.writes
             ELSE IF c.op = "write" THEN {c.buf} ELSE {}

Commands(q) == {pending[q][i] : i \in DOMAIN pending[q]}

(* Buffers some enqueued command still refers to: the runtime keeps them   *)
(* until the command is done, released or not.                             *)
InFlight == UNION {UNION {Uses(c) : c \in Commands(q)} : q \in Queues}

(* Room for n more commands under the bound.                               *)
Room(q, n) == Len(pending[q]) + n <= MaxPending

Enqueue(q, cmds) == pending' = [pending EXCEPT ![q] = @ \o cmds]

(* Content of the buffers bs becomes v in program order.                   *)
Intend(bs, v) ==
  intended' = [b \in Buffers |-> IF b \in bs THEN v ELSE intended[b]]

(* clCreateBuffer: b is a handle in use nowhere, holding v.                *)
Create(b, v) == /\ live' = live \cup {b}
                /\ mem' = [mem EXCEPT ![b] = v]

(* The content the compute command c leaves in the buffers it writes.      *)
Result(c) == IF \A r \in c.reads : mem[r[1]] = r[2] THEN c.val ELSE Junk

(* The device executes the oldest command of queue q.                      *)
Execute(q) ==
  /\ pending[q] # <<>>
  /\ LET c == Head(pending[q])
     IN  \/ /\ c.op = "compute"
            /\ mem' = [b \in Buffers |-> IF b \in c.writes THEN Result(c)
                                                           ELSE mem[b]]
            /\ UNCHANGED host
         \/ /\ c.op = "write"
            /\ mem' = [mem EXCEPT ![c.buf] = host[c.array]]
            /\ UNCHANGED host
         \/ /\ c.op = "read"
            /\ host' = [host EXCEPT ![c.array] = mem[c.buf]]
            /\ UNCHANGED mem
  /\ pending' = [pending EXCEPT ![q] = Tail(@)]
  /\ UNCHANGED <<live, intended>>
=============================================================================
