--------------------------- MODULE EasyCLContext ----------------------------
(***************************************************************************)
(* An EasyCL object's command queues and its profiling (src/EasyCL.cpp):   *)
(* the queue it was constructed with, which setProfiling and gpu replace,  *)
(* the CLQueue objects over it or over queues of their own, and the kernel *)
(* events kept until dumpProfiling.  A handle is what clCreateCommandQueue *)
(* returned; one that was released may be returned again.                  *)
(***************************************************************************)
EXTENDS Integers, Sequences, FiniteSets

CONSTANTS Handles,   \* cl_command_queue handles
          NoHandle,  \* no queue, or a handle that was never a queue
          MaxEvents  \* bound: events kept for profiling

ASSUME ContextAssumption == NoHandle \notin Handles /\ MaxEvents \in Nat

VARIABLES state,         \* "none", "open", "empty" (no context) or "deleted"
          queue,         \* *queue
          default_queue, \* default_queue->queue
          queues,        \* handles of the CLQueue objects of newQueue
          live,          \* handles created and not released
          misused,       \* a queue was released, or used, that was not live
          profiledQueues,\* live handles created with profiling enabled
          profilingOn,
          events,        \* profilingEvents: was its queue a profiled one
          did            \* auxiliary: what the client has done, see Habits

vars == <<state, queue, default_queue, queues, live, misused, profiledQueues,
          profilingOn, events, did>>

(* What a client may do that some promise does not survive:                *)
(*   "byIndex"      construct EasyCL with EasyCL(gpu) or EasyCL()          *)
(*   "gpu"          call gpu()                                             *)
(*   "defaultQueue" run a kernel on default_queue, not on EasyCL::queue    *)
(*   "otherQueue"   run a kernel on a queue of newQueue while profiling    *)
Habits == {"byIndex", "gpu", "defaultQueue", "otherQueue"}
Does(habit) == did' = did \cup {habit}

TypeOK == /\ state \in {"none", "open", "empty", "deleted"}
          /\ queue \in Handles \cup {NoHandle}
          /\ default_queue \in Handles \cup {NoHandle}
          /\ queues \subseteq live
          /\ live \subseteq Handles
          /\ profiledQueues \subseteq live
          /\ misused \in BOOLEAN
          /\ profilingOn \in BOOLEAN
          /\ events \in Seq(BOOLEAN)
          /\ did \in SUBSET Habits

Fresh(h) == h \notin live

Init == /\ state = "none"
        /\ queue = NoHandle
        /\ default_queue = NoHandle
        /\ queues = {}
        /\ live = {}
        /\ misused = FALSE
        /\ profiledQueues = {}
        /\ profilingOn = FALSE
        /\ events = <<>>
        /\ did = {}

(* commonConstructor: context, queue, and default_queue over that queue.   *)
Create(h) == /\ state = "none" /\ Fresh(h)
             /\ state' = "open"
             /\ queue' = h
             /\ default_queue' = h
             /\ live' = live \cup {h}
             /\ profilingOn' = FALSE
             /\ UNCHANGED <<queues, misused, profiledQueues, events, did>>

(* The constructors that call init(): default_queue and profilingOn keep   *)
(* whatever the memory held.                                               *)
CreateByIndex(h) == /\ state = "none" /\ Fresh(h)
                    /\ Does("byIndex")
                    /\ state' = "open"
                    /\ queue' = h
                    /\ live' = live \cup {h}
                    /\ profilingOn' \in BOOLEAN
                    /\ UNCHANGED <<default_queue, queues, misused, profiledQueues, events>>

(* A CLQueue is made in the context of its EasyCL object.                  *)
NewQueue(h) == /\ state = "open" /\ Fresh(h)
               /\ queues' = queues \cup {h}
               /\ live' = live \cup {h}
               /\ UNCHANGED <<state, queue, default_queue, misused, profiledQueues,
                              profilingOn, events, did>>

(* Slip: a CLQueue whose queue is released is kept.                        *)
DeleteQueueKept(h) == /\ h \in queues
                      /\ live' = live \ {h}
                      /\ profiledQueues' = profiledQueues \ {h}
                      /\ misused' = (misused \/ h \notin live)
                      /\ UNCHANGED <<state, queue, default_queue, queues,
                                     profilingOn, events, did>>

(* ~CLQueue of a CLQueue the client owns.                                  *)
DeleteQueue(h) == /\ h \in queues
                  /\ queues' = queues \ {h}
                  /\ live' = live \ {h}
                  /\ profiledQueues' = profiledQueues \ {h}
                  /\ misused' = (misused \/ h \notin live)
                  /\ UNCHANGED <<state, queue, default_queue, profilingOn, events, did>>

(* Slip: the flag is set on the queue there is.                            *)
SetProfilingFlag(profiling, h) ==
  /\ state = "open"
  /\ queue # NoHandle
  /\ h = queue
  /\ profilingOn' = profiling
  /\ UNCHANGED <<state, queue, default_queue, queues, live, misused,
                 profiledQueues, events, did>>

(* setProfiling: wait for the queue, release it, create it again, perhaps  *)
(* under the same handle.  Waiting throws if there is no queue.            *)
SetProfiling(profiling, h) ==
  /\ state = "open"
  /\ queue # NoHandle
  /\ h = queue \/ Fresh(h)
  /\ queue' = h
  /\ live' = (live \ {queue}) \cup {h}
  /\ profiledQueues' = (profiledQueues \ {queue}) \cup (IF profiling THEN {h} ELSE {})
  /\ profilingOn' = profiling
  /\ misused' = (misused \/ queue \notin live)
  /\ UNCHANGED <<state, default_queue, queues, events, did>>

(* Slip: the old handle is kept when that fails.                           *)
SetProfilingFailsStale ==
  /\ state = "open"
  /\ queue # NoHandle
  /\ live' = live \ {queue}
  /\ profiledQueues' = profiledQueues \ {queue}
  /\ misused' = (misused \/ queue \notin live)
  /\ UNCHANGED <<state, queue, default_queue, queues, profilingOn, events, did>>

(* ... which may fail: the queue is gone, profilingOn as it was.           *)
SetProfilingFails ==
  /\ state = "open"
  /\ queue # NoHandle
  /\ queue' = NoHandle
  /\ live' = live \ {queue}
  /\ profiledQueues' = profiledQueues \ {queue}
  /\ misused' = (misused \/ queue \notin live)
  /\ UNCHANGED <<state, default_queue, queues, profilingOn, events, did>>

(* CLKernel::run on the queue h: with profiling on its event is kept.      *)
Run(h) ==
  /\ state = "open"
  /\ IF profilingOn THEN /\ Len(events) < MaxEvents
                         /\ events' = Append(events, h \in profiledQueues)
                    ELSE UNCHANGED events
  /\ misused' = (misused \/ h \notin live)
  /\ UNCHANGED <<state, queue, default_queue, queues, live, profiledQueues, profilingOn>>

(* On a queue that is not there clEnqueueNDRangeKernel fails and run       *)
(* throws.                                                                 *)
RunOnOwnQueue == /\ queue # NoHandle
                 /\ Run(queue)
                 /\ UNCHANGED did
RunOnDefaultQueue == /\ default_queue # NoHandle
                     /\ Run(default_queue)
                     /\ Does("defaultQueue")
RunOnNewQueue(h) == /\ h \in queues
                    /\ Run(h)
                    /\ IF profilingOn THEN Does("otherQueue") ELSE UNCHANGED did

(* dumpProfiling releases all the events it reports.                       *)
DumpProfiling == /\ state \in {"open", "empty"}
                 /\ events' = <<>>
                 /\ UNCHANGED <<state, queue, default_queue, queues, live, misused,
                                profiledQueues, profilingOn, did>>

(* Slip: the old queue is not released.                                    *)
GpuLeaking(h) == /\ state \in {"open", "empty"}
                 /\ h = queue \/ Fresh(h)
                 /\ state' = "open"
                 /\ queue' = h
                 /\ live' = live \cup {h}
                 /\ Does("gpu")
                 /\ UNCHANGED <<default_queue, queues, misused, profiledQueues,
                                profilingOn, events>>

(* gpu: release queue and context, and init() for another device.          *)
Gpu(h) == /\ state \in {"open", "empty"}
          /\ h = queue \/ Fresh(h)
          /\ state' = "open"
          /\ queue' = h
          /\ live' = (live \ {queue}) \cup {h}
          /\ profiledQueues' = profiledQueues \ {queue}
          /\ misused' = (misused \/ queue \notin live \cup {NoHandle})
          /\ Does("gpu")
          /\ UNCHANGED <<default_queue, queues, profilingOn, events>>

(* init() throws with no queue left: for want of a device or a context, or *)
(* when the queue cannot be created.                                       *)
GpuFails == /\ state \in {"open", "empty"}
            /\ state' \in {"open", "empty"}
            /\ queue' = NoHandle
            /\ live' = live \ {queue}
            /\ profiledQueues' = profiledQueues \ {queue}
            /\ misused' = (misused \/ queue \notin live \cup {NoHandle})
            /\ Does("gpu")
            /\ UNCHANGED <<default_queue, queues, profilingOn, events>>

(* ~EasyCL releases the events and the queue.                              *)
Delete == /\ state \in {"open", "empty"}
          /\ state' = "deleted"
          /\ live' = live \ {queue}
          /\ profiledQueues' = profiledQueues \ {queue}
          /\ misused' = (misused \/ queue \notin live \cup {NoHandle})
          /\ events' = <<>>
          /\ UNCHANGED <<queue, default_queue, queues, profilingOn, did>>

Next == \/ \E h \in Handles :
             \/ Create(h) \/ CreateByIndex(h) \/ NewQueue(h) \/ DeleteQueue(h)
             \/ RunOnNewQueue(h) \/ Gpu(h)
             \/ \E profiling \in BOOLEAN : SetProfiling(profiling, h)
        \/ SetProfilingFails \/ GpuFails
        \/ RunOnOwnQueue \/ RunOnDefaultQueue
        \/ DumpProfiling
        \/ Delete

Spec == Init /\ [][Next]_vars
-----------------------------------------------------------------------------
(* default_queue contains the queue in queue, whenever there is one         *)
(* (EasyCL.h:70, README.md:440); constructed by index it is not set at all. *)
DefaultQueueIsQueue ==
  state = "open" /\ queue # NoHandle /\ did = {} => default_queue = queue

(* Through all replacements of the queue, failed ones too, nothing is run  *)
(* on, and nothing released, that was released before, as long as the      *)
(* client leaves default_queue alone.                                      *)
NeverMisused == "defaultQueue" \notin did => ~misused

(* No queue leaks and none has two owners: the live ones are the EasyCL    *)
(* object's, until it is deleted, and those of the client.                 *)
OwnQueue == IF state = "open" THEN {queue} \ {NoHandle} ELSE {}
QueuesOwned == live = OwnQueue \cup queues /\ OwnQueue \cap queues = {}

(* dumpProfiling reports measured times: each event it asks for its start  *)
(* and end came from a queue with profiling enabled (README.md:277), for a *)
(* client with none of the habits above.                                   *)
EventsMeasured == did = {} => \A i \in DOMAIN events : events[i]
=============================================================================
