--------------------------- MODULE Context_proofs ---------------------------
(***************************************************************************)
(* Theorems about EasyCLContext, for every set of queue handles and every  *)
(* number of events.                                                       *)
(***************************************************************************)
EXTENDS EasyCLContext, TLAPS

(* While profiling is on, a client without bad habits has a queue that was *)
(* created with profiling, or none at all.                                 *)
ProfilingMeansProfiled ==
  did = {} /\ profilingOn /\ OwnQueue # {} => queue \in profiledQueues

(* The invariant that every step keeps: ownership is what shows that the   *)
(* queue an EasyCL object holds is a live one, and that deleting a CLQueue *)
(* never takes it away.                                                    *)
Inv == /\ TypeOK
       /\ QueuesOwned
       /\ NeverMisused
       /\ EventsMeasured
       /\ ProfilingMeansProfiled
       /\ state = "empty" => queue = NoHandle
       /\ state = "none" => did = {} /\ ~profilingOn

(* Keeping one more event keeps them a sequence, and measured if they all  *)
(* were and the new one is.                                                *)
LEMMA AppendEvent ==
  ASSUME events \in Seq(BOOLEAN), NEW b \in BOOLEAN, events' = Append(events, b)
  PROVE  /\ events' \in Seq(BOOLEAN)
         /\ (\A i \in DOMAIN events : events[i]) /\ b => \A i \in DOMAIN events' : events'[i]
<1>1. /\ events' \in Seq(BOOLEAN)
      /\ Len(events') = Len(events) + 1
      /\ \A i \in 1 .. Len(events) : events'[i] = events[i]
      /\ events'[Len(events) + 1] = b
  OBVIOUS
<1>2. /\ DOMAIN events = 1 .. Len(events)
      /\ DOMAIN events' = 1 .. Len(events')
      /\ Len(events) \in Nat
  BY <1>1
<1> QED
  BY <1>1, <1>2

(* No events at all.                                                       *)
LEMMA NoEvents ==
  ASSUME events' = <<>>
  PROVE  events' \in Seq(BOOLEAN) /\ EventsMeasured'
BY DEF EventsMeasured

(* The state before any constructor.                                       *)
LEMMA InitInv == Init => Inv
<1> SUFFICES ASSUME Init PROVE Inv
  OBVIOUS
<1>1. events \in Seq(BOOLEAN) /\ DOMAIN events = {}
  BY DEF Init
<1>2. TypeOK
  BY <1>1 DEF Init, TypeOK
<1> QED
  BY <1>1, <1>2 DEF Init, Inv, QueuesOwned, OwnQueue, NeverMisused,
              EventsMeasured, ProfilingMeansProfiled

(* A queue that the EasyCL object holds is live.                           *)
LEMMA OwnIsLive ==
  ASSUME Inv, state \in {"open", "empty"}
  PROVE  queue \in live \cup {NoHandle}
BY DEF Inv, QueuesOwned, OwnQueue

(* The constructors.                                                       *)
LEMMA CreateInv ==
  ASSUME Inv, NEW h \in Handles, Create(h) \/ CreateByIndex(h)
  PROVE  Inv'
<1>1. NoHandle \notin Handles
  BY ContextAssumption
<1>2. CASE Create(h)
  BY <1>1, <1>2 DEF Create, Fresh, Inv, TypeOK, QueuesOwned, OwnQueue, NeverMisused,
                    EventsMeasured, ProfilingMeansProfiled
<1>3. CASE CreateByIndex(h)
  BY <1>1, <1>3 DEF CreateByIndex, Fresh, Does, Habits, Inv, TypeOK, QueuesOwned,
                    OwnQueue, NeverMisused, EventsMeasured, ProfilingMeansProfiled
<1> QED
  BY <1>2, <1>3

(* A CLQueue is made, and deleted.                                         *)
LEMMA ClientQueueInv ==
  ASSUME Inv, NEW h \in Handles, NewQueue(h) \/ DeleteQueue(h)
  PROVE  Inv'
<1>1. CASE NewQueue(h)
  BY <1>1 DEF NewQueue, Fresh, Inv, TypeOK, QueuesOwned, OwnQueue, NeverMisused,
              EventsMeasured, ProfilingMeansProfiled
<1>2. CASE DeleteQueue(h)
  BY <1>2 DEF DeleteQueue, Inv, TypeOK, QueuesOwned, OwnQueue, NeverMisused,
              EventsMeasured, ProfilingMeansProfiled
<1> QED
  BY <1>1, <1>2

(* The queue is replaced by setProfiling.                                  *)
LEMMA SetProfilingInv ==
  ASSUME Inv, NEW h \in Handles, NEW profiling \in BOOLEAN, SetProfiling(profiling, h)
  PROVE  Inv'
<1>1. queue \in live /\ NoHandle \notin Handles
  BY OwnIsLive, ContextAssumption DEF SetProfiling
<1> QED
  BY <1>1 DEF SetProfiling, Fresh, Inv, TypeOK, QueuesOwned, OwnQueue,
              NeverMisused, EventsMeasured, ProfilingMeansProfiled

(* setProfiling loses the queue.                                           *)
LEMMA SetProfilingFailsInv ==
  ASSUME Inv, SetProfilingFails
  PROVE  Inv'
<1>1. queue \in live /\ NoHandle \notin Handles
  BY OwnIsLive, ContextAssumption DEF SetProfilingFails
<1> QED
  BY <1>1 DEF SetProfilingFails, Inv, TypeOK, QueuesOwned, OwnQueue,
              NeverMisused, EventsMeasured, ProfilingMeansProfiled

(* The queue is replaced by gpu().                                         *)
LEMMA GpuInv ==
  ASSUME Inv, NEW h \in Handles, Gpu(h)
  PROVE  Inv'
<1>1. queue \in live \cup {NoHandle} /\ NoHandle \notin Handles
  BY OwnIsLive, ContextAssumption DEF Gpu
<1> QED
  BY <1>1 DEF Gpu, Fresh, Does, Habits, Inv, TypeOK, QueuesOwned, OwnQueue,
              NeverMisused, EventsMeasured, ProfilingMeansProfiled

(* gpu() loses it.                                                         *)
LEMMA GpuFailsInv ==
  ASSUME Inv, GpuFails
  PROVE  Inv'
<1>1. queue \in live \cup {NoHandle} /\ NoHandle \notin Handles
  BY OwnIsLive, ContextAssumption DEF GpuFails
<1> QED
  BY <1>1 DEF GpuFails, Does, Habits, Inv, TypeOK, QueuesOwned, OwnQueue,
              NeverMisused, EventsMeasured, ProfilingMeansProfiled

(* What a run on any queue does: it changes the events and what is known   *)
(* of misuse, and nothing else but did.                                    *)
LEMMA RunInv ==
  ASSUME Inv, NEW h \in Handles, Run(h),
         did' \in SUBSET Habits, did \subseteq did',
         "defaultQueue" \notin did' => h \in live,
         did' = {} /\ profilingOn => h \in profiledQueues
  PROVE  Inv'
<1> DEFINE b == h \in profiledQueues
<1>1. /\ events' = events \/ (profilingOn /\ events' = Append(events, b))
      /\ misused' = (misused \/ h \notin live)
      /\ UNCHANGED <<state, queue, default_queue, queues, live, profiledQueues, profilingOn>>
      /\ state = "open"
  BY DEF Run
<1>2. events \in Seq(BOOLEAN) /\ b \in BOOLEAN /\ misused \in BOOLEAN
  BY DEF Inv, TypeOK
<1>3. events' \in Seq(BOOLEAN)
  BY <1>1, <1>2, AppendEvent
<1>4. EventsMeasured'
  <2>1. CASE events' = events
    BY <2>1 DEF Inv, EventsMeasured
  <2>2. CASE profilingOn /\ events' = Append(events, b)
    BY <2>2, <1>2, AppendEvent DEF Inv, EventsMeasured
  <2> QED
    BY <1>1, <2>1, <2>2
<1>5. TypeOK'
  BY <1>1, <1>2, <1>3 DEF Inv, TypeOK
<1>6. NeverMisused'
  BY <1>1 DEF Inv, NeverMisused
<1> QED
  BY <1>1, <1>4, <1>5, <1>6 DEF Inv, QueuesOwned, OwnQueue, ProfilingMeansProfiled

(* Kernels are run on EasyCL::queue.                                       *)
LEMMA RunOnOwnQueueInv ==
  ASSUME Inv, RunOnOwnQueue
  PROVE  Inv'
<1>1. /\ queue \in Handles /\ queue \in live /\ did' = did
      /\ queue # NoHandle /\ Run(queue)
  BY OwnIsLive DEF RunOnOwnQueue, Run, Inv, TypeOK
<1>2. did' = {} /\ profilingOn => queue \in profiledQueues
  BY <1>1 DEF Run, Inv, ProfilingMeansProfiled, OwnQueue
<1> QED
  BY <1>1, <1>2, RunInv DEF Inv, TypeOK

(* On default_queue, which may be no queue any more.                       *)
LEMMA RunOnDefaultQueueInv ==
  ASSUME Inv, RunOnDefaultQueue
  PROVE  Inv'
<1>1. /\ default_queue \in Handles /\ Run(default_queue)
      /\ did' = did \cup {"defaultQueue"}
  BY DEF RunOnDefaultQueue, Does, Inv, TypeOK
<1> QED
  BY <1>1, RunInv DEF Habits, Inv, TypeOK

(* On a queue of the client's.                                             *)
LEMMA RunOnNewQueueInv ==
  ASSUME Inv, NEW h \in Handles, RunOnNewQueue(h)
  PROVE  Inv'
<1>1. /\ h \in live /\ Run(h)
      /\ did' = IF profilingOn THEN did \cup {"otherQueue"} ELSE did
  BY DEF RunOnNewQueue, Does, Inv, TypeOK
<1> QED
  BY <1>1, RunInv DEF Habits, Inv, TypeOK

(* The events are reported, and everything is released.                    *)
LEMMA EndInv ==
  ASSUME Inv, DumpProfiling \/ Delete
  PROVE  Inv'
<1>1. CASE DumpProfiling
  BY <1>1, NoEvents DEF DumpProfiling, Inv, TypeOK, QueuesOwned, OwnQueue, NeverMisused,
                        ProfilingMeansProfiled
<1>2. CASE Delete
  <2>1. queue \in live \cup {NoHandle}
    BY <1>2, OwnIsLive DEF Delete
  <2> QED
    BY <1>2, <2>1, NoEvents, ContextAssumption
    DEF Delete, Inv, TypeOK, QueuesOwned, OwnQueue, NeverMisused, ProfilingMeansProfiled
<1> QED
  BY <1>1, <1>2

-----------------------------------------------------------------------------
(* Every step keeps the invariant.                                         *)
LEMMA NextInv ==
  ASSUME Inv, [Next]_vars
  PROVE  Inv'
<1>1. ASSUME NEW h \in Handles, Create(h) \/ CreateByIndex(h) PROVE Inv'
  BY <1>1, CreateInv
<1>2. ASSUME NEW h \in Handles, NewQueue(h) \/ DeleteQueue(h) PROVE Inv'
  BY <1>2, ClientQueueInv
<1>3. ASSUME NEW h \in Handles, NEW profiling \in BOOLEAN, SetProfiling(profiling, h)
      PROVE Inv'
  BY <1>3, SetProfilingInv
<1>4. CASE SetProfilingFails
  BY <1>4, SetProfilingFailsInv
<1>5. ASSUME NEW h \in Handles, Gpu(h) PROVE Inv'
  BY <1>5, GpuInv
<1>6. CASE GpuFails
  BY <1>6, GpuFailsInv
<1>7. CASE RunOnOwnQueue \/ RunOnDefaultQueue
  BY <1>7, RunOnOwnQueueInv, RunOnDefaultQueueInv
<1>8. ASSUME NEW h \in Handles, RunOnNewQueue(h) PROVE Inv'
  BY <1>8, RunOnNewQueueInv
<1>9. CASE DumpProfiling \/ Delete
  BY <1>9, EndInv
<1>10. CASE UNCHANGED vars
  BY <1>10 DEF vars, Inv, TypeOK, QueuesOwned, OwnQueue, NeverMisused,
               EventsMeasured, ProfilingMeansProfiled
<1> QED
  BY <1>1, <1>2, <1>3, <1>4, <1>5, <1>6, <1>7, <1>8, <1>9, <1>10 DEF Next

(* The queues, their owners and the events are what the invariant says.    *)
LEMMA InvCorrect == Spec => []Inv
<1>1. Inv /\ [Next]_vars => Inv'
  BY NextInv
<1> QED
  BY <1>1, InitInv, PTL DEF Spec

(* Queue handles, the live and the profiled ones, profilingOn and the kept *)
(* events stay well formed (EasyCL::queue, CLQueue::queue,                 *)
(* EasyCL::profilingEvents).                                               *)
THEOREM ContextTypeCorrect == Spec => []TypeOK
<1>1. Inv => TypeOK
  BY DEF Inv
<1> QED
  BY <1>1, InvCorrect, PTL

(* However often setProfiling and gpu() replace the queue, failing or not, *)
(* no command queue leaks and none is owned twice.                         *)
THEOREM NoQueueLeaks == Spec => []QueuesOwned
<1>1. Inv => QueuesOwned
  BY DEF Inv
<1> QED
  BY <1>1, InvCorrect, PTL

(* A client that leaves default_queue alone never has a released queue     *)
(* used or released again on its behalf.                                   *)
THEOREM NoQueueMisused == Spec => []NeverMisused
<1>1. Inv => NeverMisused
  BY DEF Inv
<1> QED
  BY <1>1, InvCorrect, PTL

(* What dumpProfiling reports was measured, for a client that constructs   *)
(* EasyCL with a device, does not call gpu() and runs its kernels on       *)
(* EasyCL::queue while profiling.                                          *)
THEOREM ProfilesAreMeasured == Spec => []EventsMeasured
<1>1. Inv => EventsMeasured
  BY DEF Inv
<1> QED
  BY <1>1, InvCorrect, PTL
=============================================================================
