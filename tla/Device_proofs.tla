--------------------------- MODULE Device_proofs ----------------------------
(***************************************************************************)
(* The queues and buffers of ClDevice: what is added to a queue finds the  *)
(* buffers as they are in program order, and leaves them so, as long as    *)
(* queues share no buffer and arrays being uploaded are left alone.        *)
(***************************************************************************)
EXTENDS ClDevice, SequenceTheorems, TLAPS

(* Enqueuing a well-formed sequence of commands keeps the queues well      *)
(* formed.                                                                 *)
LEMMA EnqueueType ==
  ASSUME NEW q \in Queues, NEW cmds \in Seq(Command),
         pending \in [Queues -> Seq(Command)], Enqueue(q, cmds)
  PROVE  pending' \in [Queues -> Seq(Command)]
<1>1. pending[q] \o cmds \in Seq(Command)
  OBVIOUS
<1> QED
  BY <1>1 DEF Enqueue

(* A single command makes a sequence of commands.                          *)
LEMMA OneCommand ==
  ASSUME NEW c \in Command
  PROVE  <<c>> \in Seq(Command)
OBVIOUS

(* Intending data for some buffers keeps `intended' a function to data.    *)
LEMMA IntendType ==
  ASSUME NEW bs, NEW v \in Data, intended \in [Buffers -> Data], Intend(bs, v)
  PROVE  intended' \in [Buffers -> Data]
BY DEF Intend

(* The device keeps memory, host arrays and queues well formed.            *)
LEMMA ExecuteType ==
  ASSUME DeviceTypeOK, NEW q \in Queues, Execute(q)
  PROVE  DeviceTypeOK'
<1> DEFINE c == Head(pending[q])
<1>1. /\ pending[q] \in Seq(Command) /\ pending[q] # <<>>
  BY DEF DeviceTypeOK, Execute
<1>2. /\ c \in Command
      /\ Tail(pending[q]) \in Seq(Command)
  BY <1>1
<1>3. pending' \in [Queues -> Seq(Command)]
  BY <1>2 DEF DeviceTypeOK, Execute
<1>4. live' \in SUBSET Buffers /\ intended' \in [Buffers -> Data]
  BY DEF DeviceTypeOK, Execute
<1>5. mem' \in [Buffers -> Data] /\ host' \in [Hosts -> Data]
  <2>1. CASE c.op = "compute"
    <3>1. c.val \in Data
      BY <1>2, <2>1 DEF Command
    <3>2. Result(c) \in Data
      BY <3>1 DEF Result, Data
    <3> QED
      BY <3>2, <2>1 DEF Execute, DeviceTypeOK
  <2>2. CASE c.op = "write"
    <3>1. c.array \in Hosts /\ c.buf \in Buffers
      BY <1>2, <2>2 DEF Command
    <3> QED
      BY <3>1, <2>2 DEF Execute, DeviceTypeOK
  <2>3. CASE c.op = "read"
    <3>1. c.array \in Hosts /\ c.buf \in Buffers
      BY <1>2, <2>3 DEF Command
    <3> QED
      BY <3>1, <2>3 DEF Execute, DeviceTypeOK
  <2> QED
    BY <2>1, <2>2, <2>3 DEF Execute
<1> QED
  BY <1>3, <1>4, <1>5 DEF DeviceTypeOK

-----------------------------------------------------------------------------
(* Buffers the commands of queue q refer to.                               *)
Used(q) == UNION {Uses(c) : c \in Commands(q)}
Writer(q, i, b) == b \in Writes(pending[q][i])

(* What a command leaves in the buffers it writes, if all goes well.       *)
Leaves(c) == IF c.op = "compute" THEN c.val ELSE host[c.array]

(* Command i of queue q, or one enqueued next, will find v in buffer b: it *)
(* is what the last command before it leaves there, or what is there now.  *)
Finds(q, i, b, v) ==
  /\ (\A j \in DOMAIN pending[q] : j < i => ~Writer(q, j, b)) => mem[b] = v
  /\ \A j \in DOMAIN pending[q] :
       /\ j < i /\ Writer(q, j, b)
       /\ \A m \in DOMAIN pending[q] : j < m /\ m < i => ~Writer(q, m, b)
       => Leaves(pending[q][j]) = v

(* Two queues have nothing to do with each other.                          *)
Separate == \A p, q \in Queues : p # q => Used(p) \cap Used(q) = {}

(* A launch or copy will find all its inputs as they are in program order. *)
InOrder == \A q \in Queues : \A i \in DOMAIN pending[q] :
             pending[q][i].op = "compute" =>
               \A r \in pending[q][i].reads : Finds(q, i, r[1], r[2])

(* A buffer will hold what it does in program order.                       *)
Settled == \A b \in Buffers : \A q \in Queues :
             (\A p \in Queues \ {q} : \A j \in DOMAIN pending[p] : ~Writer(p, j, b))
               => Finds(q, Len(pending[q]) + 1, b, intended[b])

Ordered == Separate /\ InOrder /\ Settled

-----------------------------------------------------------------------------
(* How the queues change.                                                  *)

(* A command is added to queue q.                                          *)
LEMMA EnqueueElements ==
  ASSUME DeviceTypeOK, NEW q \in Queues, NEW c \in Command, Enqueue(q, <<c>>)
  PROVE  /\ \A p \in Queues \ {q} : pending'[p] = pending[p]
         /\ Len(pending[q]) \in Nat
         /\ DOMAIN pending[q] = 1 .. Len(pending[q])
         /\ Len(pending'[q]) = Len(pending[q]) + 1
         /\ DOMAIN pending'[q] = 1 .. Len(pending[q]) + 1
         /\ \A i \in 1 .. Len(pending[q]) : pending'[q][i] = pending[q][i]
         /\ pending'[q][Len(pending[q]) + 1] = c
         /\ Commands(q)' = Commands(q) \cup {c}
         /\ \A p \in Queues \ {q} : Commands(p)' = Commands(p)
         /\ Used(q)' = Used(q) \cup Uses(c)
         /\ \A p \in Queues \ {q} : Used(p)' = Used(p)
<1>1. /\ \A p \in Queues \ {q} : pending'[p] = pending[p]
      /\ pending'[q] = pending[q] \o <<c>>
      /\ pending[q] \in Seq(Command)
  BY DEF DeviceTypeOK, Enqueue
<1>2. /\ Len(pending[q]) \in Nat
      /\ DOMAIN pending[q] = 1 .. Len(pending[q])
      /\ Len(pending'[q]) = Len(pending[q]) + 1
      /\ DOMAIN pending'[q] = 1 .. Len(pending[q]) + 1
      /\ \A i \in 1 .. Len(pending[q]) : pending'[q][i] = pending[q][i]
      /\ pending'[q][Len(pending[q]) + 1] = c
  BY <1>1
<1>3. Commands(q)' = Commands(q) \cup {c}
  BY <1>2 DEF Commands
<1>4. \A p \in Queues \ {q} : Commands(p)' = Commands(p)
  BY <1>1 DEF Commands
<1>5. Used(q)' = Used(q) \cup Uses(c)
  BY <1>3 DEF Used
<1>6. \A p \in Queues \ {q} : Used(p)' = Used(p)
  BY <1>4 DEF Used
<1> QED
  BY <1>1, <1>2, <1>3, <1>4, <1>5, <1>6

(* The oldest command of queue q is taken off.                             *)
LEMMA ExecuteElements ==
  ASSUME DeviceTypeOK, NEW q \in Queues, Execute(q)
  PROVE  /\ \A p \in Queues \ {q} : pending'[p] = pending[p]
         /\ Len(pending[q]) \in Nat \ {0}
         /\ DOMAIN pending[q] = 1 .. Len(pending[q])
         /\ Len(pending'[q]) = Len(pending[q]) - 1
         /\ DOMAIN pending'[q] = 1 .. Len(pending[q]) - 1
         /\ \A i \in 1 .. Len(pending[q]) - 1 : pending'[q][i] = pending[q][i + 1]
         /\ Head(pending[q]) = pending[q][1] /\ pending[q][1] \in Command
         /\ \A p \in Queues : Commands(p)' \subseteq Commands(p)
         /\ \A p \in Queues : Used(p)' \subseteq Used(p)
<1>1. /\ \A p \in Queues \ {q} : pending'[p] = pending[p]
      /\ pending'[q] = Tail(pending[q])
      /\ pending[q] \in Seq(Command) /\ pending[q] # <<>>
  BY DEF DeviceTypeOK, Execute
<1>2. /\ Len(pending[q]) \in Nat \ {0}
      /\ DOMAIN pending[q] = 1 .. Len(pending[q])
      /\ Len(pending'[q]) = Len(pending[q]) - 1
      /\ DOMAIN pending'[q] = 1 .. Len(pending[q]) - 1
      /\ \A i \in 1 .. Len(pending[q]) - 1 : pending'[q][i] = pending[q][i + 1]
      /\ Head(pending[q]) = pending[q][1] /\ pending[q][1] \in Command
  BY <1>1
<1>3. \A p \in Queues : Commands(p)' \subseteq Commands(p)
  <2>1. Commands(q)' \subseteq Commands(q)
    BY <1>2 DEF Commands
  <2> QED
    BY <1>1, <2>1 DEF Commands
<1>4. \A p \in Queues : Used(p)' \subseteq Used(p)
  BY <1>3 DEF Used
<1> QED
  BY <1>1, <1>2, <1>3, <1>4

-----------------------------------------------------------------------------
(* Ordered, step by step.                                                  *)

(* An enqueued command is one; and it uses what it writes.                 *)
LEMMA CommandType ==
  ASSUME DeviceTypeOK, NEW q \in Queues, NEW i \in DOMAIN pending[q]
  PROVE  pending[q][i] \in Command
BY DEF DeviceTypeOK

LEMMA WritesUsed ==
  ASSUME NEW c
  PROVE  Writes(c) \subseteq Uses(c)
BY DEF Writes, Uses

LEMMA WriterUses ==
  ASSUME NEW q, NEW i \in DOMAIN pending[q], NEW b, Writer(q, i, b)
  PROVE  b \in Used(q)
BY WritesUsed DEF Writer, Used, Commands

(* What a place of a queue that stays finds in a buffer that stays.        *)
LEMMA SameFinds ==
  ASSUME DeviceTypeOK, NEW q \in Queues, NEW i, NEW b, NEW v, UNCHANGED pending,
         mem'[b] = mem[b],
         \A c \in Commands(q) : c.op = "write" => host'[c.array] = host[c.array],
         Finds(q, i, b, v)
  PROVE  Finds(q, i, b, v)'
<1>1. ASSUME NEW j \in DOMAIN pending[q], Writer(q, j, b)
      PROVE  Leaves(pending[q][j])' = Leaves(pending[q][j])
  <2>1. pending[q][j].op \in {"compute", "write"}
    BY <1>1, CommandType DEF Writer, Writes, Command
  <2> QED
    BY <2>1 DEF Leaves, Commands
<1> QED
  BY <1>1 DEF Finds, Writer

(* The queues stay; what changes is buffers and arrays they do not use.    *)
LEMMA QuietOrdered ==
  ASSUME DeviceTypeOK, Ordered, UNCHANGED pending,
         \A b \in Buffers : \/ mem'[b] = mem[b] /\ intended'[b] = intended[b]
                            \/ b \notin InFlight /\ mem'[b] = intended'[b],
         \A q \in Queues : \A c \in Commands(q) :
           c.op = "write" => host'[c.array] = host[c.array]
  PROVE  Ordered'
<1>1. Separate'
  BY DEF Ordered, Separate, Used, Commands
<1>2. ASSUME NEW q \in Queues, NEW i, NEW b, NEW v, mem'[b] = mem[b], Finds(q, i, b, v)
      PROVE  Finds(q, i, b, v)'
  BY <1>2, SameFinds
<1>3. ASSUME NEW q \in Queues, NEW i \in DOMAIN pending[q], pending[q][i].op = "compute",
             NEW r \in pending[q][i].reads
      PROVE  Finds(q, i, r[1], r[2])'
  <2>1. r[1] \in Buffers /\ r[1] \in InFlight
    BY <1>3, CommandType DEF Command, InFlight, Commands, Uses
  <2>2. Finds(q, i, r[1], r[2])
    BY <1>3 DEF Ordered, InOrder
  <2> QED
    BY <1>2, <2>1, <2>2
<1>4. ASSUME NEW b \in Buffers, NEW q \in Queues,
             \A p \in Queues \ {q} : \A j \in DOMAIN pending[p] : ~Writer(p, j, b)
      PROVE  Finds(q, Len(pending[q]) + 1, b, intended[b])'
  <2>1. CASE mem'[b] = mem[b] /\ intended'[b] = intended[b]
    BY <1>2, <1>4, <2>1 DEF Ordered, Settled
  <2>2. CASE b \notin InFlight /\ mem'[b] = intended'[b]
    <3>1. \A i \in DOMAIN pending[q] : ~Writer(q, i, b)
      BY <2>2, WritesUsed DEF Writer, InFlight, Commands
    <3> QED
      BY <2>2, <3>1 DEF Finds, Writer
  <2> QED
    BY <2>1, <2>2
<1> QED
  BY <1>1, <1>3, <1>4 DEF Ordered, InOrder, Settled, Writer

(* What a place of a queue, up to the end, finds in a buffer that stays    *)
(* when a command is added to queue q.                                     *)
LEMMA EnqueueFinds ==
  ASSUME DeviceTypeOK, NEW q \in Queues, NEW c \in Command, Enqueue(q, <<c>>),
         \A p \in Queues : \A d \in Commands(p) : d.op = "write" => host'[d.array] = host[d.array],
         NEW p \in Queues, NEW i \in Int, i <= Len(pending[p]) + 1,
         NEW b, NEW v, mem'[b] = mem[b], Finds(p, i, b, v)
  PROVE  Finds(p, i, b, v)'
<1>1. /\ \A o \in Queues \ {q} : pending'[o] = pending[o]
      /\ Len(pending[q]) \in Nat
      /\ DOMAIN pending[q] = 1 .. Len(pending[q])
      /\ DOMAIN pending'[q] = 1 .. Len(pending[q]) + 1
      /\ \A j \in 1 .. Len(pending[q]) : pending'[q][j] = pending[q][j]
  BY EnqueueElements
<1>2. ASSUME NEW j \in DOMAIN pending[p], NEW d, d = pending[p][j], b \in Writes(d)
      PROVE  Leaves(d)' = Leaves(d)
  <2>1. d.op \in {"compute", "write"}
    BY <1>2, CommandType DEF Writes, Command
  <2> QED
    BY <1>2, <2>1 DEF Leaves, Commands
<1>3. CASE p # q
  BY <1>1, <1>2, <1>3 DEF Finds, Writer
<1>4. CASE p = q
  <2>1. \A j \in DOMAIN pending'[q] :
          j < i => j \in DOMAIN pending[q] /\ pending'[q][j] = pending[q][j]
    BY <1>1, <1>4
  <2>2. \A j \in DOMAIN pending[q] : j \in DOMAIN pending'[q] /\ pending'[q][j] = pending[q][j]
    BY <1>1
  <2> QED
    BY <1>2, <1>4, <2>1, <2>2 DEF Finds, Writer
<1> QED
  BY <1>3, <1>4

(* A command is added to queue q, issued with what is in the buffers in    *)
(* program order; the other queues have nothing to do with it.  A buffer   *)
(* it writes may be new; arrays that are being written to the device stay. *)
LEMMA EnqueueKeeping ==
  ASSUME DeviceTypeOK, Ordered, NEW q \in Queues, NEW c \in Command, Enqueue(q, <<c>>),
         \A p \in Queues : \A d \in Commands(p) : d.op = "write" => host'[d.array] = host[d.array],
         c.op = "write" => host'[c.array] = host[c.array],
         \A p \in Queues \ {q} : Uses(c) \cap Used(p) = {},
         c.op = "compute" => mem' = mem /\ \A r \in c.reads : r[2] = intended[r[1]],
         \A b \in Buffers :
           /\ intended'[b] = IF b \in Writes(c) THEN Leaves(c) ELSE intended[b]
           /\ mem'[b] = mem[b] \/ (b \in Writes(c) /\ b \notin InFlight)
  PROVE  Ordered'
<1>1. PICK n : n = Len(pending[q])
  OBVIOUS
<1>2. /\ \A p \in Queues \ {q} : pending'[p] = pending[p]
      /\ n \in Nat
      /\ DOMAIN pending[q] = 1 .. n
      /\ Len(pending'[q]) = n + 1
      /\ DOMAIN pending'[q] = 1 .. n + 1
      /\ \A i \in 1 .. n : pending'[q][i] = pending[q][i]
      /\ pending'[q][n + 1] = c
      /\ Used(q)' = Used(q) \cup Uses(c)
      /\ \A p \in Queues \ {q} : Used(p)' = Used(p)
  BY <1>1, EnqueueElements
<1>3. Separate'
  BY <1>2 DEF Ordered, Separate
<1>4. ASSUME NEW p \in Queues, NEW i \in DOMAIN pending[p], pending[p][i].op = "compute",
             NEW r \in pending[p][i].reads
      PROVE  Finds(p, i, r[1], r[2])'
  <2>1. r[1] \in Buffers /\ r[1] \in InFlight
    BY <1>4, CommandType DEF Command, InFlight, Commands, Uses
  <2>2. i \in Int /\ i <= Len(pending[p]) + 1
    BY DEF DeviceTypeOK
  <2> QED
    BY <1>4, <2>1, <2>2, EnqueueFinds DEF Ordered, InOrder
<1>5. ASSUME c.op = "compute", NEW r \in c.reads
      PROVE  Finds(q, n + 1, r[1], r[2])'
  <2>1. r[1] \in Buffers /\ r[1] \in Uses(c)
    BY <1>5 DEF Command, Uses
  <2>2. \A p \in Queues \ {q} : \A j \in DOMAIN pending[p] : ~Writer(p, j, r[1])
    BY <2>1, WritesUsed DEF Used, Commands, Writer
  <2>3. Finds(q, n + 1, r[1], r[2])
    BY <1>1, <1>5, <2>1, <2>2 DEF Ordered, Settled
  <2>4. PICK i, x, v : i = n + 1 /\ x = r[1] /\ v = r[2]
    OBVIOUS
  <2>5. i \in Int /\ i <= Len(pending[q]) + 1 /\ mem'[x] = mem[x] /\ Finds(q, i, x, v)
    BY <1>1, <1>2, <1>5, <2>3, <2>4
  <2>6. Finds(q, i, x, v)'
    BY <2>4, <2>5, EnqueueFinds
  <2> QED
    BY <2>4, <2>6
<1>6. InOrder'
  <2>1. ASSUME NEW p \in Queues, NEW i \in DOMAIN pending'[p],
               pending'[p][i].op = "compute", NEW r \in pending'[p][i].reads
        PROVE  Finds(p, i, r[1], r[2])'
    <3>1. CASE p = q /\ i = n + 1
      BY <1>2, <1>5, <2>1, <3>1
    <3>2. CASE ~(p = q /\ i = n + 1)
      <4>1. i \in DOMAIN pending[p] /\ pending'[p][i] = pending[p][i]
        BY <1>2, <3>2
      <4>2. pending[p][i].op = "compute" /\ r \in pending[p][i].reads
        BY <2>1, <4>1
      <4> QED
        BY <1>4, <4>1, <4>2
    <3> QED
      BY <3>1, <3>2
  <2> QED
    BY <2>1 DEF InOrder
<1>7. ASSUME NEW b \in Buffers, NEW p \in Queues,
             \A o \in Queues \ {p} : \A j \in DOMAIN pending'[o] : ~Writer(o, j, b)'
      PROVE  Finds(p, Len(pending[p]) + 1, b, intended[b])'
  <2>1. \A o \in Queues \ {p} : \A j \in DOMAIN pending[o] : ~Writer(o, j, b)
    BY <1>2, <1>7 DEF Writer
  <2>2. CASE b \notin Writes(c)
    <3>1. PICK l, v : l = Len(pending[p]) /\ v = intended[b]
      OBVIOUS
    <3>2. Finds(p, l + 1, b, v)
      BY <2>1, <3>1 DEF Ordered, Settled
    <3>3. l \in Nat /\ DOMAIN pending[p] = 1 .. l
      BY <3>1 DEF DeviceTypeOK
    <3>4. Finds(p, l + 1, b, v)'
      BY <2>2, <3>1, <3>2, <3>3, EnqueueFinds
    <3>5. CASE p = q
      <4>1. n = l
        BY <1>1, <3>1, <3>5
      <4>2. \A j \in DOMAIN pending'[q] : j < n + 2 /\ Writer(q, j, b)' => j < n + 1
        BY <1>2, <2>2 DEF Writer
      <4>3. \A j, m \in DOMAIN pending'[q] : m < n + 2 /\ Writer(q, m, b)' => m < n + 1
        BY <4>2
      <4>4. Finds(q, n + 2, b, v)'
        BY <1>2, <3>4, <3>5, <4>1, <4>2, <4>3 DEF Finds
      <4> QED
        BY <1>2, <2>2, <3>1, <3>5, <4>4
    <3>6. CASE p # q
      BY <1>2, <2>2, <3>1, <3>4, <3>6
    <3> QED
      BY <3>5, <3>6
  <2>3. CASE b \in Writes(c)
    <3>1. p = q
      BY <1>2, <1>7, <2>3 DEF Writer
    <3>2. Leaves(c)' = intended'[b]
      BY <2>3 DEF Leaves, Writes
    <3> QED
      BY <1>2, <2>3, <3>1, <3>2 DEF Finds, Writer
  <2> QED
    BY <2>2, <2>3
<1> QED
  BY <1>3, <1>6, <1>7 DEF Ordered, Settled

(* ... as they do when no array changes.                                   *)
LEMMA EnqueueOrdered ==
  ASSUME DeviceTypeOK, Ordered, NEW q \in Queues, NEW c \in Command, Enqueue(q, <<c>>),
         UNCHANGED host,
         \A p \in Queues \ {q} : Uses(c) \cap Used(p) = {},
         c.op = "compute" => mem' = mem /\ \A r \in c.reads : r[2] = intended[r[1]],
         \A b \in Buffers :
           /\ intended'[b] = IF b \in Writes(c) THEN Leaves(c) ELSE intended[b]
           /\ mem'[b] = mem[b] \/ (b \in Writes(c) /\ b \notin InFlight)
  PROVE  Ordered'
BY EnqueueKeeping

(* The oldest command of queue q does to the device what it is meant to.   *)
LEMMA ExecuteEffect ==
  ASSUME DeviceTypeOK, Ordered, NEW q \in Queues, Execute(q), NEW b \in Buffers
  PROVE  mem'[b] = IF Writer(q, 1, b) THEN Leaves(pending[q][1]) ELSE mem[b]
<1>1. PICK c \in Command : c = pending[q][1] /\ c = Head(pending[q])
  BY ExecuteElements
<1>2. CASE c.op = "compute"
  <2>1. mem' = [a \in Buffers |-> IF a \in c.writes THEN Result(c) ELSE mem[a]]
    BY <1>1, <1>2 DEF Execute
  <2>2. DOMAIN pending[q] = 1 .. Len(pending[q]) /\ 1 \in DOMAIN pending[q]
    BY ExecuteElements
  <2>3. \A r \in c.reads : Finds(q, 1, r[1], r[2])
    BY <1>1, <1>2, <2>2 DEF Ordered, InOrder
  <2>4. \A r \in c.reads : mem[r[1]] = r[2]
    BY <2>2, <2>3 DEF Finds
  <2> QED
    BY <1>1, <1>2, <2>1, <2>4 DEF Result, Writer, Writes, Leaves
<1>3. CASE c.op = "write"
  BY <1>1, <1>3 DEF Execute, Writer, Writes, Leaves, DeviceTypeOK
<1>4. CASE c.op = "read"
  BY <1>1, <1>4 DEF Execute, Writer, Writes
<1> QED
  BY <1>2, <1>3, <1>4 DEF Command

(* What a place of queue q finds when the command before it is taken off,  *)
(* and what one of another queue finds in a buffer that stays.             *)
LEMMA ExecuteFinds ==
  ASSUME DeviceTypeOK, NEW q \in Queues, Execute(q), NEW b, NEW v, NEW i \in Int, i >= 1,
         \A p \in Queues : \A c \in Commands(p) : c.op = "write" => host'[c.array] = host[c.array]
  PROVE  /\ /\ mem'[b] = IF Writer(q, 1, b) THEN Leaves(pending[q][1]) ELSE mem[b]
            /\ Finds(q, i + 1, b, v)
            => Finds(q, i, b, v)'
         /\ \A p \in Queues \ {q} : mem'[b] = mem[b] /\ Finds(p, i, b, v) => Finds(p, i, b, v)'
<1>1. PICK n \in Nat \ {0} :
        /\ n = Len(pending[q])
        /\ \A p \in Queues \ {q} : pending'[p] = pending[p]
        /\ DOMAIN pending[q] = 1 .. n
        /\ DOMAIN pending'[q] = 1 .. n - 1
        /\ \A j \in 1 .. n - 1 : pending'[q][j] = pending[q][j + 1]
  BY ExecuteElements
<1>2. ASSUME NEW p \in Queues, NEW j \in DOMAIN pending[p], NEW c, c = pending[p][j],
             b \in Writes(c)
      PROVE  Leaves(c)' = Leaves(c)
  <2>1. c.op \in {"compute", "write"}
    BY <1>2, CommandType DEF Writes, Command
  <2> QED
    BY <1>2, <2>1 DEF Leaves, Commands
<1>3. ASSUME NEW p \in Queues \ {q}, mem'[b] = mem[b], Finds(p, i, b, v)
      PROVE  Finds(p, i, b, v)'
  BY <1>1, <1>2, <1>3 DEF Finds, Writer
<1>4. ASSUME mem'[b] = IF Writer(q, 1, b) THEN Leaves(pending[q][1]) ELSE mem[b],
             Finds(q, i + 1, b, v)
      PROVE  Finds(q, i, b, v)'
  <2>1. \A j \in 1 .. n - 1 : Writer(q, j, b)' <=> Writer(q, j + 1, b)
    BY <1>1 DEF Writer
  <2>2. ASSUME \A j \in DOMAIN pending'[q] : j < i => ~Writer(q, j, b)'
        PROVE  mem'[b] = v
    <3>1. \A j \in 1 .. n : j < i + 1 /\ j > 1 => ~Writer(q, j, b)
      <4>1. ASSUME NEW j \in 1 .. n, j < i + 1, j > 1 PROVE ~Writer(q, j, b)
        <5>1. j - 1 \in 1 .. n - 1 /\ j - 1 < i /\ (j - 1) + 1 = j
          BY <4>1
        <5> QED
          BY <1>1, <2>1, <2>2, <5>1 DEF Writer
      <4> QED
        BY <4>1
    <3>2. 1 \in 1 .. n /\ 1 < i + 1
      OBVIOUS
    <3>3. CASE Writer(q, 1, b)
      BY <1>1, <1>4, <3>1, <3>2, <3>3 DEF Finds
    <3>4. CASE ~Writer(q, 1, b)
      BY <1>1, <1>4, <3>1, <3>4 DEF Finds
    <3> QED
      BY <3>3, <3>4
  <2>3. ASSUME NEW j \in DOMAIN pending'[q], j < i, Writer(q, j, b)',
               \A m \in DOMAIN pending'[q] : j < m /\ m < i => ~Writer(q, m, b)'
        PROVE  Leaves(pending[q][j])' = v
    <3>1. j + 1 \in 1 .. n /\ j + 1 < i + 1 /\ Writer(q, j + 1, b) /\ j \in 1 .. n - 1
      BY <1>1, <2>1, <2>3 DEF Writer
    <3>2. ASSUME NEW m \in 1 .. n, j + 1 < m, m < i + 1 PROVE ~Writer(q, m, b)
      <4>1. m - 1 \in 1 .. n - 1 /\ m - 1 < i /\ j < m - 1 /\ (m - 1) + 1 = m
        BY <3>1, <3>2
      <4> QED
        BY <1>1, <2>1, <2>3, <4>1 DEF Writer
    <3>3. PICK c : c = pending[q][j + 1] /\ c = pending'[q][j]
      BY <1>1, <3>1
    <3>4. Leaves(c) = v
      BY <1>1, <1>4, <3>1, <3>2, <3>3 DEF Finds
    <3>5. j + 1 \in DOMAIN pending[q] /\ b \in Writes(c)
      BY <1>1, <3>1, <3>3 DEF Writer
    <3>6. Leaves(c)' = v
      BY <1>2, <3>3, <3>4, <3>5
    <3> QED
      BY <3>3, <3>6 DEF Leaves
  <2> QED
    BY <2>2, <2>3 DEF Finds
<1> QED
  BY <1>3, <1>4

(* The device executes a command.                                          *)
LEMMA ExecuteOrdered ==
  ASSUME DeviceTypeOK, Ordered, NEW q \in Queues, Execute(q),
         \A p \in Queues : \A c \in Commands(p) : c.op = "write" => host'[c.array] = host[c.array]
  PROVE  Ordered'
<1>1. PICK n \in Nat \ {0} :
        /\ n = Len(pending[q])
        /\ \A p \in Queues \ {q} : pending'[p] = pending[p]
        /\ DOMAIN pending[q] = 1 .. n
        /\ Len(pending'[q]) = n - 1
        /\ DOMAIN pending'[q] = 1 .. n - 1
        /\ \A j \in 1 .. n - 1 : pending'[q][j] = pending[q][j + 1]
  BY ExecuteElements
<1>2. Separate'
  BY ExecuteElements DEF Ordered, Separate
<1>3. intended' = intended
  BY DEF Execute
<1>4. ASSUME NEW p \in Queues \ {q}, NEW b, Writer(q, 1, b) PROVE b \notin Used(p)
  <2>1. 1 \in DOMAIN pending[q]
    BY <1>1
  <2>2. b \in Used(q)
    BY <1>4, <2>1, WriterUses
  <2> QED
    BY <2>2 DEF Ordered, Separate
<1>5. InOrder'
  <2>1. ASSUME NEW i \in 1 .. n - 1, pending[q][i + 1].op = "compute",
               NEW r \in pending[q][i + 1].reads
        PROVE  Finds(q, i, r[1], r[2])'
    <3>1. r[1] \in Buffers /\ i + 1 \in DOMAIN pending[q]
      BY <1>1, <2>1, CommandType DEF Command
    <3>2. Finds(q, i + 1, r[1], r[2])
      BY <2>1, <3>1 DEF Ordered, InOrder
    <3> QED
      BY <3>1, <3>2, ExecuteEffect, ExecuteFinds
  <2>2. ASSUME NEW p \in Queues \ {q}, NEW i \in DOMAIN pending[p],
               pending[p][i].op = "compute", NEW r \in pending[p][i].reads
        PROVE  Finds(p, i, r[1], r[2])'
    <3>1. r[1] \in Buffers /\ r[1] \in Used(p)
      BY <2>2, CommandType DEF Command, Used, Commands, Uses
    <3>2. ~Writer(q, 1, r[1])
      BY <1>4, <3>1
    <3>3. Finds(p, i, r[1], r[2]) /\ mem'[r[1]] = mem[r[1]]
      BY <2>2, <3>1, <3>2, ExecuteEffect DEF Ordered, InOrder
    <3>4. i \in Int /\ i >= 1
      BY DEF DeviceTypeOK
    <3> QED
      BY <3>3, <3>4, ExecuteFinds
  <2> QED
    BY <1>1, <2>1, <2>2 DEF InOrder
<1>6. ASSUME NEW b \in Buffers, NEW p \in Queues,
             \A o \in Queues \ {p} : \A j \in DOMAIN pending'[o] : ~Writer(o, j, b)'
      PROVE  Finds(p, Len(pending[p]) + 1, b, intended[b])'
  <2>1. PICK l, v : l = Len(pending[p]) /\ v = intended[b]
    OBVIOUS
  <2>2. l \in Nat /\ DOMAIN pending[p] = 1 .. l
    BY <2>1 DEF DeviceTypeOK
  <2>3. \A o \in Queues \ {p, q} : \A j \in DOMAIN pending[o] : ~Writer(o, j, b)
    BY <1>1, <1>6 DEF Writer
  <2>4. ASSUME p # q, NEW m \in 1 .. n, m > 1 PROVE ~Writer(q, m, b)
    <3>1. m - 1 \in 1 .. n - 1 /\ (m - 1) + 1 = m
      BY <2>4
    <3> QED
      BY <1>1, <1>6, <2>4, <3>1 DEF Writer
  <2>5. CASE p = q
    <3>1. Finds(q, n + 1, b, v)
      BY <1>1, <2>1, <2>3, <2>5 DEF Ordered, Settled
    <3>2. Finds(q, n, b, v)'
      BY <3>1, ExecuteEffect, ExecuteFinds
    <3> QED
      BY <1>1, <1>3, <2>1, <2>5, <3>2
  <2>6. CASE p # q /\ Writer(q, 1, b)
    <3>1. b \notin Used(p)
      BY <1>4, <2>6
    <3>2. \A j \in DOMAIN pending[p] : ~Writer(p, j, b)
      BY <3>1, WriterUses
    <3>3. Finds(q, n + 1, b, v)
      BY <1>1, <2>1, <2>3, <2>6, <3>2 DEF Ordered, Settled
    <3>4. Leaves(pending[q][1]) = v
      BY <1>1, <2>4, <2>6, <3>3 DEF Finds
    <3>5. mem'[b] = v
      BY <2>6, <3>4, ExecuteEffect
    <3>6. Finds(p, l + 1, b, v)'
      BY <1>1, <2>6, <3>2, <3>5 DEF Finds, Writer
    <3> QED
      BY <1>1, <1>3, <2>1, <2>6, <3>6
  <2>7. CASE p # q /\ ~Writer(q, 1, b)
    <3>1. \A j \in DOMAIN pending[q] : ~Writer(q, j, b)
      BY <1>1, <2>4, <2>7
    <3>2. Finds(p, l + 1, b, v)
      BY <2>1, <2>3, <3>1 DEF Ordered, Settled
    <3>3. mem'[b] = mem[b] /\ l + 1 \in Int /\ l + 1 >= 1
      BY <2>2, <2>7, ExecuteEffect
    <3>4. Finds(p, l + 1, b, v)'
      BY <2>7, <3>2, <3>3, ExecuteFinds
    <3> QED
      BY <1>1, <1>3, <2>1, <2>7, <3>4
  <2> QED
    BY <2>5, <2>6, <2>7
<1> QED
  BY <1>2, <1>5, <1>6 DEF Ordered, Settled
=============================================================================
