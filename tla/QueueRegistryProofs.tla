------------------------ MODULE QueueRegistryProofs ------------------------
(***************************************************************************)
(* What holds of the queues for every number of handlers, slaves, groups   *)
(* and jobs and every mix of requests, moves, reloads and crashes.         *)
(*                                                                         *)
(* The two lists are read and written back without a lock, so both         *)
(* properties ask that work is done in turn: MqJobsRecorded the work on    *)
(* the job list, QueuesFollowJobList all work.  The invariant says of the  *)
(* actor at work what it still owes to the lists.                          *)
(***************************************************************************)
EXTENDS QueueRegistry, FiniteSetTheorems, TLAPS

\* Where an actor has taken up a queue, and where a handler prepares to:
\* before and after it has looked for the nodes of its group.
Hand == {"exists", "read", "write"}
Looked == {"jobs", "edit", "save", "unused"}
Early == {"nodes"} \cup Looked

\* How far handlers come with which operation.  Each queue in hand or left
\* starts at most one goroutine, which bounds those that have not run.
HandlerInv(h) ==
    /\ pc[h] \in {"idle", "loop"} \cup Early \cup Hand
    /\ op[h] \in {"none", "add", "del", "remove"}
    /\ pc[h] = "idle" => op[h] = "none"
    /\ pc[h] \in {"idle", "nodes"} => left[h] = {}
    /\ pc[h] = "unused" => op[h] = "del"
    /\ pc[h] \in Early => op[h] \in {"add", "del"} /\ pending[h] = 0
    /\ pc[h] \in Hand \cup {"loop"} => op[h] # "none"
    /\ pc[h] \in Hand => cur[h] \in Address
    /\ op[h] \in {"add", "del"} => group[h] \in Group /\ job[h] # {}
    /\ pc[h] \in Hand \cup {"loop"} =>
        pending[h] + Cardinality(left[h])
            + (IF op[h] = "add" /\ pc[h] \in Hand THEN 1 ELSE 0)
                <= Cardinality(Address)

\* The same of slaves, whose only queue is that of their address.
SlaveInv(s) ==
    /\ pc[s] \in {"new", "join", "check", "dereg", "serving", "gone"} \cup Hand
    /\ op[s] \in {"none", "join", "leave"}
    /\ pc[s] \in Hand => op[s] # "none"
    /\ pc[s] = "join" => op[s] = "join"
    /\ pc[s] \notin {"new", "gone"} => cur[s] = AddrOf[s]
    /\ s \in services <=> pc[s] \notin {"new", "gone"}

Places ==
    /\ \A h \in Handler : HandlerInv(h)
    /\ \A s \in Slave : SlaveInv(s)

\* As long as no work has begun beside other work, one actor is at work, no
\* two live slaves share an address and a list read is the list.
Lone ==
    OneAtATime =>
        /\ RecordedInTurn
        /\ \A a, b \in Busy : a = b
        /\ \A s, t \in services : AddrOf[s] = AddrOf[t] => s = t
        /\ \A a \in Actor : pc[a] = "write" => queuesRead[a] = queues

\* Who is at the job list read it as it is, and goes by what it read.
JobsCurrent(h) ==
    /\ pc[h] = "edit" => jobsRead[h] = queueJobs
    /\ pc[h] = "save" /\ op[h] = "add" =>
        jobsRead[h] = [queueJobs EXCEPT ![group[h]] = @ \cup job[h]]
    /\ pc[h] = "save" /\ op[h] = "del" =>
        /\ jobsRead[h] = [queueJobs EXCEPT ![group[h]] = {}]
        /\ queueJobs[group[h]] = job[h]
    /\ pc[h] \in Recording /\ op[h] = "del" =>
        \A j \in job[h] : mqGroup[j] = None

\* A handler that is about to record job j of group g.
Records(h, j, g) ==
    /\ op[h] = "add"
    /\ pc[h] \in Recording
    /\ job[h] = {j}
    /\ group[h] = g

\* One handler at a time is at the job list, and every MQ job that has not moved
\* is recorded, or about to be.
JobsRecorded ==
    RecordedInTurn =>
        /\ \A h, i \in Handler :
            pc[h] \in Recording /\ pc[i] \in Recording => h = i
        /\ \A h \in Handler : JobsCurrent(h)
        /\ \A j \in Job \ moved :
            mqGroup[j] # None =>
                \/ j \in queueJobs[mqGroup[j]]
                \/ \E h \in Handler : Records(h, j, mqGroup[j])

Used(g) == queueJobs[g] # {}

Served == {AddrOf[s] : s \in services}

\* A handler has yet to add, or to delete, the queue q.
Owes(h, kind, q) ==
    /\ op[h] = kind
    /\ \/ pc[h] \in Hand \cup {"loop", "unused"} /\ q \in left[h]
       \/ pc[h] \in Hand /\ q = cur[h]

Owed(kind, q) == \E h \in Handler : Owes(h, kind, q)

\* All work is done in turn and no node is deleted.
Orderly == OneAtATime /\ spent.removals = 0

\* A handler knows all nodes of its group, and is to change no other queue.
NodesKnown(h) ==
    /\ op[h] # "remove"
    /\ pc[h] \in Looked => GroupNodes(group[h]) \subseteq left[h]
    /\ pc[h] \in Hand \cup {"loop"} => (op[h] = "add" <=> Used(group[h]))
    /\ pc[h] \in Hand \cup {"loop"} \cup Looked =>
        \A q \in left[h] : GroupOf[q] = group[h]
    /\ pc[h] \in Hand => GroupOf[cur[h]] = group[h]
    /\ spent.crashes = 0 =>
        /\ left[h] \subseteq Served
        /\ pc[h] \in Hand => cur[h] \in Served

\* A slave that serves has its queue if one is needed.
QueueThere(s) ==
    /\ pc[s] = "serving" /\ Used(GroupOf[AddrOf[s]]) =>
        AddrOf[s] \in queues \/ Owed("add", AddrOf[s])
    /\ pc[s] = "check" /\ Used(GroupOf[AddrOf[s]]) => AddrOf[s] \in queues
    /\ pc[s] \in Hand /\ op[s] = "join" => Used(GroupOf[AddrOf[s]])
    /\ pc[s] = "dereg" => AddrOf[s] \notin queues

\* A queue is that of a node, and needed unless a handler is to delete it.
QueueNeeded(q) ==
    /\ q \in Served
    /\ Used(GroupOf[q]) \/ Owed("del", q)

QueuesRight ==
    Orderly =>
        /\ \A h \in Handler : NodesKnown(h)
        /\ \A s \in Slave : QueueThere(s)
        /\ spent.crashes = 0 => \A q \in queues : QueueNeeded(q)

Inv == TypeOK /\ Places /\ Lone /\ JobsRecorded /\ QueuesRight

Base == TypeOK /\ Places

-----------------------------------------------------------------------------
(***************************************************************************)
(* Types and places.                                                       *)
(***************************************************************************)
\* How many addresses a set of them has.
LEMMA Counts ==
  ASSUME NEW S \in SUBSET Address
  PROVE  /\ Cardinality(S) \in Nat
         /\ Cardinality(Address) \in Nat
         /\ Cardinality(S) <= Cardinality(Address)
         /\ Cardinality({}) = 0
         /\ \A q \in S : Cardinality(S \ {q}) = Cardinality(S) - 1
<1>1. IsFiniteSet(Address)
  BY QueueConstantsOK
<1>2. IsFiniteSet(S) /\ Cardinality(S) <= Cardinality(Address)
  BY <1>1, FS_Subset
<1>3. Cardinality(S) \in Nat /\ Cardinality(Address) \in Nat
  BY <1>1, <1>2, FS_CardinalityType
<1>4. \A q \in S : Cardinality(S \ {q}) = Cardinality(S) - 1
  BY <1>2, FS_RemoveElement
<1> QED
  BY <1>2, <1>3, <1>4, FS_EmptySet

\* A group's nodes are addresses.
LEMMA NodesAreAddresses ==
  ASSUME TypeOK, NEW g
  PROVE  /\ GroupNodes(g) \in SUBSET Address
         /\ \A q \in GroupNodes(g) : GroupOf[q] = g
BY QueueConstantsOK DEF GroupNodes, TypeOK

\* Counting an event keeps the counters numbers, and they never go down.
LEMMA SpendCounts ==
  ASSUME spent \in Budget, NEW E, Spend(E)
  PROVE  /\ spent' \in Budget
         /\ spent'.overlaps = 0 => spent.overlaps = 0 /\ "overlaps" \notin E
         /\ spent'.removals = 0 => spent.removals = 0 /\ "removals" \notin E
         /\ spent'.crashes = 0 => spent.crashes = 0 /\ "crashes" \notin E
         /\ spent'.meets = 0 <=> spent.meets = 0 /\ "meets" \notin E
<1>1. DOMAIN spent = {"requests", "moves", "removals", "overlaps", "meets",
                      "reloads", "crashes"}
  BY DEF Budget
<1>2. spent' = [e \in DOMAIN spent |->
                  IF e \in E THEN spent[e] + 1 ELSE spent[e]]
  BY DEF Spend
<1>3. \A e \in DOMAIN spent : spent[e] \in Nat
  BY DEF Budget
<1>4. \A e \in DOMAIN spent :
        /\ spent'[e] \in Nat
        /\ spent'[e] = 0 <=> spent[e] = 0 /\ e \notin E
  BY <1>2, <1>3
<1>5. spent' = [requests |-> spent'.requests, moves |-> spent'.moves,
                removals |-> spent'.removals, overlaps |-> spent'.overlaps,
                meets |-> spent'.meets, reloads |-> spent'.reloads,
                crashes |-> spent'.crashes]
  BY <1>1, <1>2
<1> QED
  BY <1>1, <1>4, <1>5 DEF Budget

\* A handler whose state stays is where it was.
LEMMA HandlerSame ==
  ASSUME NEW h \in Handler, HandlerInv(h),
         pc'[h] = pc[h], op'[h] = op[h], pending'[h] = pending[h],
         cur'[h] = cur[h], group'[h] = group[h], job'[h] = job[h],
         left'[h] = left[h]
  PROVE  HandlerInv(h)'
BY DEF HandlerInv

\* And so is a slave.
LEMMA SlaveSame ==
  ASSUME NEW s \in Slave, SlaveInv(s),
         pc'[s] = pc[s], op'[s] = op[s], cur'[s] = cur[s],
         s \in services' <=> s \in services
  PROVE  SlaveInv(s)'
BY DEF SlaveInv

\* An actor that is done leaves the state of the others as it is.
LEMMA FinishedTyped ==
  ASSUME TypeOK, NEW a \in Actor,
         NEW step \in {"idle", "serving", "gone"}, Finished(a, step)
  PROVE  /\ pc' = [pc EXCEPT ![a] = step]
         /\ op' = [op EXCEPT ![a] = "none"]
         /\ left' \in [Actor -> SUBSET Address]
         /\ queuesRead' \in [Actor -> SUBSET Address]
         /\ job' \in [Handler -> SUBSET Job]
         /\ group' \in [Handler -> Group \cup {None}]
         /\ jobsRead' \in [Handler -> [Group -> SUBSET Job]]
         /\ left'[a] = {}
         /\ \A b \in Actor \ {a} :
                left'[b] = left[b] /\ queuesRead'[b] = queuesRead[b]
         /\ \A i \in Handler \ {a} :
                /\ job'[i] = job[i]
                /\ group'[i] = group[i]
                /\ jobsRead'[i] = jobsRead[i]
<1>1. NoJobs \in [Group -> SUBSET Job]
  BY DEF NoJobs
<1> QED
  BY <1>1 DEF Finished, Goto, TypeOK

\* The initial state satisfies the invariant.
LEMMA InitInv == Init => Inv
<1> SUFFICES ASSUME Init PROVE Inv
  OBVIOUS
<1> USE DEF Init
<1>1. TypeOK
  <2>1. Cardinality(Address) \in Nat
    BY Counts
  <2> QED
    BY <2>1 DEF TypeOK, NoJobs, Budget, Actor
<1>2. Places
  BY QueueConstantsOK
     DEF Places, HandlerInv, SlaveInv, Early, Looked, Hand, Actor
<1>3. Lone
  BY QueueConstantsOK DEF Lone, RecordedInTurn, Busy, Resting, Actor
<1>4. JobsRecorded
  BY QueueConstantsOK
     DEF JobsRecorded, JobsCurrent, Records, Recording, Actor
<1>5. QueuesRight
  BY QueueConstantsOK
     DEF QueuesRight, NodesKnown, QueueThere, Owed, Owes, Actor, Hand, Early, Looked,
         Served, GroupNodes, Used, NoJobs
<1> QED
  BY <1>1, <1>2, <1>3, <1>4, <1>5 DEF Inv

\* A request begins.
LEMMA RequestBase ==
  ASSUME Base, NEW h \in Handler, NEW kind \in {"add", "del"}, NEW j \in Job,
         NEW g \in Group, Request(h, kind, j, g)
  PROVE  Base'
<1> USE DEF Base
<1>0. h \in Actor
  BY DEF Actor
<1>1. TypeOK'
  <2>1. spent' \in Budget
    BY SpendCounts DEF Request, TypeOK
  <2> QED
    BY <1>0, <2>1 DEF Request, TypeOK, Goto, kv, life, locals
<1>2. HandlerInv(h)'
  <2>1. HandlerInv(h) /\ pc[h] = "idle" /\ pending[h] = 0
    BY DEF Request, Places
  <2> QED
    BY <1>0, <2>1
       DEF Request, Goto, TypeOK, HandlerInv, Early, Looked, Hand, locals
<1>3. \A i \in Handler \ {h} : HandlerInv(i)'
  BY HandlerSame DEF Request, Goto, TypeOK, Places, life, locals, Actor
<1>4. \A s \in Slave : SlaveInv(s)'
  BY SlaveSame, QueueConstantsOK
     DEF Request, Goto, TypeOK, Places, life, locals, Actor
<1> QED
  BY <1>1, <1>2, <1>3, <1>4 DEF Places

\* A job moves to another group.
LEMMA MoveBase ==
  ASSUME Base, NEW j \in Job, NEW g \in Group, Move(j, g)
  PROVE  Base'
<1> USE DEF Base
<1>1. TypeOK'
  <2>1. spent' \in Budget
    BY SpendCounts DEF Move, TypeOK
  <2> QED
    BY <2>1 DEF Move, TypeOK, kv, life, locals, request
<1>2. Places'
  BY DEF Move, Places, HandlerInv, SlaveInv, life, locals, request
<1> QED
  BY <1>1, <1>2

\* A node is deleted.
LEMMA NodeDelBase ==
  ASSUME Base, NEW h \in Handler, NEW q \in Address, NodeDel(h, q)
  PROVE  Base'
<1> USE DEF Base
<1>0. h \in Actor
  BY DEF Actor
<1>1. TypeOK'
  <2>1. spent' \in Budget
    BY SpendCounts DEF NodeDel, TypeOK
  <2> QED
    BY <1>0, <2>1 DEF NodeDel, TypeOK, Goto, catalogue, kv, life, request
<1>2. HandlerInv(h)'
  <2>1. left[h] \in SUBSET Address
    BY <1>0 DEF TypeOK
  <2> QED
    BY <1>0, <2>1, Counts
       DEF NodeDel, Goto, TypeOK, HandlerInv, Early, Looked, Hand
<1>3. \A i \in Handler \ {h} : HandlerInv(i)'
  BY HandlerSame DEF NodeDel, Goto, TypeOK, Places, life, request, Actor
<1>4. \A s \in Slave : SlaveInv(s)'
  BY SlaveSame, QueueConstantsOK
     DEF NodeDel, Goto, TypeOK, Places, life, request, Actor
<1> QED
  BY <1>1, <1>2, <1>3, <1>4 DEF Places

\* A step of a handler leaves the state of the other actors as it is.
LEMMA HandlerFrame ==
  ASSUME TypeOK, NEW h \in Handler, HandlerStep(h)
  PROVE  /\ UNCHANGED <<services, listening, mqGroup, moved, queues, pending,
                        spent>>
         /\ \A a \in Actor \ {h} :
                /\ pc'[a] = pc[a]
                /\ op'[a] = op[a]
                /\ cur'[a] = cur[a]
                /\ left'[a] = left[a]
                /\ queuesRead'[a] = queuesRead[a]
         /\ \A i \in Handler \ {h} :
                /\ job'[i] = job[i]
                /\ group'[i] = group[i]
                /\ jobsRead'[i] = jobsRead[i]
<1>0. h \in Actor
  BY DEF Actor
<1>1. UNCHANGED <<services, listening, mqGroup, moved, queues, pending, spent>>
  BY DEF HandlerStep, FindNodes, ReadJobs, AppendJob, RemoveJob, SaveJobs,
         CheckUnused, NextQueue, LoopEnds, catalogue, kv, life
<1>2. CASE FindNodes(h) \/ ReadJobs(h) \/ AppendJob(h) \/ RemoveJob(h)
  BY <1>0, <1>1, <1>2
     DEF FindNodes, ReadJobs, AppendJob, RemoveJob, Goto, TypeOK, request
<1>3. CASE SaveJobs(h) \/ NextQueue(h)
  BY <1>0, <1>1, <1>3
     DEF SaveJobs, NextQueue, Goto, TypeOK, request, locals
<1>4. CASE CheckUnused(h) \/ LoopEnds(h)
  <2>1. \/ Goto(h, "loop") /\ UNCHANGED <<op, request, left, jobsRead, queuesRead>>
        \/ Finished(h, "idle")
    BY <1>4 DEF CheckUnused, LoopEnds
  <2>2. cur' = cur
    BY <1>4 DEF CheckUnused, LoopEnds
  <2> QED
    BY <1>0, <1>1, <2>1, <2>2, FinishedTyped DEF Goto, TypeOK, request
<1> QED
  BY <1>1, <1>2, <1>3, <1>4 DEF HandlerStep

\* The steps of a handler up to the loop over the queues.
LEMMA HandlerBase ==
  ASSUME Base, NEW h \in Handler, HandlerStep(h)
  PROVE  Base'
<1> USE DEF Base
<1>0. /\ h \in Actor
      /\ HandlerInv(h)
      /\ left[h] \in SUBSET Address
  BY DEF Actor, TypeOK, Places
<1>1. UNCHANGED <<services, listening, mqGroup, moved, queues, pending, spent>>
  BY HandlerFrame
<1>2. TypeOK' /\ HandlerInv(h)'
  <2>1. CASE FindNodes(h)
    BY <1>0, <1>1, <2>1, NodesAreAddresses, Counts
       DEF FindNodes, Goto, TypeOK, HandlerInv, Early, Looked, Hand,
           catalogue, kv, life, request
  <2>2. CASE ReadJobs(h)
    BY <1>0, <1>1, <2>2
       DEF ReadJobs, Goto, TypeOK, HandlerInv, Early, Looked, Hand,
           catalogue, kv, life, request
  <2>3. CASE AppendJob(h)
    <3>1. Appended(h) \in [Group -> SUBSET Job]
      <4>1. group[h] \in Group /\ jobsRead[h] \in [Group -> SUBSET Job]
        BY <1>0, <2>3 DEF AppendJob, HandlerInv, TypeOK
      <4> QED
        BY <4>1 DEF Appended, TypeOK
    <3>2. TypeOK'
      BY <1>0, <1>1, <2>3, <3>1
         DEF AppendJob, Goto, TypeOK, catalogue, kv, life, request
    <3>3. HandlerInv(h)'
      BY <1>0, <1>1, <2>3
         DEF AppendJob, Goto, TypeOK, HandlerInv, Early, Looked, Hand, request
    <3> QED
      BY <3>2, <3>3
  <2>4. CASE RemoveJob(h)
    <3>1. /\ jobsRead' \in [Handler -> [Group -> SUBSET Job]]
          /\ \/ pc' = [pc EXCEPT ![h] = "save"]
             \/ pc' = [pc EXCEPT ![h] = "unused"]
      <4>1. \/ jobsRead' = [jobsRead EXCEPT ![h] =
                                [jobsRead[h] EXCEPT ![group[h]] = {}]]
            \/ jobsRead' = jobsRead
        BY <2>4 DEF RemoveJob
      <4>2. [jobsRead[h] EXCEPT ![group[h]] = {}] \in [Group -> SUBSET Job]
        BY DEF TypeOK
      <4>3. jobsRead' \in [Handler -> [Group -> SUBSET Job]]
        BY <4>1, <4>2 DEF TypeOK
      <4>4. \/ pc' = [pc EXCEPT ![h] = "save"]
            \/ pc' = [pc EXCEPT ![h] = "unused"]
        BY <2>4 DEF RemoveJob, Goto
      <4> QED
        BY <4>3, <4>4
    <3>2. TypeOK'
      BY <1>0, <1>1, <2>4, <3>1
         DEF RemoveJob, TypeOK, catalogue, kv, life, request
    <3>3. HandlerInv(h)'
      BY <1>0, <1>1, <2>4, <3>1
         DEF RemoveJob, TypeOK, HandlerInv, Early, Looked, Hand, request
    <3> QED
      BY <3>2, <3>3
  <2>5. CASE SaveJobs(h)
    BY <1>0, <1>1, <2>5, Counts
       DEF SaveJobs, Goto, TypeOK, HandlerInv, Early, Looked, Hand,
           catalogue, life, request, locals
  <2>6. CASE CheckUnused(h)
    <3>1. CASE Unused(h)
      <4>1. TypeOK'
        BY <1>0, <1>1, <2>6, <3>1
           DEF CheckUnused, Goto, TypeOK, catalogue, kv, life, request
      <4>2. HandlerInv(h)'
        <5>1. /\ pc[h] = "unused"
              /\ pc' = [pc EXCEPT ![h] = "loop"]
              /\ UNCHANGED <<op, job, group, left, cur>>
          BY <2>6, <3>1 DEF CheckUnused, Goto, request
        <5>2. /\ Cardinality(left[h]) \in Nat
              /\ Cardinality(left[h]) <= Cardinality(Address)
          BY <1>0, Counts
        <5> QED
          BY <1>0, <1>1, <5>1, <5>2
             DEF TypeOK, HandlerInv, Early, Looked, Hand
      <4> QED
        BY <4>1, <4>2
    <3>2. CASE ~Unused(h)
      <4>1. Finished(h, "idle")
        BY <2>6, <3>2 DEF CheckUnused
      <4>2. TypeOK'
        BY <1>0, <1>1, <2>6, <4>1, FinishedTyped
           DEF CheckUnused, TypeOK, catalogue, kv, life
      <4>3. HandlerInv(h)'
        BY <1>0, <1>1, <4>1, FinishedTyped
           DEF TypeOK, HandlerInv, Early, Looked, Hand
      <4> QED
        BY <4>2, <4>3
    <3> QED
      BY <3>1, <3>2
  <2>7. CASE NextQueue(h)
    <3>1. PICK q \in left[h] :
            /\ cur' = [cur EXCEPT ![h] = q]
            /\ left' = [left EXCEPT ![h] = left[h] \ {q}]
      BY <2>7 DEF NextQueue
    <3>2. Cardinality(left[h] \ {q}) = Cardinality(left[h]) - 1
      BY <1>0, Counts
    <3>3. Cardinality(left[h]) \in Nat /\ Cardinality(Address) \in Nat
      BY <1>0, Counts
    <3>4. TypeOK'
      BY <1>0, <1>1, <2>7, <3>1
         DEF NextQueue, Goto, TypeOK, catalogue, kv, life, request
    <3>5. HandlerInv(h)'
      BY <1>0, <1>1, <2>7, <3>1, <3>2, <3>3
         DEF NextQueue, Goto, TypeOK, HandlerInv, Early, Looked, Hand,
             request
    <3> QED
      BY <3>4, <3>5
  <2>8. CASE LoopEnds(h)
    <3>1. Finished(h, "idle")
      BY <2>8 DEF LoopEnds
    <3>2. TypeOK'
      BY <1>0, <1>1, <2>8, <3>1, FinishedTyped
         DEF LoopEnds, TypeOK, catalogue, kv, life
    <3>3. HandlerInv(h)'
      BY <1>0, <1>1, <3>1, FinishedTyped
         DEF TypeOK, HandlerInv, Early, Looked, Hand
    <3> QED
      BY <3>2, <3>3
  <2> QED
    BY <2>1, <2>2, <2>3, <2>4, <2>5, <2>6, <2>7, <2>8 DEF HandlerStep
<1>3. \A i \in Handler \ {h} : HandlerInv(i)'
  BY <1>1, HandlerFrame, HandlerSame DEF Actor, Places
<1>4. \A s \in Slave : SlaveInv(s)'
  BY <1>1, HandlerFrame, SlaveSame, QueueConstantsOK DEF Actor, Places
<1> QED
  BY <1>2, <1>3, <1>4 DEF Places

\* A goroutine of AddJob runs.
LEMMA NotifyBase ==
  ASSUME Base, NEW h \in Handler, Notify(h)
  PROVE  Base'
<1> USE DEF Base
<1>1. /\ pending[h] \in 0..Cardinality(Address)
      /\ pending[h] > 0
      /\ pending' = [pending EXCEPT ![h] = pending[h] - 1]
      /\ Cardinality(Address) \in Nat
  BY Counts DEF Notify, TypeOK
<1>2. /\ listening' \in SUBSET Slave
      /\ UNCHANGED <<mqGroup, moved, queueJobs, queues, services, op, pc, job,
                     group, left, cur, jobsRead, queuesRead, spent>>
  BY DEF Notify, TypeOK, catalogue, kv, request, locals
<1>3. TypeOK'
  BY <1>1, <1>2 DEF TypeOK
<1>4. HandlerInv(h)'
  <2>1. left[h] \in SUBSET Address /\ HandlerInv(h)
    BY DEF TypeOK, Actor, Places
  <2>2. Cardinality(left[h]) \in Nat
    BY <2>1, Counts
  <2>3. pending[h] \in Nat /\ pending'[h] = pending[h] - 1
    BY <1>1 DEF TypeOK
  <2>4. pc[h] \notin Early
    BY <1>1, <2>1 DEF HandlerInv
  <2> QED
    BY <1>1, <1>2, <2>1, <2>2, <2>3, <2>4 DEF HandlerInv
<1>5. \A i \in Handler \ {h} : HandlerInv(i)'
  BY <1>1, <1>2, HandlerSame DEF TypeOK, Places
<1>6. \A s \in Slave : SlaveInv(s)'
  BY <1>2, SlaveSame DEF Places
<1> QED
  BY <1>3, <1>4, <1>5, <1>6 DEF Places

\* What an actor does next, and whom it tells.
LEMMA AfterTyped ==
  ASSUME Base, NEW a \in Actor, pc[a] \in Hand
  PROVE  /\ op[a] \in {"add", "del", "remove", "join", "leave"}
         /\ op[a] \in {"add", "del", "remove"} =>
                a \in Handler /\ a \notin Slave /\ After(a) = "loop"
         /\ op[a] = "join" => a \in Slave /\ a \notin Handler /\ After(a) = "check"
         /\ op[a] = "leave" => a \in Slave /\ a \notin Handler /\ After(a) = "dereg"
<1>1. CASE a \in Handler
  BY <1>1, QueueConstantsOK
     DEF Base, Places, HandlerInv, Hand, Early, Looked, After
<1>2. CASE a \in Slave
  BY <1>2, QueueConstantsOK DEF Base, Places, SlaveInv, Hand, After
<1> QED
  BY <1>1, <1>2 DEF Actor

\* The accesses to the list of queues.
LEMMA ListBase ==
  ASSUME Base, NEW a \in Actor, ListStep(a)
  PROVE  Base'
<1> USE DEF Base
<1>0. /\ pc[a] \in Hand
      /\ left[a] \in SUBSET Address
      /\ cur[a] \in Address
  <2>1. pc[a] \in Hand /\ left[a] \in SUBSET Address
    BY DEF ListStep, QueueExists, GetQueueList, SaveQueueList, Hand, TypeOK
  <2>2. CASE a \in Handler
    BY <2>1, <2>2 DEF Places, HandlerInv
  <2>3. CASE a \in Slave
    BY <2>1, <2>3, QueueConstantsOK DEF Places, SlaveInv, Hand
  <2> QED
    BY <2>1, <2>2, <2>3 DEF Actor
<1>1. /\ UNCHANGED <<mqGroup, moved, queueJobs, services, listening, op, job,
                     group, left, cur, jobsRead, spent>>
      /\ queues' \in SUBSET Address
      /\ queuesRead' \in [Actor -> SUBSET Address]
  BY <1>0 DEF ListStep, QueueExists, GetQueueList, SaveQueueList, Edited,
     TypeOK, catalogue, kv, life, request, locals
<1>2. \/ /\ \E step \in {"read", "write"} : pc' = [pc EXCEPT ![a] = step]
         /\ pending' = pending
      \/ /\ pc' = [pc EXCEPT ![a] = After(a)]
         /\ \/ op[a] # "add" /\ pending' = pending
            \/ op[a] = "add" /\ pending' = [pending EXCEPT ![a] = pending[a] + 1]
  BY DEF ListStep, QueueExists, GetQueueList, SaveQueueList, Goto, Told
<1>3. \A b \in Actor \ {a} : pc'[b] = pc[b]
  BY <1>2 DEF TypeOK
<1>4. \A i \in Handler \ {a} : HandlerInv(i)'
  <2>1. \A i \in Handler \ {a} : pending'[i] = pending[i]
    BY <1>2 DEF TypeOK
  <2> QED
    BY <1>1, <1>3, <2>1, HandlerSame DEF Places, Actor
<1>5. \A s \in Slave \ {a} : SlaveInv(s)'
  BY <1>1, <1>3, SlaveSame DEF Places, Actor
<1>6. CASE a \in Handler
  <2>1. HandlerInv(a) /\ Cardinality(left[a]) \in Nat
        /\ Cardinality(Address) \in Nat /\ pending[a] \in Nat
    BY <1>0, <1>6, Counts DEF Places, TypeOK
  <2>2. HandlerInv(a)'
    <3>1. ASSUME NEW step \in {"read", "write"}, pc' = [pc EXCEPT ![a] = step],
                 pending' = pending
          PROVE  HandlerInv(a)'
      BY <1>0, <1>1, <2>1, <3>1 DEF HandlerInv, Hand, Early, Looked, TypeOK
    <3>2. ASSUME pc' = [pc EXCEPT ![a] = "loop"], op[a] # "add",
                 pending' = pending
          PROVE  HandlerInv(a)'
      BY <1>0, <1>1, <2>1, <3>2 DEF HandlerInv, Hand, Early, Looked, TypeOK
    <3>3. ASSUME pc' = [pc EXCEPT ![a] = "loop"], op[a] = "add",
                 pending' = [pending EXCEPT ![a] = pending[a] + 1]
          PROVE  HandlerInv(a)'
      BY <1>0, <1>1, <1>6, <2>1, <3>3 DEF HandlerInv, Hand, Early, Looked, TypeOK
    <3> QED
      BY <1>0, <1>2, <1>6, <3>1, <3>2, <3>3, AfterTyped, QueueConstantsOK
  <2>3. pending' \in [Handler -> 0..Cardinality(Address)]
    <3>1. op[a] = "add" => pending[a] + 1 <= Cardinality(Address)
      BY <1>0, <2>1 DEF HandlerInv
    <3> QED
      BY <1>2, <1>6, <2>1, <3>1 DEF TypeOK
  <2>4. TypeOK'
    <3>1. pc'[a] \in {"read", "write", "loop"}
      BY <1>0, <1>2, <1>6, AfterTyped, QueueConstantsOK DEF TypeOK
    <3>2. pc' = [pc EXCEPT ![a] = pc'[a]]
      BY <1>2 DEF TypeOK
    <3> QED
      BY <1>1, <2>3, <3>1, <3>2 DEF TypeOK
  <2>5. a \notin Slave
    BY <1>6, QueueConstantsOK
  <2> QED
    BY <1>4, <1>5, <2>2, <2>4, <2>5 DEF Places
<1>7. CASE a \in Slave
  <2>0. a \notin Handler /\ op[a] # "add" /\ SlaveInv(a)
    BY <1>0, <1>7, AfterTyped, QueueConstantsOK DEF Places
  <2>1. pending' = pending
    BY <1>2, <2>0
  <2>2. /\ pc'[a] \in {"read", "write", "check", "dereg"}
        /\ pc' = [pc EXCEPT ![a] = pc'[a]]
    BY <1>0, <1>2, <2>0, AfterTyped DEF TypeOK
  <2>3. TypeOK'
    BY <1>1, <2>1, <2>2 DEF TypeOK
  <2>4. SlaveInv(a)'
    BY <1>0, <1>1, <2>0, <2>2 DEF SlaveInv, Hand
  <2> QED
    BY <1>4, <1>5, <2>0, <2>3, <2>4 DEF Places
<1> QED
  BY <1>6, <1>7 DEF Actor

\* A slave that starts, serves or ends leaves the others as they are.
LEMMA SlaveFrame ==
  ASSUME TypeOK, NEW s \in Slave,
         Boot(s) \/ Join(s) \/ Check(s) \/ Leave(s) \/ Deregister(s) \/ Crash(s)
  PROVE  /\ UNCHANGED <<mqGroup, moved, queueJobs, queues, pending>>
         /\ \A a \in Actor \ {s} :
                /\ pc'[a] = pc[a]
                /\ op'[a] = op[a]
                /\ cur'[a] = cur[a]
                /\ left'[a] = left[a]
                /\ queuesRead'[a] = queuesRead[a]
         /\ \A h \in Handler :
                /\ job'[h] = job[h]
                /\ group'[h] = group[h]
                /\ jobsRead'[h] = jobsRead[h]
         /\ \A t \in Slave \ {s} : t \in services' <=> t \in services
<1>0. s \in Actor /\ s \notin Handler
  BY QueueConstantsOK DEF Actor
<1>1. UNCHANGED <<mqGroup, moved, queueJobs, queues, pending>>
  BY DEF Boot, Join, Check, Leave, Deregister, Crash, catalogue, kv
<1>2. \A t \in Slave \ {s} : t \in services' <=> t \in services
  BY DEF Boot, Join, Check, Leave, Deregister, Crash, Joins, life
<1>3. CASE Boot(s) \/ Join(s) \/ Leave(s)
  BY <1>0, <1>1, <1>2, <1>3
     DEF Boot, Join, Leave, Joins, Goto, TypeOK, request, locals
<1>4. CASE Check(s) \/ Deregister(s) \/ Crash(s)
  <2>1. cur' = cur /\ \E step \in {"serving", "gone"} : Finished(s, step)
    BY <1>4 DEF Check, Deregister, Crash
  <2> QED
    BY <1>0, <1>1, <1>2, <2>1, FinishedTyped DEF TypeOK
<1> QED
  BY <1>3, <1>4

\* Slaves that start, serve and end.
LEMMA SlaveBase ==
  ASSUME Base, NEW s \in Slave,
         Boot(s) \/ Join(s) \/ Check(s) \/ Leave(s) \/ Deregister(s) \/ Crash(s)
  PROVE  Base'
<1> USE DEF Base
<1>0. /\ s \in Actor
      /\ s \notin Handler
      /\ SlaveInv(s)
      /\ AddrOf[s] \in Address
  BY QueueConstantsOK DEF Places, Actor
<1>1. TypeOK' /\ SlaveInv(s)'
  <2>1. CASE Boot(s)
    <3>1. spent' \in Budget
      BY <2>1, SpendCounts DEF Boot, TypeOK
    <3>2. TypeOK'
      BY <1>0, <2>1, <3>1
         DEF Boot, Joins, Goto, TypeOK, catalogue, kv, request
    <3>3. SlaveInv(s)'
      BY <1>0, <2>1 DEF Boot, Joins, Goto, TypeOK, SlaveInv, Hand
    <3> QED
      BY <3>2, <3>3
  <2>2. CASE Join(s)
    <3>1. \E step \in {"exists", "check"} : pc' = [pc EXCEPT ![s] = step]
      BY <2>2 DEF Join, Goto
    <3>2. TypeOK'
      BY <1>0, <2>2, <3>1
         DEF Join, TypeOK, catalogue, kv, life, request, locals
    <3>3. op[s] # "none"
      BY <2>2, <1>0 DEF SlaveInv, Join
    <3> QED
      BY <1>0, <2>2, <3>1, <3>2, <3>3
         DEF Join, TypeOK, SlaveInv, Hand, life, locals
  <2>3. CASE Check(s)
    <3>1. Finished(s, "serving") /\ listening' \in SUBSET Slave
      BY <2>3 DEF Check, TypeOK
    <3>2. TypeOK'
      BY <1>0, <2>3, <3>1, FinishedTyped DEF Check, TypeOK, catalogue, kv
    <3>3. SlaveInv(s)'
      BY <1>0, <2>3, <3>1, FinishedTyped DEF Check, TypeOK, SlaveInv, Hand
    <3> QED
      BY <3>2, <3>3
  <2>4. CASE Leave(s)
    <3>1. spent' \in Budget
      BY <2>4, SpendCounts DEF Leave, TypeOK
    <3>2. TypeOK'
      BY <1>0, <2>4, <3>1
         DEF Leave, Goto, TypeOK, catalogue, kv, life, request, locals
    <3>3. SlaveInv(s)'
      BY <1>0, <2>4
         DEF Leave, Serving, Goto, TypeOK, SlaveInv, Hand, life, locals
    <3> QED
      BY <3>2, <3>3
  <2>5. CASE Deregister(s)
    <3>1. Finished(s, "gone")
      BY <2>5 DEF Deregister
    <3>2. TypeOK'
      BY <1>0, <2>5, <3>1, FinishedTyped DEF Deregister, TypeOK, catalogue, kv
    <3>3. SlaveInv(s)'
      BY <1>0, <2>5, <3>1, FinishedTyped DEF Deregister, TypeOK, SlaveInv, Hand
    <3> QED
      BY <3>2, <3>3
  <2>6. CASE Crash(s)
    <3>1. Finished(s, "gone") /\ spent' \in Budget
      BY <2>6, SpendCounts DEF Crash, TypeOK
    <3>2. TypeOK'
      BY <1>0, <2>6, <3>1, FinishedTyped DEF Crash, TypeOK, catalogue, kv
    <3>3. SlaveInv(s)'
      BY <1>0, <2>6, <3>1, FinishedTyped DEF Crash, TypeOK, SlaveInv, Hand
    <3> QED
      BY <3>2, <3>3
  <2> QED
    BY <2>1, <2>2, <2>3, <2>4, <2>5, <2>6
<1>2. \A h \in Handler : HandlerInv(h)'
  BY <1>0, SlaveFrame, HandlerSame DEF Places, Actor
<1>3. \A t \in Slave \ {s} : SlaveInv(t)'
  BY SlaveFrame, SlaveSame DEF Places, Actor
<1> QED
  BY <1>1, <1>2, <1>3 DEF Places

\* A reload.
LEMMA ReloadBase ==
  ASSUME Base, NEW s \in Slave, NEW t \in Slave, Reload(s, t)
  PROVE  Base'
<1> USE DEF Base
<1>0. /\ s \in Actor /\ t \in Actor
      /\ s # t
      /\ SlaveInv(s) /\ SlaveInv(t)
      /\ AddrOf[t] \in Address
  BY QueueConstantsOK DEF Places, Actor, Reload, Serving
<1>1. TypeOK'
  <2>1. spent' \in Budget
    BY SpendCounts DEF Reload, TypeOK
  <2> QED
    BY <1>0, <2>1 DEF Reload, Joins, TypeOK, catalogue, kv, request
<1>2. SlaveInv(s)' /\ SlaveInv(t)'
  BY <1>0 DEF Reload, Serving, Joins, TypeOK, SlaveInv, Hand
<1>3. \A r \in Slave \ {s, t} : SlaveInv(r)'
  BY SlaveSame DEF Reload, Joins, TypeOK, Places, Actor
<1>4. \A h \in Handler : HandlerInv(h)'
  BY HandlerSame, QueueConstantsOK
     DEF Reload, Joins, TypeOK, Places, Actor, request
<1> QED
  BY <1>1, <1>2, <1>3, <1>4 DEF Places

\* Every step keeps types and places.
LEMMA BaseStep == Base /\ [Next]_vars => Base'
<1> SUFFICES ASSUME Base, [Next]_vars PROVE Base'
  OBVIOUS
<1>1. CASE UNCHANGED vars
  BY <1>1 DEF Base, TypeOK, Places, HandlerInv, SlaveInv, vars, catalogue, kv,
     life, request, locals
<1>2. CASE Next
  BY <1>2, RequestBase, MoveBase, NodeDelBase, HandlerBase, NotifyBase,
     ListBase, SlaveBase, ReloadBase DEF Next
<1> QED
  BY <1>1, <1>2

-----------------------------------------------------------------------------
(***************************************************************************)
(* One actor at work.                                                      *)
(***************************************************************************)
\* The counters never go down.
LEMMA CountersGrow ==
  ASSUME Base, [Next]_vars
  PROVE  /\ OneAtATime' => OneAtATime
         /\ RecordedInTurn' => RecordedInTurn
         /\ Orderly' => Orderly
         /\ spent'.crashes = 0 => spent.crashes = 0
<1>1. spent' = spent \/ \E E : Spend(E)
  BY HandlerFrame
     DEF Base, Next, vars, Request, Move, NodeDel, Notify, ListStep,
         QueueExists, GetQueueList, SaveQueueList, Boot, Join, Check, Leave,
         Deregister, Crash, Reload
<1> QED
  BY <1>1, SpendCounts DEF Base, TypeOK, OneAtATime, RecordedInTurn, Orderly

\* Requests that meet at the job list are work that overlaps.
LEMMA MeetsOverlap ==
  ASSUME Base, Lone, OneAtATime, OneAtATime', [Next]_vars
  PROVE  RecordedInTurn'
<1>1. spent.meets = 0
  BY DEF Lone, RecordedInTurn
<1>2. ASSUME NEW h \in Handler, NEW kind, NEW j, NEW g, Request(h, kind, j, g)
      PROVE  spent' = spent \/ \E E : Spend(E) /\ "meets" \notin E
  <2>1. Busy = {}
    <3>1. Spend({"requests"} \cup Meet \cup Overlap)
      BY <1>2 DEF Request
    <3>2. "overlaps" \notin Overlap
      BY <3>1, SpendCounts DEF Base, TypeOK, OneAtATime
    <3> QED
      BY <3>2 DEF Overlap
  <2>2. Meet = {} /\ Overlap = {}
    BY <2>1 DEF Meet, Overlap, Busy, Recording, Resting, Actor
  <2> QED
    BY <1>2, <2>2 DEF Request
<1>3. ASSUME ~ \E h \in Handler, j \in Job, g \in Group :
                    Request(h, "add", j, g) \/ Request(h, "del", j, g)
      PROVE  spent' = spent \/ \E E : Spend(E) /\ "meets" \notin E
  <2>1. "meets" \notin Overlap
    BY DEF Overlap
  <2>2. ASSUME NEW j, NEW g, Move(j, g)
        PROVE  \E E : Spend(E) /\ "meets" \notin E
    BY <2>2 DEF Move
  <2>3. ASSUME NEW h, NEW q, NodeDel(h, q)
        PROVE  \E E : Spend(E) /\ "meets" \notin E
    BY <2>1, <2>3 DEF NodeDel
  <2>4. ASSUME NEW s, Boot(s) \/ Leave(s) \/ Crash(s)
        PROVE  \E E : Spend(E) /\ "meets" \notin E
    BY <2>1, <2>4 DEF Boot, Leave, Crash
  <2>5. ASSUME NEW s, NEW t, Reload(s, t)
        PROVE  \E E : Spend(E) /\ "meets" \notin E
    BY <2>5 DEF Reload
  <2>6. ASSUME NEW h \in Handler, HandlerStep(h)
        PROVE  spent' = spent
    BY <2>6, HandlerFrame DEF Base
  <2>7. ASSUME NEW a, ListStep(a) \/ Notify(a) \/ Join(a) \/ Check(a)
                          \/ Deregister(a)
        PROVE  spent' = spent
    BY <2>7 DEF ListStep, QueueExists, GetQueueList, SaveQueueList, Notify,
       Join, Check, Deregister
  <2> QED
    BY <1>3, <2>2, <2>3, <2>4, <2>5, <2>6, <2>7 DEF Next, vars
<1>4. spent' = spent \/ \E E : Spend(E) /\ "meets" \notin E
  BY <1>2, <1>3
<1> QED
  BY <1>1, <1>4, SpendCounts DEF Base, TypeOK, RecordedInTurn

\* Work that begins beside no other work finds everybody at rest.
LEMMA BeginsAlone ==
  ASSUME Base, OneAtATime'
  PROVE  /\ \A E : Spend(E \cup Overlap) => Busy = {}
         /\ Spend(Overlap) => Busy = {}
         /\ ~ Spend({"reloads", "overlaps"})
<1>1. \A E : Spend(E) => "overlaps" \notin E
  BY SpendCounts DEF Base, TypeOK, OneAtATime
<1> QED
  BY <1>1 DEF Overlap

\* When one actor moves and the others rest, at most it is at work.
LEMMA LoneMover ==
  ASSUME NEW a \in Actor, Busy \subseteq {a},
         \A b \in Actor \ {a} : pc'[b] = pc[b]
  PROVE  \A x, y \in Busy' : x = y
BY DEF Busy

\* An actor at work is alone.
LEMMA OnlyBusy ==
  ASSUME Lone, OneAtATime, NEW a \in Actor, pc[a] \notin Resting
  PROVE  Busy \subseteq {a}
BY DEF Lone, Busy

\* Every step keeps whoever is at work alone, as long as work does not overlap.
LEMMA LoneStep ==
  ASSUME Base, Base', Lone, [Next]_vars
  PROVE  Lone'
<1> SUFFICES ASSUME OneAtATime'
             PROVE  /\ \A a, b \in Busy' : a = b
                    /\ \A s, t \in services' : AddrOf[s] = AddrOf[t] => s = t
                    /\ \A a \in Actor :
                        pc'[a] = "write" => queuesRead'[a] = queues'
  BY CountersGrow, MeetsOverlap DEF Lone
<1>0. OneAtATime
  BY CountersGrow
<1>L. /\ \A a, b \in Busy : a = b
      /\ \A s, t \in services : AddrOf[s] = AddrOf[t] => s = t
      /\ \A a \in Actor : pc[a] = "write" => queuesRead[a] = queues
  BY <1>0 DEF Lone
<1>1. CASE \/ UNCHANGED vars
           \/ \E j \in Job, g \in Group : Move(j, g)
           \/ \E h \in Handler : Notify(h)
  <2>1. UNCHANGED <<pc, services, queues, queuesRead>>
    BY <1>1 DEF vars, Move, Notify, kv, life, locals
  <2> QED
    BY <1>L, <2>1 DEF Busy
<1>2. ASSUME NEW h \in Handler,
             \/ \E j \in Job, g \in Group :
                    Request(h, "add", j, g) \/ Request(h, "del", j, g)
             \/ \E q \in Address : NodeDel(h, q)
      PROVE  /\ \A a, b \in Busy' : a = b
             /\ \A s, t \in services' : AddrOf[s] = AddrOf[t] => s = t
             /\ \A a \in Actor : pc'[a] = "write" => queuesRead'[a] = queues'
  <2>1. Busy = {}
    BY <1>2, BeginsAlone DEF Request, NodeDel
  <2>2. /\ h \in Actor
        /\ \A b \in Actor \ {h} : pc'[b] = pc[b]
        /\ pc'[h] # "write"
        /\ UNCHANGED <<services, queues, queuesRead>>
    BY <1>2 DEF Request, NodeDel, Goto, Base, TypeOK, Actor, kv, life, locals
  <2>3. \A a \in Actor : pc'[a] # "write"
    BY <2>1, <2>2 DEF Busy, Resting
  <2> QED
    BY <1>L, <2>1, <2>2, <2>3, LoneMover
<1>3. ASSUME NEW h \in Handler, HandlerStep(h)
      PROVE  /\ \A a, b \in Busy' : a = b
             /\ \A s, t \in services' : AddrOf[s] = AddrOf[t] => s = t
             /\ \A a \in Actor : pc'[a] = "write" => queuesRead'[a] = queues'
  <2>1. h \in Actor /\ pc[h] \notin Resting
    BY <1>3 DEF HandlerStep, FindNodes, ReadJobs, AppendJob, RemoveJob,
       SaveJobs, CheckUnused, NextQueue, LoopEnds, Resting, Actor
  <2>2. Busy \subseteq {h}
    BY <1>0, <2>1, OnlyBusy
  <2>3. pc'[h] # "write"
    BY <1>3, <2>1, FinishedTyped DEF HandlerStep, FindNodes, ReadJobs,
       AppendJob, RemoveJob, SaveJobs, CheckUnused, NextQueue, LoopEnds, Goto,
       Base, TypeOK
  <2>4. \A a \in Actor : pc'[a] # "write"
    BY <1>3, <2>2, <2>3, HandlerFrame DEF Busy, Resting, Base
  <2> QED
    BY <1>3, <1>L, <2>1, <2>2, <2>4, HandlerFrame, LoneMover DEF Base
<1>4. ASSUME NEW a \in Actor, ListStep(a)
      PROVE  /\ \A x, y \in Busy' : x = y
             /\ \A s, t \in services' : AddrOf[s] = AddrOf[t] => s = t
             /\ \A b \in Actor : pc'[b] = "write" => queuesRead'[b] = queues'
  <2>1. pc[a] \in Hand
    BY <1>4 DEF ListStep, QueueExists, GetQueueList, SaveQueueList, Hand
  <2>2. Busy \subseteq {a}
    BY <1>0, <2>1, OnlyBusy DEF Resting, Hand
  <2>3. /\ \A b \in Actor \ {a} : pc'[b] = pc[b]
        /\ services' = services
    BY <1>4 DEF ListStep, QueueExists, GetQueueList, SaveQueueList, Goto, Base,
       TypeOK, life
  <2>4. pc'[a] = "write" => queuesRead'[a] = queues'
    <3>1. After(a) # "write"
      BY <2>1, AfterTyped DEF Base
    <3> QED
      BY <1>4, <3>1 DEF ListStep, QueueExists, GetQueueList, SaveQueueList,
         Goto, Base, TypeOK, kv
  <2>5. \A b \in Actor \ {a} : pc'[b] # "write"
    BY <2>2, <2>3 DEF Busy, Resting
  <2> QED
    BY <1>L, <2>2, <2>3, <2>4, <2>5, LoneMover
<1>5. ASSUME NEW s \in Slave,
             Boot(s) \/ Join(s) \/ Check(s) \/ Leave(s) \/ Deregister(s) \/ Crash(s)
      PROVE  /\ \A a, b \in Busy' : a = b
             /\ \A r, t \in services' : AddrOf[r] = AddrOf[t] => r = t
             /\ \A a \in Actor : pc'[a] = "write" => queuesRead'[a] = queues'
  <2>0. s \in Actor
    BY DEF Actor
  <2>1. CASE Crash(s)
    <3>1. /\ pc'[s] = "gone"
          /\ services' = services \ {s}
      BY <2>0, <2>1, FinishedTyped DEF Crash, Base, TypeOK
    <3>2. \A a \in Busy' : a \in Busy
      BY <2>1, <3>1, SlaveFrame DEF Busy, Resting, Base
    <3>3. \A a \in Actor : pc'[a] = "write" => queuesRead'[a] = queues'
      BY <1>L, <2>1, <3>1, SlaveFrame DEF Base
    <3> QED
      BY <1>L, <3>1, <3>2, <3>3
  <2>2. CASE Boot(s) \/ Join(s) \/ Check(s) \/ Leave(s) \/ Deregister(s)
    <3>1. Busy \subseteq {s}
      <4>1. CASE Boot(s) \/ Leave(s)
        BY <4>1, BeginsAlone DEF Boot, Leave
      <4>2. CASE Join(s) \/ Check(s) \/ Deregister(s)
        BY <1>0, <2>0, <4>2, OnlyBusy DEF Join, Check, Deregister, Resting
      <4> QED
        BY <2>2, <4>1, <4>2
    <3>2. \A a \in Actor \ {s} : pc'[a] = pc[a]
      BY <2>2, SlaveFrame DEF Base
    <3>3. pc'[s] # "write"
      <4>1. CASE Check(s) \/ Deregister(s)
        BY <2>0, <4>1, FinishedTyped DEF Check, Deregister, Base, TypeOK
      <4>2. CASE Boot(s) \/ Join(s) \/ Leave(s)
        BY <2>0, <4>2 DEF Boot, Join, Leave, Goto, Base, TypeOK
      <4> QED
        BY <2>2, <4>1, <4>2
    <3>4. \A r, t \in services' : AddrOf[r] = AddrOf[t] => r = t
      <4>1. CASE Boot(s)
        BY <1>L, <4>1 DEF Boot, Joins, Base, Places, SlaveInv, TypeOK
      <4>2. CASE Join(s) \/ Check(s) \/ Leave(s) \/ Deregister(s)
        BY <1>L, <4>2 DEF Join, Check, Leave, Deregister, life
      <4> QED
        BY <2>2, <4>1, <4>2
    <3>5. \A a \in Actor : pc'[a] # "write"
      BY <3>1, <3>2, <3>3 DEF Busy, Resting
    <3> QED
      BY <2>0, <3>1, <3>2, <3>4, <3>5, LoneMover
  <2> QED
    BY <1>5, <2>1, <2>2
<1>6. ASSUME NEW s \in Slave, NEW t \in Slave, Reload(s, t)
      PROVE  FALSE
  BY <1>6, BeginsAlone DEF Reload
<1> QED
  BY <1>1, <1>2, <1>3, <1>4, <1>5, <1>6 DEF Next

-----------------------------------------------------------------------------
(***************************************************************************)
(* The job list.                                                           *)
(***************************************************************************)
\* A request that begins meets nobody at the job list, if requests come in turn.
LEMMA NobodyRecords ==
  ASSUME Base, RecordedInTurn', NEW h, NEW kind, NEW j, NEW g,
         Request(h, kind, j, g)
  PROVE  \A i \in Handler : pc[i] \notin Recording
<1>1. Spend({"requests"} \cup Meet \cup Overlap)
  BY DEF Request
<1>2. "meets" \notin Meet
  BY <1>1, SpendCounts DEF Base, TypeOK, RecordedInTurn
<1> QED
  BY <1>2 DEF Meet

\* A step that leaves the catalogue, the job list and the handlers that edit
\* it as they are.
LEMMA JobsSame ==
  ASSUME Base, JobsRecorded, [Next]_vars,
         UNCHANGED <<mqGroup, moved, queueJobs>>,
         \A h \in Handler :
            \/ pc[h] \notin Recording /\ pc'[h] \notin Recording
            \/ pc'[h] = pc[h],
         \A h \in Handler :
            \/ pc[h] \notin Recording /\ pc'[h] \notin Recording
            \/ /\ op'[h] = op[h]
               /\ job'[h] = job[h]
               /\ group'[h] = group[h]
               /\ jobsRead'[h] = jobsRead[h]
  PROVE  JobsRecorded'
<1> SUFFICES ASSUME RecordedInTurn' PROVE JobsRecorded'
  BY DEF JobsRecorded
<1>1. RecordedInTurn
  BY CountersGrow
<1>0. \A h, i \in Handler :
        pc'[h] \in Recording /\ pc'[i] \in Recording => h = i
  BY <1>1 DEF JobsRecorded
<1>2. ASSUME NEW h \in Handler PROVE JobsCurrent(h)'
  BY <1>1 DEF JobsRecorded, JobsCurrent, Recording
<1>3. ASSUME NEW h \in Handler, NEW j \in Job, NEW g, Records(h, j, g)
      PROVE  Records(h, j, g)'
  BY <1>3 DEF Records
<1>4. ASSUME NEW j \in Job \ moved, mqGroup[j] # None
      PROVE  \/ j \in queueJobs[mqGroup[j]]
             \/ \E h \in Handler : Records(h, j, mqGroup[j])'
  BY <1>1, <1>3, <1>4 DEF JobsRecorded
<1> QED
  BY <1>0, <1>2, <1>4 DEF JobsRecorded, Records

\* A request that begins owes its job to the list.
LEMMA RequestJobs ==
  ASSUME Base, Lone, JobsRecorded, NEW h \in Handler, NEW kind \in {"add", "del"},
         NEW j \in Job, NEW g \in Group, Request(h, kind, j, g), [Next]_vars
  PROVE  JobsRecorded'
<1> SUFFICES ASSUME RecordedInTurn' PROVE JobsRecorded'
  BY DEF JobsRecorded
<1> USE DEF Base
<1>0. h \in Actor /\ RecordedInTurn
  BY CountersGrow DEF Actor
<1>1. /\ pc[h] = "idle"
      /\ (kind = "add") <=> (mqGroup[j] = None)
      /\ mqGroup' = [mqGroup EXCEPT ![j] = IF kind = "add" THEN g ELSE None]
      /\ moved' = moved \ {j}
      /\ op' = [op EXCEPT ![h] = kind]
      /\ job' = [job EXCEPT ![h] = {j}]
      /\ group' = [group EXCEPT ![h] = g]
      /\ pc' = [pc EXCEPT ![h] = "nodes"]
      /\ UNCHANGED <<queueJobs, jobsRead>>
  BY DEF Request, Goto, kv, locals
<1>2. \A i \in Handler : pc[i] \notin Recording
  BY NobodyRecords
<1>4. \A i \in Handler \ {h} : pc'[i] \notin Recording
  BY <1>1, <1>2 DEF TypeOK, Actor
<1>5. /\ pc'[h] = "nodes" /\ op'[h] = kind /\ job'[h] = {j} /\ group'[h] = g
      /\ mqGroup'[j] = IF kind = "add" THEN g ELSE None
  BY <1>0, <1>1 DEF TypeOK
<1>6. \A i \in Handler : JobsCurrent(i)'
  BY <1>4, <1>5 DEF JobsCurrent, Recording
<1>7. ASSUME NEW k \in Job \ moved', mqGroup'[k] # None
      PROVE  \/ k \in queueJobs'[mqGroup'[k]]
             \/ \E i \in Handler : Records(i, k, mqGroup[k])'
  <2>1. CASE k = j
    BY <1>5, <1>7, <2>1 DEF Records, Recording
  <2>2. CASE k # j
    <3>1. k \in Job \ moved /\ mqGroup'[k] = mqGroup[k]
      BY <1>1, <1>7, <2>2 DEF TypeOK
    <3>2. k \in queueJobs[mqGroup[k]]
      BY <1>0, <1>2, <1>7, <3>1 DEF JobsRecorded, Records, Recording
    <3> QED
      BY <1>1, <3>1, <3>2
  <2> QED
    BY <2>1, <2>2
<1> QED
  BY <1>4, <1>6, <1>7 DEF JobsRecorded

\* A job that moves is none of those the property speaks of.
LEMMA MoveJobs ==
  ASSUME Base, JobsRecorded, NEW j \in Job, NEW g \in Group, Move(j, g), [Next]_vars
  PROVE  JobsRecorded'
<1> SUFFICES ASSUME RecordedInTurn' PROVE JobsRecorded'
  BY DEF JobsRecorded
<1>0. RecordedInTurn
  BY CountersGrow
<1>1. /\ mqGroup[j] # None
      /\ mqGroup' = [mqGroup EXCEPT ![j] = g]
      /\ moved' = moved \cup {j}
      /\ UNCHANGED <<queueJobs, pc, op, job, group, jobsRead>>
  BY DEF Move, kv, request, locals
<1>2. \A k \in Job : k # j => mqGroup'[k] = mqGroup[k]
  BY <1>1 DEF Base, TypeOK
<1>3. ASSUME NEW h \in Handler PROVE JobsCurrent(h)'
  <2>1. pc[h] \in Recording /\ op[h] = "del" =>
            \A k \in job[h] : k \in Job /\ mqGroup[k] = None
    BY <1>0 DEF JobsRecorded, JobsCurrent, Base, TypeOK
  <2> QED
    BY <1>0, <1>1, <1>2, <2>1 DEF JobsRecorded, JobsCurrent
<1>4. ASSUME NEW k \in Job \ moved', mqGroup'[k] # None
      PROVE  \/ k \in queueJobs'[mqGroup'[k]]
             \/ \E h \in Handler : Records(h, k, mqGroup[k])'
  BY <1>0, <1>1, <1>2, <1>4 DEF JobsRecorded, Records
<1> QED
  BY <1>0, <1>1, <1>3, <1>4 DEF JobsRecorded

\* The handler at work reads, edits and saves the list.
LEMMA EditJobs ==
  ASSUME Base, Lone, JobsRecorded, NEW h \in Handler, [Next]_vars,
         FindNodes(h) \/ ReadJobs(h) \/ AppendJob(h) \/ RemoveJob(h) \/ SaveJobs(h)
  PROVE  JobsRecorded'
<1> SUFFICES ASSUME RecordedInTurn' PROVE JobsRecorded'
  BY DEF JobsRecorded
<1> USE DEF Base
<1>0. /\ h \in Actor
      /\ RecordedInTurn
      /\ HandlerInv(h)
      /\ JobsCurrent(h)
      /\ HandlerStep(h)
  BY CountersGrow DEF Actor, Places, JobsRecorded, HandlerStep
<1>1. /\ pc[h] \in Recording
      /\ UNCHANGED <<mqGroup, moved, op, job, group>>
  BY DEF FindNodes, ReadJobs, AppendJob, RemoveJob, SaveJobs, Recording,
     catalogue, request
<1>2. \A i \in Handler \ {h} : pc[i] \notin Recording /\ pc'[i] \notin Recording
  BY <1>0, <1>1, HandlerFrame DEF JobsRecorded, Actor
<1>3. \A i \in Handler \ {h} : JobsCurrent(i)'
  BY <1>2 DEF JobsCurrent, Recording
<1>4. group[h] \in Group /\ op[h] \in {"add", "del"} /\ job[h] \in SUBSET Job
  BY <1>0, <1>1 DEF HandlerInv, Recording, Early, Looked, TypeOK
<1>5. \A j \in Job \ moved :
        mqGroup[j] # None =>
            j \in queueJobs[mqGroup[j]] \/ Records(h, j, mqGroup[j])
  BY <1>0, <1>2 DEF JobsRecorded, Records, Recording
<1>6. CASE FindNodes(h) \/ ReadJobs(h) \/ AppendJob(h) \/ RemoveJob(h)
  <2>1. /\ queueJobs' = queueJobs
        /\ op[h] = "add" => pc'[h] \in Recording
    BY <1>0, <1>6 DEF FindNodes, ReadJobs, AppendJob, RemoveJob, Goto, kv,
       Recording, TypeOK
  <2>2. JobsCurrent(h)'
    <3>1. CASE FindNodes(h)
      BY <1>0, <1>1, <3>1 DEF FindNodes, Goto, JobsCurrent, TypeOK, kv
    <3>2. CASE ReadJobs(h)
      BY <1>0, <1>1, <3>2 DEF ReadJobs, Goto, JobsCurrent, TypeOK, kv
    <3>3. CASE AppendJob(h)
      <4>1. /\ jobsRead[h] = queueJobs
            /\ jobsRead'[h] = Appended(h)
            /\ pc'[h] = "save"
        BY <1>0, <3>3 DEF AppendJob, Goto, JobsCurrent, TypeOK
      <4>2. Appended(h) = [queueJobs EXCEPT ![group[h]] =
                              queueJobs[group[h]] \cup job[h]]
        <5>1. CASE queueJobs[group[h]] = {}
          BY <4>1, <5>1 DEF Appended
        <5>2. CASE queueJobs[group[h]] # {}
          BY <4>1, <5>2 DEF Appended
        <5> QED
          BY <5>1, <5>2
      <4> QED
        BY <1>0, <1>1, <2>1, <3>3, <4>1, <4>2 DEF AppendJob, JobsCurrent
    <3>4. CASE RemoveJob(h)
      <4>1. jobsRead[h] = queueJobs /\ op[h] = "del"
        BY <1>0, <3>4 DEF RemoveJob, JobsCurrent
      <4>2. CASE queueJobs[group[h]] # {} /\ job[h] = jobsRead[h][group[h]]
        BY <1>0, <1>1, <2>1, <3>4, <4>1, <4>2
           DEF RemoveJob, Goto, JobsCurrent, TypeOK
      <4>3. CASE ~ (queueJobs[group[h]] # {} /\ job[h] = jobsRead[h][group[h]])
        BY <1>0, <1>1, <2>1, <3>4, <4>1, <4>3
           DEF RemoveJob, Goto, JobsCurrent, TypeOK
      <4> QED
        BY <4>2, <4>3
    <3> QED
      BY <1>6, <3>1, <3>2, <3>3, <3>4
  <2>3. \A j \in Job : Records(h, j, mqGroup[j]) => Records(h, j, mqGroup[j])'
    BY <1>1, <2>1 DEF Records
  <2> QED
    BY <1>0, <1>1, <1>2, <1>3, <1>5, <2>1, <2>2, <2>3
       DEF JobsRecorded, Records
<1>7. CASE SaveJobs(h)
  <2>1. /\ queueJobs' = jobsRead[h]
        /\ pc[h] = "save"
        /\ pc'[h] \in {"loop", "unused"}
    BY <1>0, <1>7 DEF SaveJobs, Goto, TypeOK
  <2>2. JobsCurrent(h)'
    BY <1>0, <1>1, <2>1 DEF JobsCurrent
  <2>3. ASSUME NEW j \in Job \ moved, mqGroup[j] # None
        PROVE  j \in queueJobs'[mqGroup[j]]
    <3>1. mqGroup[j] \in Group
      BY <2>3 DEF TypeOK
    <3>2. CASE op[h] = "add"
      <4>1. queueJobs' = [queueJobs EXCEPT ![group[h]] =
                             queueJobs[group[h]] \cup job[h]]
        BY <1>0, <2>1, <3>2 DEF JobsCurrent
      <4>2. CASE Records(h, j, mqGroup[j])
        BY <1>4, <4>1, <4>2 DEF Records, TypeOK
      <4>3. CASE j \in queueJobs[mqGroup[j]]
        BY <1>4, <3>1, <4>1, <4>3 DEF TypeOK
      <4> QED
        BY <1>5, <2>3, <4>2, <4>3
    <3>3. CASE op[h] = "del"
      <4>1. /\ queueJobs' = [queueJobs EXCEPT ![group[h]] = {}]
            /\ queueJobs[group[h]] = job[h]
            /\ \A k \in job[h] : mqGroup[k] = None
        BY <1>0, <1>1, <2>1, <3>3 DEF JobsCurrent
      <4>2. j \in queueJobs[mqGroup[j]]
        BY <1>5, <2>3, <3>3 DEF Records
      <4> QED
        BY <2>3, <3>1, <4>1, <4>2 DEF TypeOK
    <3> QED
      BY <1>4, <3>2, <3>3
  <2> QED
    BY <1>1, <1>2, <1>3, <2>2, <2>3 DEF JobsRecorded
<1> QED
  BY <1>6, <1>7

\* Every step keeps the MQ jobs recorded, or about to be.
LEMMA JobsStep ==
  ASSUME Base, Lone, JobsRecorded, [Next]_vars
  PROVE  JobsRecorded'
<1> USE DEF Base
<1>1. CASE UNCHANGED vars
  BY <1>1, JobsSame DEF vars, catalogue, kv, request, locals
<1>2. ASSUME NEW h \in Handler, NEW q \in Address, NodeDel(h, q)
      PROVE  JobsRecorded'
  BY <1>2, JobsSame DEF NodeDel, Goto, TypeOK, Actor, catalogue, kv, request,
     Recording
<1>3. ASSUME NEW h \in Handler, Notify(h)
      PROVE  JobsRecorded'
  BY <1>3, JobsSame DEF Notify, catalogue, kv, request, locals
<1>4. ASSUME NEW a \in Actor, ListStep(a)
      PROVE  JobsRecorded'
  <2>1. /\ UNCHANGED <<mqGroup, moved, queueJobs, op, job, group, jobsRead>>
        /\ \A b \in Actor : \/ pc'[b] = pc[b]
                            \/ pc[b] \in Hand /\ pc'[b] \in {"read", "write", After(b)}
    BY <1>4 DEF ListStep, QueueExists, GetQueueList, SaveQueueList, Goto, TypeOK,
       catalogue, kv, request, locals, Hand
  <2> QED
    BY <2>1, JobsSame, AfterTyped DEF Recording, Hand, Actor
<1>5. ASSUME NEW s \in Slave,
             Boot(s) \/ Join(s) \/ Check(s) \/ Leave(s) \/ Deregister(s) \/ Crash(s)
      PROVE  JobsRecorded'
  BY <1>5, JobsSame, SlaveFrame, QueueConstantsOK DEF Actor
<1>6. ASSUME NEW s \in Slave, NEW t \in Slave, Reload(s, t)
      PROVE  JobsRecorded'
  BY <1>6, JobsSame, QueueConstantsOK
     DEF Reload, TypeOK, Actor, catalogue, kv, request
<1>7. ASSUME NEW h \in Handler, HandlerStep(h)
      PROVE  JobsRecorded'
  <2>1. CASE CheckUnused(h) \/ NextQueue(h) \/ LoopEnds(h)
    <3>1. /\ queueJobs' = queueJobs
          /\ \/ Finished(h, "idle")
             \/ \E step \in {"loop", "exists"} :
                    Goto(h, step) /\ UNCHANGED <<op, job, group, jobsRead>>
          /\ pc[h] \in {"unused", "loop"}
      BY <2>1 DEF CheckUnused, NextQueue, LoopEnds, kv, request
    <3>2. /\ pc'[h] \notin Recording /\ pc[h] \notin Recording
          /\ \/ op'[h] = "none"
             \/ UNCHANGED <<op, job, group, jobsRead>>
      BY <3>1, FinishedTyped DEF Goto, TypeOK, Actor, Recording
    <3> QED
      BY <1>7, <3>1, <3>2, HandlerFrame, JobsSame DEF Actor
  <2> QED
    BY <1>7, <2>1, EditJobs DEF HandlerStep
<1> QED
  BY <1>1, <1>2, <1>3, <1>4, <1>5, <1>6, <1>7, RequestJobs, MoveJobs DEF Next

-----------------------------------------------------------------------------
(***************************************************************************)
(* The queues.                                                             *)
(***************************************************************************)
\* What the invariant says where it applies.
QueuesNow ==
    /\ \A h \in Handler : NodesKnown(h)
    /\ \A s \in Slave : QueueThere(s)
    /\ spent.crashes = 0 => \A q \in queues : QueueNeeded(q)

\* A handler that is idle owes nothing.
LEMMA IdleOwesNothing ==
  ASSUME NEW h \in Handler, pc[h] = "idle", NEW kind, NEW q
  PROVE  ~ Owes(h, kind, q)
BY DEF Owes, Hand

\* When nobody is at work every node that serves has the queue it needs.
LEMMA NothingOwed ==
  ASSUME Base, QueuesNow, \A h \in Handler : pc[h] = "idle"
  PROVE  /\ \A s \in Slave :
                pc[s] = "serving" /\ Used(GroupOf[AddrOf[s]])
                    => AddrOf[s] \in queues
         /\ spent.crashes = 0 =>
                \A q \in queues : q \in Served /\ Used(GroupOf[q])
BY IdleOwesNothing DEF QueuesNow, QueueThere, QueueNeeded, Owed

\* There is nothing an idle handler has to know.
LEMMA IdleKnows ==
  ASSUME Base, NEW h \in Handler, NodesKnown(h), pc[h] = "idle",
         pc'[h] = pc[h], op'[h] = op[h], left'[h] = left[h]
  PROVE  NodesKnown(h)'
<1>1. op'[h] = "none" /\ left'[h] = {} /\ pc'[h] = "idle"
  BY DEF Base, Places, HandlerInv
<1> QED
  BY <1>1 DEF NodesKnown, Hand, Looked

\* A request that begins owes nothing yet.
LEMMA RequestQueues ==
  ASSUME Base, Orderly', QueuesNow, NEW h \in Handler,
         NEW kind \in {"add", "del"}, NEW j \in Job, NEW g \in Group,
         Request(h, kind, j, g)
  PROVE  QueuesNow'
<1> USE DEF Base
<1>1. Busy = {}
  BY BeginsAlone DEF Request, Orderly
<1>2. /\ \A i \in Handler : pc[i] = "idle"
      /\ \A s \in Slave : pc[s] \in {"new", "serving", "gone"}
  BY <1>1 DEF Busy, Resting, Actor, Places, HandlerInv, SlaveInv, Early, Looked,
     Hand
<1>3. /\ UNCHANGED <<queueJobs, queues, services, left, cur>>
      /\ op' = [op EXCEPT ![h] = kind]
      /\ pc' = [pc EXCEPT ![h] = "nodes"]
      /\ spent'.crashes = 0 => spent.crashes = 0
  BY SpendCounts DEF Request, Goto, kv, life, locals, TypeOK
<1>4. \A i \in Handler \ {h} : NodesKnown(i)'
  BY <1>2, <1>3, IdleKnows DEF QueuesNow, TypeOK, Actor
<1>5. NodesKnown(h)'
  <2>1. left'[h] = {} /\ pc'[h] = "nodes" /\ op'[h] = kind
    BY <1>2, <1>3 DEF Places, HandlerInv, TypeOK, Actor
  <2> QED
    BY <2>1 DEF NodesKnown, Hand, Looked
<1>6. \A s \in Slave : pc'[s] = pc[s] /\ op'[s] = op[s]
  BY <1>3, QueueConstantsOK DEF TypeOK, Actor
<1>7. \A s \in Slave : QueueThere(s)'
  BY <1>2, <1>3, <1>6, NothingOwed DEF QueueThere, Used, Hand
<1>8. spent'.crashes = 0 => \A q \in queues' : QueueNeeded(q)'
  BY <1>2, <1>3, NothingOwed DEF QueueNeeded, Served, Used
<1> QED
  BY <1>4, <1>5, <1>7, <1>8 DEF QueuesNow

\* The steps of a handler: what remains to be shown when it alone moves.
LEMMA HandlerAlone ==
  ASSUME Base, Lone, Orderly', Orderly, QueuesNow, NEW h \in Handler,
         pc[h] # "idle", UNCHANGED <<services, spent>>,
         \A a \in Actor \ {h} :
            /\ pc'[a] = pc[a]
            /\ op'[a] = op[a]
            /\ left'[a] = left[a],
         NodesKnown(h)',
         \A s \in Slave :
            pc[s] = "serving" /\ Used(GroupOf[AddrOf[s]])'
                => AddrOf[s] \in queues' \/ Owes(h, "add", AddrOf[s])',
         spent.crashes = 0 =>
            \A q \in queues' :
                q \in Served /\ (Used(GroupOf[q])' \/ Owes(h, "del", q)')
  PROVE  QueuesNow'
<1> USE DEF Base
<1>1. h \in Actor /\ pc[h] \notin Resting
  BY DEF Actor, Resting, Places, HandlerInv, Early, Looked, Hand
<1>2. Busy \subseteq {h}
  BY <1>1, OnlyBusy DEF Orderly
<1>3. /\ \A i \in Handler \ {h} : pc[i] = "idle"
      /\ \A s \in Slave : pc[s] \in {"new", "serving", "gone"}
  BY <1>2, QueueConstantsOK DEF Busy, Resting, Actor, Places, HandlerInv,
     SlaveInv, Early, Looked, Hand
<1>4. \A i \in Handler \ {h} : NodesKnown(i)'
  BY <1>3, IdleKnows DEF QueuesNow, Actor
<1>5. \A s \in Slave : QueueThere(s)'
  <2>1. \A s \in Slave : pc'[s] = pc[s]
    BY QueueConstantsOK DEF Actor
  <2> QED
    BY <1>3, <2>1 DEF QueueThere, Owed, Hand
<1>6. spent'.crashes = 0 => \A q \in queues' : QueueNeeded(q)'
  BY DEF QueueNeeded, Owed, Served
<1> QED
  BY <1>4, <1>5, <1>6 DEF QueuesNow

\* What the handler at work knows and owes.
LEMMA HandlerNow ==
  ASSUME Base, Lone, JobsRecorded, Orderly, QueuesNow, NEW h \in Handler,
         pc[h] # "idle"
  PROVE  /\ HandlerInv(h) /\ NodesKnown(h) /\ JobsCurrent(h)
         /\ \A s \in Slave :
                pc[s] = "serving" /\ Used(GroupOf[AddrOf[s]])
                    => AddrOf[s] \in queues \/ Owes(h, "add", AddrOf[s])
         /\ spent.crashes = 0 =>
                \A q \in queues :
                    q \in Served /\ (Used(GroupOf[q]) \/ Owes(h, "del", q))
<1>1. h \in Actor /\ pc[h] \notin Resting
  BY DEF Actor, Resting, Base, Places, HandlerInv, Early, Looked, Hand
<1>2. Busy \subseteq {h}
  BY <1>1, OnlyBusy DEF Orderly
<1>3. \A i \in Handler \ {h} : pc[i] = "idle"
  BY <1>2 DEF Busy, Resting, Actor, Base, Places, HandlerInv, Early, Looked,
     Hand
<1>4. \A kind, q : Owed(kind, q) => Owes(h, kind, q)
  BY <1>3, IdleOwesNothing DEF Owed
<1>5. HandlerInv(h) /\ NodesKnown(h) /\ JobsCurrent(h)
  BY DEF Base, Places, QueuesNow, JobsRecorded, Lone, Orderly
<1> QED
  BY <1>4, <1>5 DEF QueuesNow, QueueThere, QueueNeeded

\* A handler finds its nodes, and reads and edits the job list.
LEMMA EditQueues ==
  ASSUME Base, Lone, JobsRecorded, Orderly', Orderly, QueuesNow,
         NEW h \in Handler, HandlerStep(h),
         FindNodes(h) \/ ReadJobs(h) \/ AppendJob(h) \/ RemoveJob(h)
  PROVE  QueuesNow'
<1> USE DEF Base
<1>1. /\ pc[h] \in {"nodes", "jobs", "edit"}
      /\ pc'[h] \in Looked
      /\ UNCHANGED <<services, spent, queueJobs, queues, op, group, cur>>
      /\ \/ pc[h] = "nodes" /\ left'[h] = GroupNodes(group[h])
         \/ pc[h] # "nodes" /\ left'[h] = left[h]
  BY HandlerFrame DEF FindNodes, ReadJobs, AppendJob, RemoveJob, Goto, TypeOK,
     Actor, Looked, kv, request
<1>2. /\ NodesKnown(h)
      /\ \A s \in Slave :
            pc[s] = "serving" /\ Used(GroupOf[AddrOf[s]])
                => AddrOf[s] \in queues
      /\ spent.crashes = 0 =>
            \A q \in queues : q \in Served /\ Used(GroupOf[q])
  BY <1>1, HandlerNow DEF Owes, Hand
<1>3. /\ GroupNodes(group[h]) \subseteq Served
      /\ \A q \in GroupNodes(group[h]) : GroupOf[q] = group[h]
  BY NodesAreAddresses DEF GroupNodes, Served
<1>4. NodesKnown(h)'
  BY <1>1, <1>2, <1>3 DEF NodesKnown, Looked, Hand, GroupNodes, Served
<1> QED
  BY <1>1, <1>2, <1>4, HandlerFrame, HandlerAlone DEF Used

\* The job list is saved: the queues that this makes needed or not are those of
\* the nodes the handler knows.
LEMMA SaveQueues ==
  ASSUME Base, Lone, JobsRecorded, Orderly', Orderly, QueuesNow,
         NEW h \in Handler, HandlerStep(h), SaveJobs(h)
  PROVE  QueuesNow'
<1> USE DEF Base
<1>0. h \in Actor
  BY DEF Actor
<1>1. /\ pc[h] = "save"
      /\ queueJobs' = jobsRead[h]
      /\ pc'[h] = (IF op[h] = "add" THEN "loop" ELSE "unused")
      /\ UNCHANGED <<services, spent, queues, op, group, left, cur>>
  BY <1>0, HandlerFrame DEF SaveJobs, Goto, TypeOK, locals, request
<1>2. /\ NodesKnown(h) /\ JobsCurrent(h) /\ HandlerInv(h)
      /\ \A s \in Slave :
            pc[s] = "serving" /\ Used(GroupOf[AddrOf[s]])
                => AddrOf[s] \in queues
      /\ spent.crashes = 0 =>
            \A q \in queues : q \in Served /\ Used(GroupOf[q])
  BY <1>1, HandlerNow DEF Owes, Hand
<1>3. /\ GroupNodes(group[h]) \subseteq left[h]
      /\ \A q \in left[h] : GroupOf[q] = group[h]
      /\ group[h] \in Group /\ job[h] # {}
      /\ op[h] \in {"add", "del"}
  BY <1>1, <1>2 DEF NodesKnown, HandlerInv, Looked, Early
<1>4. \A s \in services : GroupOf[AddrOf[s]] = group[h] => AddrOf[s] \in left[h]
  BY <1>3 DEF GroupNodes
<1>5. \A s \in Slave : GroupOf[AddrOf[s]] \in Group
  BY QueueConstantsOK
<1>6. \A q \in queues : GroupOf[q] \in Group
  BY QueueConstantsOK DEF TypeOK
<1>7. CASE op[h] = "add"
  <2>1. queueJobs' = [queueJobs EXCEPT ![group[h]] = queueJobs[group[h]] \cup job[h]]
    BY <1>1, <1>2, <1>7 DEF JobsCurrent
  <2>2. /\ Used(group[h])'
        /\ \A g \in Group : Used(g) => Used(g)'
        /\ \A g \in Group : Used(g)' => Used(g) \/ g = group[h]
    BY <1>1, <1>3, <2>1 DEF Used, TypeOK
  <2>3. NodesKnown(h)'
    BY <1>1, <1>2, <1>7, <2>2 DEF NodesKnown, Looked, Hand, Served
  <2>4. ASSUME NEW s \in Slave, pc[s] = "serving", Used(GroupOf[AddrOf[s]])'
        PROVE  AddrOf[s] \in queues' \/ Owes(h, "add", AddrOf[s])'
    <3>1. CASE Used(GroupOf[AddrOf[s]])
      BY <1>1, <1>2, <2>4, <3>1
    <3>2. CASE GroupOf[AddrOf[s]] = group[h]
      <4>1. s \in services
        BY <2>4 DEF Places, SlaveInv
      <4> QED
        BY <1>1, <1>4, <1>7, <3>2, <4>1 DEF Owes
    <3> QED
      BY <1>5, <2>2, <2>4, <3>1, <3>2
  <2> QED
    BY <1>1, <1>2, <1>6, <2>2, <2>3, <2>4, HandlerFrame, HandlerAlone
<1>8. CASE op[h] = "del"
  <2>1. queueJobs' = [queueJobs EXCEPT ![group[h]] = {}]
    BY <1>1, <1>2, <1>8 DEF JobsCurrent
  <2>2. \A g \in Group : (g # group[h] /\ Used(g)) <=> Used(g)'
    BY <1>3, <2>1 DEF Used, TypeOK
  <2>3. NodesKnown(h)'
    BY <1>1, <1>2, <1>8, <2>2
       DEF NodesKnown, Looked, Hand, Served, GroupNodes
  <2>4. ASSUME spent.crashes = 0, NEW q \in queues
        PROVE  q \in Served /\ (Used(GroupOf[q])' \/ Owes(h, "del", q)')
    <3>1. PICK s \in services : q = AddrOf[s]
      BY <1>2, <2>4 DEF Served
    <3>2. CASE GroupOf[q] = group[h]
      BY <1>1, <1>2, <1>4, <1>8, <2>4, <3>1, <3>2 DEF Owes
    <3>3. CASE GroupOf[q] # group[h]
      BY <1>2, <1>6, <2>2, <2>4, <3>3
    <3> QED
      BY <3>2, <3>3
  <2> QED
    BY <1>1, <1>2, <1>5, <2>2, <2>3, <2>4, HandlerFrame, HandlerAlone
<1> QED
  BY <1>3, <1>7, <1>8

\* The handler goes over the queues.
LEMMA LoopQueues ==
  ASSUME Base, Lone, JobsRecorded, Orderly', Orderly, QueuesNow,
         NEW h \in Handler, HandlerStep(h),
         CheckUnused(h) \/ NextQueue(h) \/ LoopEnds(h)
  PROVE  QueuesNow'
<1> USE DEF Base
<1>0. h \in Actor
  BY DEF Actor
<1>1. /\ UNCHANGED <<services, spent, queueJobs, queues>>
      /\ pc[h] \in {"unused", "loop"}
  BY HandlerFrame DEF CheckUnused, NextQueue, LoopEnds, kv
<1>2. /\ NodesKnown(h) /\ HandlerInv(h)
      /\ \A s \in Slave :
            pc[s] = "serving" /\ Used(GroupOf[AddrOf[s]])
                => AddrOf[s] \in queues \/ Owes(h, "add", AddrOf[s])
      /\ spent.crashes = 0 =>
            \A q \in queues :
                q \in Served /\ (Used(GroupOf[q]) \/ Owes(h, "del", q))
  BY <1>1, HandlerNow
<1>3. ASSUME NodesKnown(h)',
             \A q \in Address : Owes(h, "add", q) => Owes(h, "add", q)',
             \A q \in Address :
                Owes(h, "del", q) => Owes(h, "del", q)' \/ Used(GroupOf[q])
      PROVE  QueuesNow'
  <2>1. \A s \in Slave : AddrOf[s] \in Address
    BY QueueConstantsOK
  <2>2. queues \in SUBSET Address
    BY DEF TypeOK
  <2> QED
    BY <1>1, <1>2, <1>3, <2>1, <2>2, HandlerFrame, HandlerAlone DEF Used
<1>4. CASE CheckUnused(h)
  <2>1. pc[h] = "unused" /\ op[h] = "del" /\ group[h] \in Group
    BY <1>2, <1>4 DEF CheckUnused, HandlerInv
  <2>2. CASE Unused(h)
    <3>1. pc'[h] = "loop" /\ UNCHANGED <<op, group, left, cur>>
      BY <1>0, <1>4, <2>2 DEF CheckUnused, Goto, TypeOK, request
    <3>2. NodesKnown(h)'
      BY <1>1, <1>2, <2>1, <2>2, <3>1
         DEF NodesKnown, Unused, Used, Looked, Hand, Served
    <3> QED
      BY <1>3, <2>1, <3>1, <3>2 DEF Owes, Hand
  <2>3. CASE ~Unused(h)
    <3>1. pc'[h] = "idle" /\ op'[h] = "none" /\ left'[h] = {}
      BY <1>0, <1>4, <2>3, FinishedTyped DEF CheckUnused, TypeOK
    <3>2. NodesKnown(h)'
      BY <3>1 DEF NodesKnown, Looked, Hand
    <3>3. \A q \in left[h] : Used(GroupOf[q])
      BY <1>2, <2>1, <2>3 DEF NodesKnown, Looked, Unused, Used
    <3> QED
      BY <1>3, <2>1, <3>2, <3>3 DEF Owes, Hand
  <2> QED
    BY <2>2, <2>3
<1>5. CASE NextQueue(h)
  <2>1. PICK q \in left[h] :
          /\ cur' = [cur EXCEPT ![h] = q]
          /\ left' = [left EXCEPT ![h] = left[h] \ {q}]
    BY <1>5 DEF NextQueue
  <2>2. /\ pc[h] = "loop" /\ pc'[h] = "exists"
        /\ UNCHANGED <<op, group>>
        /\ cur'[h] = q
        /\ left'[h] = left[h] \ {q}
    BY <1>0, <1>5, <2>1 DEF NextQueue, Goto, TypeOK, request
  <2>3. NodesKnown(h)'
    BY <1>1, <1>2, <2>2 DEF NodesKnown, Used, Looked, Hand, Served
  <2> QED
    BY <1>3, <2>2, <2>3 DEF Owes, Hand
<1>6. CASE LoopEnds(h)
  <2>1. /\ pc[h] = "loop" /\ left[h] = {}
        /\ pc'[h] = "idle" /\ op'[h] = "none" /\ left'[h] = {}
    BY <1>0, <1>6, FinishedTyped DEF LoopEnds, TypeOK
  <2>2. NodesKnown(h)'
    BY <2>1 DEF NodesKnown, Looked, Hand
  <2> QED
    BY <1>3, <2>1, <2>2 DEF Owes, Hand
<1> QED
  BY <1>4, <1>5, <1>6

\* A handler reads and writes the list of queues.
LEMMA HandlerListQueues ==
  ASSUME Base, Lone, JobsRecorded, Orderly', Orderly, QueuesNow,
         NEW h \in Handler, ListStep(h)
  PROVE  QueuesNow'
<1> USE DEF Base
<1>0. h \in Actor
  BY DEF Actor
<1>1. /\ UNCHANGED <<services, spent, queueJobs, op, group, left, cur>>
      /\ pc[h] \in Hand
      /\ \A a \in Actor \ {h} : pc'[a] = pc[a]
  BY <1>0 DEF ListStep, QueueExists, GetQueueList, SaveQueueList, Goto, TypeOK,
     life, request, locals, Hand, kv
<1>2. /\ NodesKnown(h) /\ HandlerInv(h)
      /\ \A s \in Slave :
            pc[s] = "serving" /\ Used(GroupOf[AddrOf[s]])
                => AddrOf[s] \in queues \/ Owes(h, "add", AddrOf[s])
      /\ spent.crashes = 0 =>
            \A q \in queues :
                q \in Served /\ (Used(GroupOf[q]) \/ Owes(h, "del", q))
  BY <1>1, HandlerNow DEF Hand
<1>3. /\ op[h] \in {"add", "del"}
      /\ After(h) = "loop"
      /\ cur[h] \in Address
      /\ op[h] = "add" <=> Used(group[h])
      /\ GroupOf[cur[h]] = group[h]
      /\ spent.crashes = 0 => cur[h] \in Served
  BY <1>0, <1>1, <1>2, AfterTyped, QueueConstantsOK
     DEF NodesKnown, HandlerInv, Hand
<1>4. ASSUME pc'[h] \in {"loop"} \cup Hand,
             \A s \in Slave :
                AddrOf[s] \in queues \/ Owes(h, "add", AddrOf[s])
                    => \/ AddrOf[s] \in queues'
                       \/ Owes(h, "add", AddrOf[s])'
                       \/ ~ Used(GroupOf[AddrOf[s]]),
             \A q \in queues' :
                \/ q \in queues /\ (Owes(h, "del", q) => Owes(h, "del", q)')
                \/ q = cur[h] /\ op[h] = "add"
      PROVE  QueuesNow'
  <2>1. NodesKnown(h)'
    BY <1>1, <1>2, <1>4 DEF NodesKnown, Used, Looked, Hand, Served
  <2> QED
    BY <1>1, <1>2, <1>3, <1>4, <2>1, HandlerAlone DEF Used, Hand
<1>5. CASE QueueExists(h)
  <2>1. queues' = queues
    BY <1>5 DEF QueueExists, kv
  <2>2. CASE (cur[h] \in queues) = Adds(h)
    <3>1. pc'[h] = "loop"
      BY <1>0, <1>3, <1>5, <2>2 DEF QueueExists, Goto, TypeOK
    <3>2. \A kind, q : Owes(h, kind, q) /\ q # cur[h] => Owes(h, kind, q)'
      BY <1>1, <3>1 DEF Owes
    <3>3. op[h] = "add" <=> cur[h] \in queues
      BY <1>3, <2>2 DEF Adds
    <3> QED
      BY <1>4, <1>1, <1>3, <2>1, <3>1, <3>2, <3>3 DEF Owes
  <2>3. CASE (cur[h] \in queues) # Adds(h)
    <3>1. pc'[h] = "read"
      BY <1>0, <1>5, <2>3 DEF QueueExists, Goto, TypeOK
    <3>2. \A kind, q : Owes(h, kind, q) => Owes(h, kind, q)'
      BY <1>1, <3>1 DEF Owes, Hand
    <3> QED
      BY <1>4, <2>1, <3>1, <3>2 DEF Hand
  <2> QED
    BY <2>2, <2>3
<1>6. CASE GetQueueList(h)
  <2>1. queues' = queues /\ pc'[h] = "write"
    BY <1>0, <1>6 DEF GetQueueList, Goto, TypeOK, kv
  <2>2. \A kind, q : Owes(h, kind, q) => Owes(h, kind, q)'
    BY <1>1, <2>1 DEF Owes, Hand
  <2> QED
    BY <1>4, <2>1, <2>2 DEF Hand
<1>7. CASE SaveQueueList(h)
  <2>1. queuesRead[h] = queues
    BY <1>0, <1>7 DEF Lone, Orderly, SaveQueueList
  <2>2. pc'[h] = "loop"
    BY <1>0, <1>3, <1>7 DEF SaveQueueList, Goto, TypeOK
  <2>3. \A kind, q : Owes(h, kind, q) /\ q # cur[h] => Owes(h, kind, q)'
    BY <1>1, <2>2 DEF Owes
  <2>4. CASE op[h] = "add"
    <3>1. queues' = queues \cup {cur[h]}
      BY <1>7, <2>1, <2>4 DEF SaveQueueList, Edited, Adds
    <3> QED
      BY <1>4, <2>2, <2>3, <2>4, <3>1 DEF Owes
  <2>5. CASE op[h] = "del"
    <3>1. queues' = queues \ {cur[h]}
      BY <1>7, <2>1, <2>5 DEF SaveQueueList, Edited, Adds
    <3>2. \A q : ~ Owes(h, "add", q)
      BY <2>5 DEF Owes
    <3> QED
      BY <1>3, <1>4, <2>2, <2>3, <2>5, <3>1, <3>2
  <2> QED
    BY <1>3, <2>4, <2>5
<1> QED
  BY <1>5, <1>6, <1>7 DEF ListStep

\* When no handler is at work, what is to be shown of a step of a slave.
LEMMA SlaveAlone ==
  ASSUME Base, QueuesNow, NEW s \in Slave,
         \A h \in Handler : pc[h] = "idle",
         queueJobs' = queueJobs,
         spent'.crashes = 0 => spent.crashes = 0,
         \A a \in Actor \ {s} :
            /\ pc'[a] = pc[a]
            /\ op'[a] = op[a]
            /\ left'[a] = left[a],
         QueueThere(s)',
         \A t \in Slave \ {s} :
            /\ pc[t] \in {"new", "serving", "gone"}
            /\ pc[t] = "serving" /\ AddrOf[t] \in queues => AddrOf[t] \in queues',
         spent'.crashes = 0 =>
            \A q \in queues' : q \in Served' /\ Used(GroupOf[q])
  PROVE  QueuesNow'
<1>1. \A h \in Handler : NodesKnown(h)'
  BY IdleKnows, QueueConstantsOK DEF QueuesNow, Actor
<1>2. \A t \in Slave \ {s} : QueueThere(t)'
  BY NothingOwed DEF QueueThere, Used, Hand, Actor
<1>3. spent'.crashes = 0 => \A q \in queues' : QueueNeeded(q)'
  BY DEF QueueNeeded, Used
<1> QED
  BY <1>1, <1>2, <1>3 DEF QueuesNow

\* A slave at work is alone, and so is one that takes up work.
LEMMA SlaveNow ==
  ASSUME Base, Lone, Orderly, QueuesNow, NEW s \in Slave, Busy \subseteq {s}
  PROVE  /\ \A h \in Handler : pc[h] = "idle"
         /\ \A t \in Slave \ {s} : pc[t] \in {"new", "serving", "gone"}
         /\ \A t \in Slave :
                pc[t] = "serving" /\ Used(GroupOf[AddrOf[t]])
                    => AddrOf[t] \in queues
         /\ spent.crashes = 0 =>
                \A q \in queues : q \in Served /\ Used(GroupOf[q])
<1>1. /\ \A h \in Handler : pc[h] = "idle"
      /\ \A t \in Slave \ {s} : pc[t] \in {"new", "serving", "gone"}
  BY QueueConstantsOK DEF Busy, Resting, Actor, Base, Places, HandlerInv,
     SlaveInv, Early, Looked, Hand
<1> QED
  BY <1>1, NothingOwed

\* A slave starts, serves and ends.
LEMMA SlaveQueues ==
  ASSUME Base, Base', Lone, Orderly', Orderly, QueuesNow, NEW s \in Slave,
         Boot(s) \/ Join(s) \/ Check(s) \/ Leave(s) \/ Deregister(s)
  PROVE  QueuesNow'
<1> USE DEF Base
<1>0. s \in Actor
  BY DEF Actor
<1>1. Busy \subseteq {s}
  <2>1. CASE Boot(s) \/ Leave(s)
    BY <2>1, BeginsAlone DEF Boot, Leave, Orderly
  <2>2. CASE Join(s) \/ Check(s) \/ Deregister(s)
    BY <1>0, <2>2, OnlyBusy DEF Join, Check, Deregister, Resting, Orderly
  <2> QED
    BY <2>1, <2>2
<1>2. /\ \A h \in Handler : pc[h] = "idle"
      /\ \A t \in Slave \ {s} : pc[t] \in {"new", "serving", "gone"}
      /\ spent.crashes = 0 => \A q \in queues : q \in Served /\ Used(GroupOf[q])
  BY <1>1, SlaveNow
<1>3. /\ UNCHANGED <<queueJobs, queues>>
      /\ spent'.crashes = 0 => spent.crashes = 0
      /\ \A a \in Actor \ {s} :
            /\ pc'[a] = pc[a]
            /\ op'[a] = op[a]
            /\ left'[a] = left[a]
      /\ \A t \in Slave \ {s} : t \in services' <=> t \in services
  BY SlaveFrame, SpendCounts
     DEF Boot, Join, Check, Leave, Deregister, TypeOK
<1>4. ASSUME QueueThere(s)',
             spent.crashes = 0 => \A q \in queues : q \in Served'
      PROVE  QueuesNow'
  BY <1>2, <1>3, <1>4, SlaveAlone
<1>5. CASE Boot(s)
  <2>1. pc'[s] = "join" /\ services \subseteq services'
    BY <1>0, <1>5 DEF Boot, Joins, Goto, TypeOK
  <2> QED
    BY <1>2, <1>4, <2>1 DEF QueueThere, Hand, Served
<1>6. CASE Join(s)
  <2>1. services' = services
    BY <1>6 DEF Join, life
  <2>2. QueueThere(s)'
    <3>1. CASE Used(GroupOf[AddrOf[s]])
      <4>1. pc'[s] = "exists"
        BY <1>0, <1>6, <3>1 DEF Join, Goto, Used, TypeOK
      <4> QED
        BY <1>3, <3>1, <4>1 DEF QueueThere, Used
    <3>2. CASE ~ Used(GroupOf[AddrOf[s]])
      <4>1. pc'[s] = "check"
        BY <1>0, <1>6, <3>2 DEF Join, Goto, Used, TypeOK
      <4> QED
        BY <1>3, <3>2, <4>1 DEF QueueThere, Used, Hand
    <3> QED
      BY <3>1, <3>2
  <2> QED
    BY <1>2, <1>4, <2>1, <2>2 DEF Served
<1>7. CASE Check(s)
  <2>1. pc[s] = "check" /\ pc'[s] = "serving" /\ services' = services
    BY <1>0, <1>7, FinishedTyped DEF Check, TypeOK
  <2>2. QueueThere(s)'
    BY <1>3, <2>1 DEF QueuesNow, QueueThere, Used, Hand
  <2> QED
    BY <1>2, <1>4, <2>1, <2>2 DEF Served
<1>8. CASE Leave(s)
  <2>1. pc'[s] = "exists" /\ op'[s] = "leave" /\ services' = services
    BY <1>0, <1>8 DEF Leave, Goto, TypeOK, life
  <2> QED
    BY <1>2, <1>4, <2>1 DEF QueueThere, Served
<1>9. CASE Deregister(s)
  <2>1. /\ pc[s] = "dereg" /\ pc'[s] = "gone"
        /\ services' = services \ {s}
    BY <1>0, <1>9, FinishedTyped DEF Deregister, TypeOK
  <2>2. AddrOf[s] \notin queues
    BY <2>1 DEF QueuesNow, QueueThere
  <2>3. spent.crashes = 0 => \A q \in queues : q \in Served'
    BY <1>2, <2>1, <2>2 DEF Served
  <2> QED
    BY <1>4, <2>1, <2>3 DEF QueueThere, Hand
<1> QED
  BY <1>5, <1>6, <1>7, <1>8, <1>9

\* A slave reads and writes the list of queues.
LEMMA SlaveListQueues ==
  ASSUME Base, Lone, Orderly', Orderly, QueuesNow, NEW s \in Slave, ListStep(s)
  PROVE  QueuesNow'
<1> USE DEF Base
<1>0. s \in Actor
  BY DEF Actor
<1>1. /\ UNCHANGED <<services, spent, queueJobs, op, left>>
      /\ pc[s] \in Hand
      /\ \A a \in Actor \ {s} : pc'[a] = pc[a]
  BY <1>0 DEF ListStep, QueueExists, GetQueueList, SaveQueueList, Goto, TypeOK,
     life, locals, Hand, kv
<1>2. Busy \subseteq {s}
  BY <1>0, <1>1, OnlyBusy DEF Orderly, Resting, Hand
<1>3. /\ \A h \in Handler : pc[h] = "idle"
      /\ \A t \in Slave \ {s} : pc[t] \in {"new", "serving", "gone"}
      /\ spent.crashes = 0 => \A q \in queues : q \in Served /\ Used(GroupOf[q])
  BY <1>2, SlaveNow
<1>4. /\ cur[s] = AddrOf[s]
      /\ s \in services
      /\ \/ op[s] = "join" /\ After(s) = "check" /\ Used(GroupOf[AddrOf[s]])
         \/ op[s] = "leave" /\ After(s) = "dereg"
  <2>1. SlaveInv(s) /\ QueueThere(s)
    BY DEF Places, QueuesNow
  <2>2. op[s] \in {"join", "leave"}
    BY <1>1, <2>1 DEF SlaveInv
  <2> QED
    BY <1>0, <1>1, <2>1, <2>2, AfterTyped DEF SlaveInv, QueueThere, Hand
<1>5. ASSUME QueueThere(s)',
             \/ queues' = queues
             \/ op[s] = "join" /\ queues' = queues \cup {AddrOf[s]}
             \/ op[s] = "leave" /\ queues' = queues \ {AddrOf[s]}
      PROVE  QueuesNow'
  <2>1. ASSUME NEW t \in Slave \ {s}, pc[t] = "serving", AddrOf[t] \in queues
        PROVE  AddrOf[t] \in queues'
    <3>1. t \in services
      BY <2>1 DEF Places, SlaveInv
    <3>2. AddrOf[t] # AddrOf[s]
      BY <1>4, <3>1 DEF Lone, Orderly
    <3> QED
      BY <1>5, <2>1, <3>2
  <2>2. spent.crashes = 0 => \A q \in queues' : q \in Served /\ Used(GroupOf[q])
    <3>1. AddrOf[s] \in Served
      BY <1>4 DEF Served
    <3> QED
      BY <1>3, <1>4, <1>5, <3>1
  <2>3. Served' = Served
    BY <1>1 DEF Served
  <2> QED
    BY <1>1, <1>3, <1>5, <2>1, <2>2, <2>3, SlaveAlone
<1>6. CASE QueueExists(s)
  <2>1. queues' = queues
    BY <1>6 DEF QueueExists, kv
  <2>2. CASE (cur[s] \in queues) = Adds(s)
    <3>1. pc'[s] = After(s)
      BY <1>0, <1>6, <2>2 DEF QueueExists, Goto, TypeOK
    <3>2. QueueThere(s)'
      BY <1>4, <2>1, <2>2, <3>1 DEF QueueThere, Adds, Hand
    <3> QED
      BY <1>5, <2>1, <3>2
  <2>3. CASE (cur[s] \in queues) # Adds(s)
    <3>1. pc'[s] = "read"
      BY <1>0, <1>6, <2>3 DEF QueueExists, Goto, TypeOK
    <3>2. QueueThere(s)'
      BY <1>1, <1>4, <3>1 DEF QueueThere, Used
    <3> QED
      BY <1>5, <2>1, <3>2
  <2> QED
    BY <2>2, <2>3
<1>7. CASE GetQueueList(s)
  <2>1. queues' = queues /\ pc'[s] = "write"
    BY <1>0, <1>7 DEF GetQueueList, Goto, TypeOK, kv
  <2>2. QueueThere(s)'
    BY <1>1, <1>4, <2>1 DEF QueueThere, Used
  <2> QED
    BY <1>5, <2>1, <2>2
<1>8. CASE SaveQueueList(s)
  <2>1. queuesRead[s] = queues
    BY <1>0, <1>8 DEF Lone, Orderly, SaveQueueList
  <2>2. pc'[s] = After(s)
    BY <1>0, <1>8 DEF SaveQueueList, Goto, TypeOK
  <2>3. \/ op[s] = "join" /\ queues' = queues \cup {AddrOf[s]}
        \/ op[s] = "leave" /\ queues' = queues \ {AddrOf[s]}
    BY <1>4, <1>8, <2>1 DEF SaveQueueList, Edited, Adds
  <2>4. QueueThere(s)'
    BY <1>4, <2>2, <2>3 DEF QueueThere, Hand
  <2> QED
    BY <1>5, <2>3, <2>4
<1> QED
  BY <1>6, <1>7, <1>8 DEF ListStep

\* A slave that dies takes its service along: fewer nodes need a queue, and
\* the queue of the dead one may stay.
LEMMA CrashQueues ==
  ASSUME Base, Orderly', QueuesNow, NEW s \in Slave, Crash(s)
  PROVE  QueuesNow'
<1> USE DEF Base
<1>0. s \in Actor /\ s \notin Handler
  BY QueueConstantsOK DEF Actor
<1>1. /\ pc'[s] = "gone"
      /\ services' \subseteq services
      /\ spent'.crashes # 0
  BY <1>0, FinishedTyped, SpendCounts DEF Crash, TypeOK
<1>2. /\ UNCHANGED <<queueJobs, queues>>
      /\ \A a \in Actor \ {s} :
            /\ pc'[a] = pc[a]
            /\ op'[a] = op[a]
            /\ cur'[a] = cur[a]
            /\ left'[a] = left[a]
      /\ \A h \in Handler : group'[h] = group[h]
  BY SlaveFrame
<1>3. \A h \in Handler : NodesKnown(h)'
  <2>1. \A g : GroupNodes(g)' \subseteq GroupNodes(g)
    BY <1>1 DEF GroupNodes
  <2> QED
    BY <1>0, <1>1, <1>2, <2>1 DEF QueuesNow, NodesKnown, Used, Actor
<1>4. \A h \in Handler : \A kind, q : Owes(h, kind, q) => Owes(h, kind, q)'
  BY <1>0, <1>2 DEF Owes, Actor
<1>5. \A t \in Slave \ {s} : QueueThere(t)'
  BY <1>2, <1>4 DEF QueuesNow, QueueThere, Owed, Used, Actor
<1>6. QueueThere(s)'
  BY <1>1 DEF QueueThere, Hand
<1> QED
  BY <1>1, <1>3, <1>5, <1>6 DEF QueuesNow

\* Every step of orderly work keeps the queues right, but for what the actor
\* at work owes.
LEMMA QueuesStep ==
  ASSUME Base, Base', Lone, JobsRecorded, QueuesRight, [Next]_vars
  PROVE  QueuesRight'
<1> SUFFICES ASSUME Orderly' PROVE QueuesNow'
  BY DEF QueuesRight, QueuesNow
<1>0. Orderly /\ QueuesNow /\ (spent'.crashes = 0 => spent.crashes = 0)
  BY CountersGrow DEF QueuesRight, QueuesNow
<1>1. CASE \/ UNCHANGED vars
           \/ \E j \in Job, g \in Group : Move(j, g)
           \/ \E h \in Handler : Notify(h)
  <2>1. UNCHANGED <<pc, op, left, cur, group, services, queueJobs, queues>>
    BY <1>1 DEF vars, Move, Notify, kv, life, request, locals
  <2>2. \A h \in Handler : NodesKnown(h)'
    BY <1>0, <2>1 DEF QueuesNow, NodesKnown, GroupNodes, Served, Used
  <2>3. \A s \in Slave : QueueThere(s)'
    BY <1>0, <2>1 DEF QueuesNow, QueueThere, Owed, Owes, Used
  <2>4. spent'.crashes = 0 => \A q \in queues' : QueueNeeded(q)'
    BY <1>0, <2>1 DEF QueuesNow, QueueNeeded, Owed, Owes, Used, Served
  <2> QED
    BY <2>2, <2>3, <2>4 DEF QueuesNow
<1>2. ASSUME NEW h \in Handler, NEW q \in Address, NodeDel(h, q)
      PROVE  FALSE
  <2>1. "removals" \notin {"removals"} \cup Overlap
    BY <1>2, SpendCounts DEF NodeDel, Orderly, Base, TypeOK
  <2> QED
    BY <2>1
<1>3. ASSUME NEW h \in Handler, HandlerStep(h)
      PROVE  QueuesNow'
  BY <1>0, <1>3, EditQueues, SaveQueues, LoopQueues DEF HandlerStep
<1>4. ASSUME NEW a \in Actor, ListStep(a)
      PROVE  QueuesNow'
  BY <1>0, <1>4, HandlerListQueues, SlaveListQueues DEF Actor
<1>5. ASSUME NEW s \in Slave, NEW t \in Slave, Reload(s, t)
      PROVE  FALSE
  BY <1>5, BeginsAlone DEF Reload, Orderly
<1> QED
  BY <1>0, <1>1, <1>2, <1>3, <1>4, <1>5, RequestQueues, SlaveQueues, CrashQueues
     DEF Next

-----------------------------------------------------------------------------
(***************************************************************************)
(* The theorems.                                                           *)
(***************************************************************************)
\* Every reachable state satisfies the invariant.
THEOREM InvCorrect == Spec => []Inv
<1>1. Inv /\ [Next]_vars => Inv'
  <2> SUFFICES ASSUME Inv, [Next]_vars PROVE Inv'
    OBVIOUS
  <2>1. Base'
    BY BaseStep DEF Inv, Base
  <2>2. Lone'
    BY <2>1, LoneStep DEF Inv, Base
  <2>3. JobsRecorded'
    BY JobsStep DEF Inv, Base
  <2>4. QueuesRight'
    BY <2>1, QueuesStep DEF Inv, Base
  <2> QED
    BY <2>1, <2>2, <2>3, <2>4 DEF Inv, Base
<1> QED
  BY <1>1, InitInv, PTL DEF Spec

\* The lists, the catalogue and the state of every actor have their types; no
\* handler starts more goroutines than there are addresses.
THEOREM TypeCorrect == Spec => []TypeOK
<1>1. Inv => TypeOK
  BY DEF Inv
<1> QED
  BY <1>1, InvCorrect, PTL

\* Requests that come to the job list in turn leave every MQ job that has not
\* moved in its group's job list, whatever earlier requests, slaves and deletions
\* of nodes do meanwhile.
THEOREM MqJobsRecordedCorrect == Spec => []MqJobsRecorded
<1>1. Inv => MqJobsRecorded
  <2> SUFFICES ASSUME Inv, Quiet, RecordedInTurn, NEW g \in Group,
                      NEW j \in MqJobs(g) \ moved
               PROVE  j \in queueJobs[g]
    BY DEF MqJobsRecorded
  <2>1. j \in Job \ moved /\ mqGroup[j] = g /\ g # None
    BY QueueConstantsOK DEF MqJobs
  <2>2. \A h \in Handler : pc[h] = "idle"
    BY DEF Quiet, Busy, Resting, Actor, Inv, Places, HandlerInv, Early, Looked,
       Hand
  <2> QED
    BY <2>1, <2>2 DEF Inv, JobsRecorded, Records, Recording
<1> QED
  BY <1>1, InvCorrect, PTL

\* Work done one piece at a time leaves a queue for a serving node just when
\* the job list of its group holds a job, for any number of handlers.
THEOREM QueuesFollowJobListCorrect == Spec => []QueuesFollowJobList
<1>1. Inv => QueuesFollowJobList
  <2> SUFFICES ASSUME Inv, Quiet, OneAtATime, spent.removals = 0,
                      NEW s \in Slave, Serving(s)
               PROVE  LET used == queueJobs[GroupOf[AddrOf[s]]] # {} IN
                      /\ used => AddrOf[s] \in queues
                      /\ spent.crashes = 0 /\ ~ used => AddrOf[s] \notin queues
    BY DEF QueuesFollowJobList
  <2>1. \A h \in Handler : pc[h] = "idle"
    BY DEF Quiet, Busy, Resting, Actor, Inv, Places, HandlerInv, Early, Looked,
       Hand
  <2>2. Base /\ QueuesNow
    BY DEF Inv, Base, QueuesRight, QueuesNow, Orderly
  <2> QED
    BY <2>1, <2>2, NothingOwed DEF Serving, Used
<1> QED
  BY <1>1, InvCorrect, PTL
=============================================================================
