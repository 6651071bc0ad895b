---------------------------- MODULE QueueRegistry ----------------------------
(***************************************************************************)
(* Which queues exist: modules/queue/queue.go, as the job API              *)
(* (routers/job/jobRouter.go), the node API (NodeDel of register/node.go)  *)
(* and starting and leaving node slaves (register/node.go,                 *)
(* cmd/node/daemonNode.go) call it.                                        *)
(*                                                                         *)
(* Two values of the KV store are read and rewritten whole: the aliases of *)
(* every group's MQ jobs (ays_queue_job_list) and the nodes that have a    *)
(* queue (ays_queue_list).  Every access is a step of its own, so requests *)
(* and slaves that work at the same time may miss each other's writes.     *)
(* Failing accesses are left out.                                          *)
(***************************************************************************)
EXTENDS Naturals, FiniteSets

CONSTANTS
    Handler,        \* goroutines of the job and the node API
    Slave,          \* node slave incarnations
    Address,        \* ip:port pairs; a queue is named after one
    AddrOf,         \* where each slave serves
    Group,          \* node groups
    GroupOf,        \* the group each node is started for
    Job,            \* job aliases
    None,           \* no address, no group
    Budgets         \* bounds: the mixes of events, one of which a behaviour
                    \* stays within: requests for jobs, moves of MQ jobs to
                    \* another group, NodeDel requests, work begun while other
                    \* work is under way, requests begun while another has
                    \* yet to save the job list, reloads and crashes of slaves

Budget == [requests : Nat, moves : Nat, removals : Nat, overlaps : Nat,
           meets : Nat, reloads : Nat, crashes : Nat]

ASSUME QueueConstantsOK ==
    /\ AddrOf \in [Slave -> Address]
    /\ GroupOf \in [Address -> Group]
    /\ None \notin Address \cup Group
    /\ Handler \cap Slave = {}
    /\ IsFiniteSet(Address)
    /\ Budgets \subseteq Budget

Actor == Handler \cup Slave

VARIABLES
    mqGroup,    \* job -> its group if its DispatchType is 3, else None
    moved,      \* history: MQ jobs that have come to their group by a move
    queueJobs,  \* ays_queue_job_list: group -> its JobList
    queues,     \* ays_queue_list
    services,   \* slaves registered in consul
    listening,  \* slaves with a ListenQueue goroutine
    op,         \* actor -> what it does: none, add, del, remove, join, leave
    pc,         \* actor -> how far it has come
    job,        \* handler -> the job of its request, as a set of at most one
    group,      \* handler -> the group of its request
    left,       \* actor -> addresses its loop has not reached
    cur,        \* actor -> queueName, the loop variable
    jobsRead,   \* handler -> the job list it read, or is about to write
    queuesRead, \* actor -> the queue list it read
    pending,    \* handler -> RPC goroutines that have not run
    spent       \* how many of the events of a budget there have been

catalogue == <<mqGroup, moved>>
kv == <<queueJobs, queues>>
request == <<job, group>>
locals == <<left, cur, jobsRead, queuesRead>>
life == <<services, listening>>
vars == <<catalogue, kv, life, op, pc, request, locals, pending, spent>>

\* A slave is before its start, at work, serving or gone; a handler at work
\* or idle.
Resting == {"idle", "new", "serving", "gone"}
Busy == {a \in Actor : pc[a] \notin Resting}

Serving(s) == pc[s] = "serving"

\* Faulty variant: queues are named after the services, not their addresses.
GroupServices(g) == {s \in services : GroupOf[AddrOf[s]] = g}

\* NodeFindByGroup.
GroupNodes(g) == {AddrOf[s] : s \in {t \in services : GroupOf[AddrOf[t]] = g}}

NoJobs == [g \in Group |-> {}]

Init ==
    /\ mqGroup = [j \in Job |-> None]
    /\ moved = {}
    /\ queueJobs = NoJobs
    /\ queues = {}
    /\ services = {}
    /\ listening = {}
    /\ op = [a \in Actor |-> "none"]
    /\ pc = [a \in Actor |-> IF a \in Slave THEN "new" ELSE "idle"]
    /\ job = [h \in Handler |-> {}]
    /\ group = [h \in Handler |-> None]
    /\ left = [a \in Actor |-> {}]
    /\ cur = [a \in Actor |-> None]
    /\ jobsRead = [h \in Handler |-> NoJobs]
    /\ queuesRead = [a \in Actor |-> {}]
    /\ pending = [h \in Handler |-> 0]
    /\ spent = [requests |-> 0, moves |-> 0, removals |-> 0, overlaps |-> 0,
                meets |-> 0, reloads |-> 0, crashes |-> 0]

Goto(a, step) == pc' = [pc EXCEPT ![a] = step]

\* One more of each event of E, within a budget.
Spend(E) ==
    /\ spent' = [e \in DOMAIN spent |->
                    IF e \in E THEN spent[e] + 1 ELSE spent[e]]
    /\ \E b \in Budgets : \A e \in DOMAIN spent : spent'[e] <= b[e]

\* Work begins, alone or beside other work.
Overlap == IF Busy = {} THEN {} ELSE {"overlaps"}

\* A request for a job begins, and another has yet to save the job list.
Recording == {"nodes", "jobs", "edit", "save"}
Meet == IF \E h \in Handler : pc[h] \in Recording THEN {"meets"} ELSE {}

\* What an actor that is done leaves behind: its loop variable stays, the
\* goroutines it started refer to it.
Finished(a, step) ==
    /\ Goto(a, step)
    /\ op' = [op EXCEPT ![a] = "none"]
    /\ left' = [left EXCEPT ![a] = {}]
    /\ queuesRead' = [queuesRead EXCEPT ![a] = {}]
    /\ job' = [h \in Handler |-> IF h = a THEN {} ELSE job[h]]
    /\ group' = [h \in Handler |-> IF h = a THEN None ELSE group[h]]
    /\ jobsRead' = [h \in Handler |-> IF h = a THEN NoJobs ELSE jobsRead[h]]

-----------------------------------------------------------------------------
(***************************************************************************)
(* The job API: addJob, updateJob and deleteJob change the catalogue and   *)
(* then the queues.                                                        *)
(***************************************************************************)
\* A job becomes an MQ job of group g, or an MQ job becomes another one or is
\* deleted.  An update names the group of its form, which need not be the one
\* the job had.
Request(h, kind, j, g) ==
    /\ pc[h] = "idle"
    /\ pending[h] = 0
    /\ Spend({"requests"} \cup Meet \cup Overlap)
    /\ (kind = "add") <=> (mqGroup[j] = None)
    /\ mqGroup' = [mqGroup EXCEPT ![j] = IF kind = "add" THEN g ELSE None]
    /\ moved' = moved \ {j}
    /\ op' = [op EXCEPT ![h] = kind]
    /\ job' = [job EXCEPT ![h] = {j}]
    /\ group' = [group EXCEPT ![h] = g]
    /\ Goto(h, "nodes")
    /\ UNCHANGED <<kv, life, locals, pending>>

\* An update of an MQ job that stays one does nothing about queues, whatever
\* its new group.
Move(j, g) ==
    /\ mqGroup[j] \notin {None, g}
    /\ Spend({"moves"})
    /\ mqGroup' = [mqGroup EXCEPT ![j] = g]
    /\ moved' = moved \cup {j}
    /\ UNCHANGED <<kv, life, op, pc, request, locals, pending>>

\* NodeDel: the DelQueue of NodeDelReg.  The service it deregisters is none:
\* the name holds the process id of the manager.
NodeDel(h, a) ==
    /\ pc[h] = "idle"
    /\ pending[h] = 0
    /\ Spend({"removals"} \cup Overlap)
    /\ op' = [op EXCEPT ![h] = "remove"]
    /\ cur' = [cur EXCEPT ![h] = a]
    /\ Goto(h, "exists")
    /\ UNCHANGED <<catalogue, kv, life, request, left, jobsRead, queuesRead,
                   pending>>

\* The nodes of the group at this moment become queueList.
FindNodes(h) ==
    /\ pc[h] = "nodes"
    /\ left' = [left EXCEPT ![h] = GroupNodes(group[h])]
    /\ Goto(h, "jobs")
    /\ UNCHANGED <<catalogue, kv, life, op, request, cur, jobsRead,
                   queuesRead, pending, spent>>

\* QueueJobAppend and QueueJobDel read the job list.
ReadJobs(h) ==
    /\ pc[h] = "jobs"
    /\ jobsRead' = [jobsRead EXCEPT ![h] = queueJobs]
    /\ Goto(h, "edit")
    /\ UNCHANGED <<catalogue, kv, life, op, request, left, cur, queuesRead,
                   pending, spent>>

\* Faulty variant: a job that is not the first is not appended.
AppendedToEmpty(h) ==
    [jobsRead[h] EXCEPT ![group[h]] =
        IF queueJobs[group[h]] # {} THEN @ ELSE job[h]]

\* QueueJobAppend: QueueJobEmpty reads the list once more.
Appended(h) ==
    [jobsRead[h] EXCEPT ![group[h]] =
        IF queueJobs[group[h]] # {} THEN @ \cup job[h] ELSE job[h]]

AppendJob(h) ==
    /\ pc[h] = "edit"
    /\ op[h] = "add"
    /\ jobsRead' = [jobsRead EXCEPT ![h] = Appended(h)]
    /\ Goto(h, "save")
    /\ UNCHANGED <<catalogue, kv, life, op, request, left, cur, queuesRead,
                   pending, spent>>

\* QueueJobDel: the list is saved only if it becomes empty.
RemoveJob(h) ==
    /\ pc[h] = "edit"
    /\ op[h] = "del"
    /\ IF queueJobs[group[h]] # {} /\ job[h] = jobsRead[h][group[h]]
       THEN /\ jobsRead' = [jobsRead EXCEPT ![h][group[h]] = {}]
            /\ Goto(h, "save")
       ELSE /\ UNCHANGED jobsRead
            /\ Goto(h, "unused")
    /\ UNCHANGED <<catalogue, kv, life, op, request, left, cur, queuesRead,
                   pending, spent>>

SaveJobs(h) ==
    /\ pc[h] = "save"
    /\ queueJobs' = jobsRead[h]
    /\ Goto(h, IF op[h] = "add" THEN "loop" ELSE "unused")
    /\ UNCHANGED <<catalogue, queues, life, op, request, locals, pending,
                   spent>>

\* Faulty variant: DelJob deletes the queues whatever job still uses them.
UnusedAlways(h) == TRUE

\* QueueJobEmpty.
Unused(h) == queueJobs[group[h]] = {}

\* DelJob deletes the queues if no job of the group uses them.
CheckUnused(h) ==
    /\ pc[h] = "unused"
    /\ IF Unused(h)
       THEN /\ Goto(h, "loop")
            /\ UNCHANGED <<op, request, left, jobsRead, queuesRead>>
       ELSE Finished(h, "idle")
    /\ UNCHANGED <<catalogue, kv, life, cur, pending, spent>>

\* The next queue of the range, in any order.
NextQueue(h) ==
    /\ pc[h] = "loop"
    /\ \E q \in left[h] :
        /\ cur' = [cur EXCEPT ![h] = q]
        /\ left' = [left EXCEPT ![h] = @ \ {q}]
    /\ Goto(h, "exists")
    /\ UNCHANGED <<catalogue, kv, life, op, request, jobsRead, queuesRead,
                   pending, spent>>

LoopEnds(h) ==
    /\ pc[h] = "loop"
    /\ left[h] = {}
    /\ Finished(h, "idle")
    /\ UNCHANGED <<catalogue, kv, life, cur, pending, spent>>

\* AddJob's goroutine: the loop variables it captured are those of the
\* iteration the loop has reached by the time it runs.
Notify(h) ==
    /\ pending[h] > 0
    /\ pending' = [pending EXCEPT ![h] = @ - 1]
    /\ LET there == {s \in Slave : AddrOf[s] = cur[h] /\ Serving(s)} IN
       IF there = {}
       THEN UNCHANGED listening
       ELSE \E s \in there : listening' = listening \cup {s}
    /\ UNCHANGED <<catalogue, kv, services, op, pc, request, locals, spent>>

-----------------------------------------------------------------------------
(***************************************************************************)
(* queueListAppend and queueListPop, for handlers and slaves.              *)
(***************************************************************************)
Adds(a) == op[a] \in {"add", "join"}

\* What follows the update of one queue.
After(a) ==
    CASE op[a] = "add" -> "loop"
      [] op[a] \in {"del", "remove"} -> "loop"
      [] op[a] = "join" -> "check"
      [] op[a] = "leave" -> "dereg"

\* A handler that has added a queue starts the goroutine that tells its node.
Told(a) ==
    IF op[a] = "add" THEN pending' = [pending EXCEPT ![a] = @ + 1]
                     ELSE UNCHANGED pending

\* QueueExists: there is nothing to add, or nothing to delete.  AddQueue and
\* DelQueue ask, and queueListAppend and queueListPop ask again: the first
\* answer ends it where it says so and has no effect otherwise, so the last
\* question asked stands for both.
QueueExists(a) ==
    /\ pc[a] = "exists"
    /\ IF (cur[a] \in queues) = Adds(a)
       THEN Goto(a, After(a)) /\ Told(a)
       ELSE Goto(a, "read") /\ UNCHANGED pending
    /\ UNCHANGED <<catalogue, kv, life, op, request, locals, spent>>

GetQueueList(a) ==
    /\ pc[a] = "read"
    /\ queuesRead' = [queuesRead EXCEPT ![a] = queues]
    /\ Goto(a, "write")
    /\ UNCHANGED <<catalogue, kv, life, op, request, left, cur, jobsRead,
                   pending, spent>>

Edited(a) ==
    IF Adds(a) THEN queuesRead[a] \cup {cur[a]} ELSE queuesRead[a] \ {cur[a]}

SaveQueueList(a) ==
    /\ pc[a] = "write"
    /\ queues' = Edited(a)
    /\ Goto(a, After(a))
    /\ Told(a)
    /\ UNCHANGED <<catalogue, queueJobs, life, op, request, locals, spent>>

-----------------------------------------------------------------------------
(***************************************************************************)
(* Node slaves.                                                            *)
(***************************************************************************)
\* NodeRegister: consul.Reg, then AddQueue.
Joins(s) ==
    /\ services' = services \cup {s}
    /\ cur' = [cur EXCEPT ![s] = AddrOf[s]]

\* A node starts, or its master restarts a slave that crashed.
Boot(s) ==
    /\ pc[s] = "new"
    /\ ~ \E t \in Slave : AddrOf[t] = AddrOf[s] /\ pc[t] \notin {"new", "gone"}
    /\ Spend(Overlap)
    /\ Joins(s)
    /\ op' = [op EXCEPT ![s] = "join"]
    /\ Goto(s, "join")
    /\ UNCHANGED <<catalogue, kv, listening, request, left, jobsRead,
                   queuesRead, pending>>

\* AddQueue does nothing unless the group has MQ jobs.
Join(s) ==
    /\ pc[s] = "join"
    /\ LET used == queueJobs[GroupOf[AddrOf[s]]] # {} IN
       Goto(s, IF used THEN "exists" ELSE "check")
    /\ UNCHANGED <<catalogue, kv, life, op, request, locals, pending, spent>>

\* runNodeSlave: a slave whose queue is listed listens.
Check(s) ==
    /\ pc[s] = "check"
    /\ listening' = listening \cup {t \in {s} : AddrOf[t] \in queues}
    /\ Finished(s, "serving")
    /\ UNCHANGED <<catalogue, kv, services, cur, pending, spent>>

\* A slave is signalled: NodeDelReg, with DelQueue.
Leave(s) ==
    /\ Serving(s)
    /\ Spend(Overlap)
    /\ op' = [op EXCEPT ![s] = "leave"]
    /\ Goto(s, "exists")
    /\ UNCHANGED <<catalogue, kv, life, request, locals, pending>>

\* A reload: the master boots a new slave and signals the old one.
Reload(s, t) ==
    /\ Serving(s)
    /\ pc[t] = "new"
    /\ AddrOf[t] = AddrOf[s]
    /\ Spend({"reloads", "overlaps"})
    /\ Joins(t)
    /\ op' = [op EXCEPT ![s] = "leave", ![t] = "join"]
    /\ pc' = [pc EXCEPT ![s] = "exists", ![t] = "join"]
    /\ UNCHANGED <<catalogue, kv, listening, request, left, jobsRead,
                   queuesRead, pending>>

\* consul.DelReg, and the slave ends.
Deregister(s) ==
    /\ pc[s] = "dereg"
    /\ services' = services \ {s}
    /\ listening' = listening \ {s}
    /\ Finished(s, "gone")
    /\ UNCHANGED <<catalogue, kv, cur, pending, spent>>

\* A slave dies; consul drops its service.
Crash(s) ==
    /\ Serving(s)
    /\ Spend({"crashes"})
    /\ services' = services \ {s}
    /\ listening' = listening \ {s}
    /\ Finished(s, "gone")
    /\ UNCHANGED <<catalogue, kv, cur, pending>>

-----------------------------------------------------------------------------
HandlerStep(h) ==
    \/ FindNodes(h)
    \/ ReadJobs(h)
    \/ AppendJob(h)
    \/ RemoveJob(h)
    \/ SaveJobs(h)
    \/ CheckUnused(h)
    \/ NextQueue(h)
    \/ LoopEnds(h)

ListStep(a) == QueueExists(a) \/ GetQueueList(a) \/ SaveQueueList(a)

Next ==
    \/ \E h \in Handler, j \in Job, g \in Group :
        Request(h, "add", j, g) \/ Request(h, "del", j, g)
    \/ \E j \in Job, g \in Group : Move(j, g)
    \/ \E h \in Handler, a \in Address : NodeDel(h, a)
    \/ \E h \in Handler : HandlerStep(h) \/ Notify(h)
    \/ \E a \in Actor : ListStep(a)
    \/ \E s \in Slave : Boot(s) \/ Join(s) \/ Check(s) \/ Leave(s)
                            \/ Deregister(s) \/ Crash(s)
    \/ \E s, t \in Slave : Reload(s, t)

Spec == Init /\ [][Next]_vars

-----------------------------------------------------------------------------
\* Types of the two lists and of the state of every actor.
TypeOK ==
    /\ mqGroup \in [Job -> Group \cup {None}]
    /\ moved \in SUBSET Job
    /\ queueJobs \in [Group -> SUBSET Job]
    /\ queues \in SUBSET Address
    /\ services \in SUBSET Slave
    /\ listening \in SUBSET Slave
    /\ op \in [Actor -> {"none", "add", "del", "remove", "join", "leave"}]
    /\ pc \in [Actor -> {"idle", "new", "nodes", "jobs", "edit", "save",
            "unused", "loop", "exists", "read", "write", "join", "check",
            "dereg", "serving", "gone"}]
    /\ job \in [Handler -> SUBSET Job]
    /\ group \in [Handler -> Group \cup {None}]
    /\ left \in [Actor -> SUBSET Address]
    /\ cur \in [Actor -> Address \cup {None}]
    /\ jobsRead \in [Handler -> [Group -> SUBSET Job]]
    /\ queuesRead \in [Actor -> SUBSET Address]
    /\ pending \in [Handler -> 0..Cardinality(Address)]
    /\ spent \in Budget

\* Nothing is under way.
Quiet == Busy = {} /\ \A h \in Handler : pending[h] = 0

\* Work has been done one piece at a time.
OneAtATime == spent.overlaps = 0

\* No request for a job has begun before the one before it saved the job list.
RecordedInTurn == spent.meets = 0

\* Jobs that are MQ jobs of g.
MqJobs(g) == {j \in Job : mqGroup[j] = g}

\* Requests that come to the job list one after the other leave every MQ job in
\* the list of its group, so the group's queues are not deleted while a job needs
\* them, whatever the earlier ones still do to queues, and whatever slaves start,
\* leave or crash and nodes are deleted meanwhile.  A job that moved to its group
\* is in no list of it (QueueJobAppend, QueueJobDel).
MqJobsRecorded ==
    Quiet /\ RecordedInTurn =>
        \A g \in Group : MqJobs(g) \ moved \subseteq queueJobs[g]

\* Work done one piece at a time leaves a queue for a serving node just when
\* its group's job list holds a job: what MqDispatch sends there is listened
\* to, or will be when the slave restarts, and nothing listens for a group
\* without MQ jobs.  Deleting a node that serves takes its queue away; the
\* queue of a slave that crashed stays (AddJob, DelJob, AddQueue, DelQueue).
QueuesFollowJobList ==
    Quiet /\ OneAtATime /\ spent.removals = 0 =>
        \A s \in Slave : Serving(s) =>
            LET used == queueJobs[GroupOf[AddrOf[s]]] # {} IN
            /\ used => AddrOf[s] \in queues
            /\ spent.crashes = 0 /\ ~ used => AddrOf[s] \notin queues

\* A queue in the list has a listener on its node ("队列不存在时添加队列并监听").
ListedQueuesListened ==
    Quiet => \A s \in Slave :
        Serving(s) /\ AddrOf[s] \in queues => s \in listening

\* Without MQ jobs the queues are gone ("没有job使用队列，直接删除队列").
UnusedQueuesDeleted ==
    Quiet /\ (\A j \in Job : mqGroup[j] = None) => queues = {}

\* A node that starts joins the queues if its group has MQ jobs
\* ("如果执行器组中有任务需要队列，则加入").
StartedNodesJoin ==
    Quiet => \A s \in Slave :
        Serving(s) /\ MqJobs(GroupOf[AddrOf[s]]) # {} => AddrOf[s] \in queues

\* A job that is no MQ job any more is deleted from the list
\* ("原来是队列任务，现在不是，做删除操作").
StoppedJobsRemoved ==
    Quiet => \A g \in Group : queueJobs[g] \subseteq MqJobs(g)
=============================================================================
