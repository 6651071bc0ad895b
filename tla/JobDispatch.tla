----------------------------- MODULE JobDispatch -----------------------------
(***************************************************************************)
(* Dispatching a job: modules/job/job.go and modules/dispatch/dispatch.go, *)
(* with the dispatch API (routers/job/job.go), the queue handler of a node *)
(* (listen/queue.go) and the count of running jobs (graceful.go).          *)
(*                                                                         *)
(* A dispatch is a goroutine of a manager slave.  An HTTP or RPC job runs  *)
(* inside it; an MQ job becomes a message, which a node's listener takes   *)
(* and runs.  Both sides may dispatch children, by requests to the API,    *)
(* and both write the job log.  A slave that is reloaded or crashes takes  *)
(* its dispatches with it; on an orderly exit it first waits for those     *)
(* that graceful.go counts.                                                *)
(*                                                                         *)
(* A topic hands over its messages in order, each once or not at all: what *)
(* PullConsumer provides to one listener.                                  *)
(***************************************************************************)
EXTENDS Naturals, Sequences, FiniteSets

CONSTANTS
    Job,            \* job aliases
    Kind,           \* job -> DispatchType: http, rpc, mq, other
    Valid,          \* jobs with a URL, or a command that is allowed to run
    Enabled,        \* jobs in the catalogue with Status 1
    Timed,          \* jobs with an entry in cron
    Depend,         \* job -> JobDepend: 1 weak, 2 strong
    Children,       \* job -> ChildList
    Route,          \* job -> RouteType, 1..4
    MailJob,        \* ays_email_send
    None,           \* no job, and no slave
    Proc,           \* manager slave incarnations
    NumNodes,       \* nodes of the group, as NodeFindByGroup returns them
    MaxId,          \* bound: dispatches, children and mails included
    MaxFires,       \* bound: dispatches by timers and by users
    MaxErrors,      \* bound: failing sends, writes and requests, no nodes
    MaxCrashes,     \* bound: crashing slaves and nodes
    MaxReloads      \* bound: reloads

Id == 1..MaxId
Node == 1..NumNodes

ASSUME DispatchConstantsOK ==
    /\ Kind \in [Job -> {"http", "rpc", "mq", "other"}]
    /\ Valid \subseteq Job
    /\ Enabled \subseteq Job
    /\ Timed \subseteq Job
    /\ Depend \in [Job -> 1..2]
    /\ Children \in [Job -> Seq(Job)]
    /\ Route \in [Job -> 1..4]
    /\ None \notin Job \cup Proc
    /\ NumNodes \in Nat \ {0}
    /\ {MaxId, MaxFires, MaxErrors, MaxCrashes, MaxReloads} \subseteq Nat

\* The goroutine of a dispatch, and the handling of its message by a node.
Side == {"manager", "node"}
Act == Id \X Side

VARIABLES
    status,     \* slave -> new, up, exiting, leaving, gone
    count,      \* slave -> waitJob of graceful.go
    job,        \* dispatch -> its job, None while unused
    host,       \* dispatch -> the slave that runs it
    parent,     \* history: dispatch -> the one that asked for it, or 0
    weak,       \* dispatch -> children its API request has yet to dispatch
    pc,         \* activity -> how far it has come
    left,       \* dispatch -> children to request after its success
    node,       \* dispatch -> the node it was routed to, or 0
    outcome,    \* history: dispatch -> none, ok, error
    rows,       \* dispatch -> status of the rows of the job log it inserted
    keyed,      \* dispatches whose message carries the Id of its row
    found,      \* dispatches whose node has read that row
    topic,      \* node -> messages of its queue nobody has taken
    turns,      \* history: job -> the nodes it was routed to
    budget      \* what is left of each bound

slaves == <<status, count>>
birth == <<job, host, parent, weak, turns>>
vars == <<status, count, job, host, parent, weak, pc, left, node, outcome,
          rows, keyed, found, topic, turns, budget>>

Init ==
    /\ status = [p \in Proc |-> "new"]
    /\ count = [p \in Proc |-> 0]
    /\ job = [d \in Id |-> None]
    /\ host = [d \in Id |-> None]
    /\ parent = [d \in Id |-> 0]
    /\ weak = [d \in Id |-> <<>>]
    /\ pc = [a \in Act |-> "none"]
    /\ left = [d \in Id |-> <<>>]
    /\ node = [d \in Id |-> 0]
    /\ outcome = [d \in Id |-> "none"]
    /\ rows = [d \in Id |-> <<>>]
    /\ keyed = {}
    /\ found = {}
    /\ topic = [n \in Node |-> <<>>]
    /\ turns = [j \in Job |-> <<>>]
    /\ budget = [fires |-> MaxFires, errors |-> MaxErrors,
                 crashes |-> MaxCrashes, reloads |-> MaxReloads]

Manager(d) == <<d, "manager">>
AtNode(d) == <<d, "node">>
Goto(a, step) == pc' = [pc EXCEPT ![a] = step]
Spend(b) == /\ budget[b] > 0
            /\ budget' = [budget EXCEPT ![b] = @ - 1]

Up(p) == status[p] = "up"
Alive(p) == status[p] \in {"up", "exiting", "leaving"}

\* An activity in one of its steps, in a process that lives.
At(a, step) == pc[a] = step

AddRow(d, st) == rows' = [rows EXCEPT ![d] = Append(@, st)]
AddJob(p) == count' = [count EXCEPT ![p] = @ + 1]
FinishJob(p) == count' = [count EXCEPT ![p] = @ - 1]

-----------------------------------------------------------------------------
(***************************************************************************)
(* Dispatches begin.                                                       *)
(***************************************************************************)
Free == {d \in Id : job[d] = None}
Fresh == CHOOSE d \in Free : \A e \in Free : d <= e

\* A goroutine of p dispatches j, asked for by dispatch from.
Begins(j, p, from, weakly) ==
    /\ job' = [job EXCEPT ![Fresh] = j]
    /\ host' = [host EXCEPT ![Fresh] = p]
    /\ parent' = [parent EXCEPT ![Fresh] = from]
    /\ weak' = [weak EXCEPT ![Fresh] = weakly]

\* Children the API dispatches with their parent.
WeakChildren(j) == IF Depend[j] = 1 THEN Children[j] ELSE <<>>

\* A request to the dispatch API while activity a goes on to another step:
\* a slave that serves dispatches an enabled job, other jobs are refused.
Asks(j, from, a, step) ==
    IF j \in Enabled /\ Free # {} /\ \E p \in Proc : Up(p)
    THEN /\ \E p \in {q \in Proc : Up(q)} : Begins(j, p, from, WeakChildren(j))
         /\ pc' = [pc EXCEPT ![a] = step, ![Manager(Fresh)] = "start"]
         /\ UNCHANGED turns
    ELSE /\ Goto(a, step)
         /\ UNCHANGED birth

\* cron runs the closure of a timer job, on a slave that exits as well.
Timer(j, p) ==
    /\ j \in Timed
    /\ Alive(p)
    /\ Free # {}
    /\ Spend("fires")
    /\ Begins(j, p, 0, <<>>)
    /\ Goto(Manager(Fresh), "start")
    /\ UNCHANGED <<slaves, left, node, outcome, rows, keyed, found, topic,
                   turns>>

\* A user asks for a job.
Request(j, p) ==
    /\ Up(p)
    /\ j \in Enabled
    /\ Free # {}
    /\ Spend("fires")
    /\ Begins(j, p, 0, WeakChildren(j))
    /\ Goto(Manager(Fresh), "start")
    /\ UNCHANGED <<slaves, left, node, outcome, rows, keyed, found, topic,
                   turns>>

\* The request goes on to the next weak child and dispatches it on the spot.
WeakChild(d) ==
    /\ weak[d] # <<>>
    /\ LET j == Head(weak[d]) IN
       IF j \in Enabled /\ Free # {}
       THEN /\ job' = [job EXCEPT ![Fresh] = j]
            /\ host' = [host EXCEPT ![Fresh] = host[d]]
            /\ parent' = [parent EXCEPT ![Fresh] = d]
            /\ Goto(Manager(Fresh), "start")
       ELSE UNCHANGED <<job, host, parent, pc>>
    /\ weak' = [weak EXCEPT ![d] = Tail(@)]
    /\ UNCHANGED <<slaves, left, node, outcome, rows, keyed, found, topic,
                   turns, budget>>

-----------------------------------------------------------------------------
(***************************************************************************)
(* The switch of Dispatch, and what each way does before the job runs.     *)
(***************************************************************************)
\* Where a dispatch that fails goes on: a failing mail job mails nobody.
Failed(d) == IF job[d] = MailJob THEN "done" ELSE "notify"

RefuseType(d) ==
    /\ At(Manager(d), "start")
    /\ Kind[job[d]] = "other"
    /\ AddRow(d, "failed")
    /\ Goto(Manager(d), "done")
    /\ UNCHANGED <<slaves, birth, left, node, outcome, keyed, found, topic,
                   budget>>

\* RpcDispatch and HttpJob count the dispatch, MqDispatch does not.
BeginRpc(d) ==
    /\ At(Manager(d), "start")
    /\ Kind[job[d]] = "rpc"
    /\ AddJob(host[d])
    /\ Goto(Manager(d), "route")
    /\ UNCHANGED <<status, birth, left, node, outcome, rows, keyed, found,
                   topic, budget>>

BeginHttp(d) ==
    /\ At(Manager(d), "start")
    /\ Kind[job[d]] = "http"
    /\ IF job[d] \in Valid
       THEN /\ AddJob(host[d])
            /\ Goto(Manager(d), "run")
            /\ UNCHANGED rows
       ELSE /\ AddRow(d, "failed")
            /\ Goto(Manager(d), Failed(d))
            /\ UNCHANGED count
    /\ UNCHANGED <<status, birth, left, node, outcome, keyed, found, topic,
                   budget>>

BeginMq(d) ==
    /\ At(Manager(d), "start")
    /\ Kind[job[d]] = "mq"
    /\ Goto(Manager(d), "route")
    /\ UNCHANGED <<slaves, birth, left, node, outcome, rows, keyed, found,
                   topic, budget>>

\* handleRouter's positions in the list.  Types 3 and 4 draw an index below the
\* length and lower it by one unless it is 0.
Positions(r) ==
    CASE r = 1 -> {1}
      [] r = 2 -> {NumNodes}
      [] r \in {3, 4} -> {1} \cup 1..(NumNodes - 1)

\* NodeFindByGroup lists the nodes in the order of a Go map, that is, in any.
Listings == {f \in [Node -> Node] : \A m, n \in Node : f[m] = f[n] => m = n}

\* The node is chosen; RpcDispatch then refuses a forbidden command.
RouteJob(d) ==
    /\ At(Manager(d), "route")
    /\ \E i \in Positions(Route[job[d]]), list \in Listings :
        /\ node' = [node EXCEPT ![d] = list[i]]
        /\ turns' = [turns EXCEPT ![job[d]] = Append(@, list[i])]
    /\ IF Kind[job[d]] = "rpc" /\ job[d] \notin Valid
       THEN /\ AddRow(d, "failed")
            /\ FinishJob(host[d])
            /\ Goto(Manager(d), Failed(d))
       ELSE /\ Goto(Manager(d), IF Kind[job[d]] = "rpc" THEN "run"
                                                       ELSE "insert")
            /\ UNCHANGED <<rows, count>>
    /\ UNCHANGED <<status, job, host, parent, weak, left, outcome, keyed,
                   found, topic, budget>>

\* No node of the group is registered.
NoNodes(d) ==
    /\ At(Manager(d), "route")
    /\ Spend("errors")
    /\ AddRow(d, "failed")
    /\ IF Kind[job[d]] = "rpc" THEN FinishJob(host[d]) ELSE UNCHANGED count
    /\ Goto(Manager(d), Failed(d))
    /\ UNCHANGED <<status, birth, left, node, outcome, keyed, found, topic>>

-----------------------------------------------------------------------------
(***************************************************************************)
(* MqDispatch: insert the row, send, update the row.                       *)
(***************************************************************************)
InsertRow(d) ==
    /\ At(Manager(d), "insert")
    /\ AddRow(d, "dispatched")
    /\ keyed' = keyed \cup {d}
    /\ Goto(Manager(d), "send")
    /\ UNCHANGED <<slaves, birth, left, node, outcome, found, topic, budget>>

\* AddJobLog answers 0: the message carries no row.
InsertFails(d) ==
    /\ At(Manager(d), "insert")
    /\ Spend("errors")
    /\ Goto(Manager(d), "send")
    /\ UNCHANGED <<slaves, birth, left, node, outcome, rows, keyed, found,
                   topic>>

SendMessage(d) ==
    /\ At(Manager(d), "send")
    /\ topic' = [topic EXCEPT ![node[d]] = Append(@, d)]
    /\ pc' = [pc EXCEPT ![Manager(d)] = "update", ![AtNode(d)] = "topic"]
    /\ UNCHANGED <<slaves, birth, left, node, outcome, rows, keyed, found,
                   budget>>

SendFails(d) ==
    /\ At(Manager(d), "send")
    /\ Spend("errors")
    /\ Goto(Manager(d), "update")
    /\ UNCHANGED <<slaves, birth, left, node, outcome, rows, keyed, found,
                   topic>>

\* The end of MqDispatch, whether its message was sent or not.
MqEnds(d) ==
    /\ At(Manager(d), "update")
    /\ Goto(Manager(d), IF At(AtNode(d), "none") THEN Failed(d) ELSE "done")
    /\ UNCHANGED <<slaves, birth, left, node, outcome, keyed, found, topic>>

\* jobLogMap still has the status of the beginning of the dispatch.
UpdateRow(d) ==
    /\ MqEnds(d)
    /\ rows' = [rows EXCEPT ![d] =
                    IF d \in keyed THEN [@ EXCEPT ![1] = "dispatched"] ELSE @]
    /\ UNCHANGED budget

UpdateFails(d) ==
    /\ d \in keyed
    /\ MqEnds(d)
    /\ Spend("errors")
    /\ UNCHANGED rows

-----------------------------------------------------------------------------
(***************************************************************************)
(* A node takes the messages of its queue, one after the other.            *)
(***************************************************************************)
HandledBy(n) == {d \in Id : node[d] = n
                    /\ pc[AtNode(d)] \in {"held", "run", "after"}}

TakeMessage(n) ==
    /\ topic[n] # <<>>
    /\ HandledBy(n) = {}
    /\ topic' = [topic EXCEPT ![n] = Tail(@)]
    /\ Goto(AtNode(Head(topic[n])), "held")
    /\ UNCHANGED <<slaves, birth, left, node, outcome, rows, keyed, found,
                   budget>>

\* LocalDispatch: a forbidden command gets a row of its own.
Local(d) ==
    /\ At(AtNode(d), "held")
    /\ IF job[d] \in Valid
       THEN /\ Goto(AtNode(d), "run")
            /\ UNCHANGED rows
       ELSE /\ AddRow(d, "failed")
            /\ Goto(AtNode(d), "done")
    /\ UNCHANGED <<slaves, birth, left, node, outcome, keyed, topic>>

\* The node looks for the row of the message, if it carries one, and goes on.
Handle(d) ==
    /\ Local(d)
    /\ found' = found \cup ({d} \cap keyed)
    /\ UNCHANGED budget

\* The look-up fails; its error is ignored, and the node goes on without a row.
HandleBlind(d) ==
    /\ d \in keyed
    /\ Local(d)
    /\ Spend("errors")
    /\ UNCHANGED found

\* The node dies; the message in hand is gone (PullConsumer).
NodeCrash(n) ==
    /\ HandledBy(n) # {}
    /\ Spend("crashes")
    /\ pc' = [a \in Act |-> IF \E d \in HandledBy(n) : a = AtNode(d)
                            THEN "lost" ELSE pc[a]]
    /\ UNCHANGED <<slaves, birth, left, node, outcome, rows, keyed, found,
                   topic>>

-----------------------------------------------------------------------------
(***************************************************************************)
(* The job runs and what follows, the same on both sides.                  *)
(***************************************************************************)
\* Faulty variant: the strong children of a job follow it, success or not.
StrongChildrenAlways(j, o) == IF Depend[j] = 2 THEN Children[j] ELSE <<>>

\* The children to request after outcome o.
StrongChildren(j, o) ==
    IF o = "ok" /\ Depend[j] = 2 THEN Children[j] ELSE <<>>

\* Faulty variant: RpcDispatch counts the call only.
CountEndsWithRunAll(d) == TRUE

\* HttpJob stops counting when the request ends.
CountEndsWithRun(d) == Kind[job[d]] = "http"

\* Faulty variant: HttpDispatch stops counting as well.
CountEndsWithDispatchAll(d) == TRUE

\* RpcDispatch stops counting when it returns.
CountEndsWithDispatch(d) == Kind[job[d]] = "rpc"

RunEnds(a, o) ==
    LET d == a[1] IN
    /\ At(a, "run")
    /\ outcome' = [outcome EXCEPT ![d] = o]
    /\ left' = [left EXCEPT ![d] = StrongChildren(job[d], o)]
    /\ IF a = Manager(d) /\ CountEndsWithRun(d) THEN FinishJob(host[d])
                                                ELSE UNCHANGED count
    /\ Goto(a, "after")
    /\ UNCHANGED <<status, birth, node, rows, keyed, found, topic, budget>>

\* Faulty variant: one child only.
OthersNone(s) == <<>>

\* The children after the next one.
Others(s) == Tail(s)

NextChild(a) ==
    LET d == a[1] IN
    /\ At(a, "after")
    /\ left[d] # <<>>
    /\ Asks(Head(left[d]), d, a, "after")
    /\ left' = [left EXCEPT ![d] = Others(@)]
    /\ UNCHANGED <<slaves, node, outcome, rows, keyed, found, topic, budget>>

\* The request is not answered; nobody looks.
ChildFails(a) ==
    LET d == a[1] IN
    /\ At(a, "after")
    /\ left[d] # <<>>
    /\ Spend("errors")
    /\ left' = [left EXCEPT ![d] = Others(@)]
    /\ UNCHANGED <<slaves, birth, pc, node, outcome, rows, keyed, found,
                   topic>>

\* Faulty variant: the failure does not reach the row.
FinalStatusSuccess(d) == "success"

FinalStatus(d) == IF outcome[d] = "ok" THEN "success" ELSE "failed"

\* Faulty variant: the row is always inserted.
HasRowNever(a) == FALSE

\* jobLogMap.Id # 0: there is a row to update.
HasRow(a) == a[2] = "node" /\ a[1] \in found

\* The end of a dispatch: FinishJob if it still counts.
LogEnds(a) ==
    LET d == a[1] IN
    /\ At(a, "after")
    /\ left[d] = <<>>
    /\ IF a = Manager(d) /\ CountEndsWithDispatch(d) THEN FinishJob(host[d])
                                                     ELSE UNCHANGED count
    /\ Goto(a, IF a = Manager(d) /\ outcome[d] = "error" THEN Failed(d)
                                                         ELSE "done")
    /\ UNCHANGED <<status, birth, left, node, outcome, keyed, found, topic>>

Log(a) ==
    /\ LogEnds(a)
    /\ IF HasRow(a) THEN rows' = [rows EXCEPT ![a[1]][1] = FinalStatus(a[1])]
                    ELSE AddRow(a[1], FinalStatus(a[1]))
    /\ UNCHANGED budget

LogFails(a) ==
    /\ LogEnds(a)
    /\ Spend("errors")
    /\ UNCHANGED rows

\* A failed dispatch asks for the job that sends the mail.
Notify(d) ==
    /\ At(Manager(d), "notify")
    /\ Asks(MailJob, d, Manager(d), "done")
    /\ UNCHANGED <<slaves, left, node, outcome, rows, keyed, found, topic,
                   budget>>

-----------------------------------------------------------------------------
(***************************************************************************)
(* Manager slaves.                                                         *)
(***************************************************************************)
data == <<job, host, parent, left, node, outcome, rows, keyed, found, topic,
          turns>>

Boot(p) ==
    /\ status[p] = "new"
    /\ ~ \E q \in Proc : Up(q)
    /\ status' = [status EXCEPT ![p] = "up"]
    /\ UNCHANGED <<count, data, weak, pc, budget>>

Reload(p, q) ==
    /\ Up(p)
    /\ status[q] = "new"
    /\ Spend("reloads")
    /\ status' = [status EXCEPT ![p] = "exiting", ![q] = "up"]
    /\ UNCHANGED <<count, data, weak, pc>>

\* StopServe waits for requests, WaitRunningJob for what is counted.
Drained(p) ==
    /\ status[p] = "exiting"
    /\ \A d \in Id : host[d] = p => weak[d] = <<>>
    /\ count[p] = 0
    /\ status' = [status EXCEPT ![p] = "leaving"]
    /\ UNCHANGED <<count, data, weak, pc, budget>>

\* The goroutines of p end with it.
Ends(p) ==
    /\ status' = [status EXCEPT ![p] = "gone"]
    /\ count' = [count EXCEPT ![p] = 0]
    /\ weak' = [d \in Id |-> IF host[d] = p THEN <<>> ELSE weak[d]]
    /\ pc' = [a \in Act |->
                IF a[2] = "manager" /\ host[a[1]] = p /\ pc[a] # "done"
                THEN "lost" ELSE pc[a]]
    /\ UNCHANGED data

Exit(p) ==
    /\ status[p] = "leaving"
    /\ Ends(p)
    /\ UNCHANGED budget

Crash(p) ==
    /\ Alive(p)
    /\ Spend("crashes")
    /\ Ends(p)

-----------------------------------------------------------------------------
DispatchStep(d) ==
    \/ WeakChild(d)
    \/ RefuseType(d)
    \/ BeginRpc(d)
    \/ BeginHttp(d)
    \/ BeginMq(d)
    \/ RouteJob(d)
    \/ InsertRow(d)
    \/ SendMessage(d)
    \/ UpdateRow(d)
    \/ Handle(d)
    \/ Notify(d)

DispatchFails(d) ==
    \/ NoNodes(d)
    \/ InsertFails(d)
    \/ SendFails(d)
    \/ UpdateFails(d)
    \/ HandleBlind(d)

ActStep(a) ==
    \/ \E o \in {"ok", "error"} : RunEnds(a, o)
    \/ NextChild(a)
    \/ Log(a)

ActFails(a) == ChildFails(a) \/ LogFails(a)

Next ==
    \/ \E j \in Job, p \in Proc : Timer(j, p) \/ Request(j, p)
    \/ \E d \in Id : DispatchStep(d) \/ DispatchFails(d)
    \/ \E a \in Act : ActStep(a) \/ ActFails(a)
    \/ \E n \in Node : TakeMessage(n) \/ NodeCrash(n)
    \/ \E p \in Proc : Boot(p) \/ Drained(p) \/ Exit(p) \/ Crash(p)
    \/ \E p, q \in Proc : Reload(p, q)

\* Goroutines go on, runs end, listeners listen, the master boots a slave
\* whenever it has none and a drained slave exits.
Fairness ==
    /\ \A d \in Id : WF_vars(DispatchStep(d))
    /\ \A a \in Act : WF_vars(ActStep(a))
    /\ \A n \in Node : WF_vars(TakeMessage(n))
    /\ \A p \in Proc : WF_vars(Boot(p)) /\ WF_vars(Drained(p) \/ Exit(p))

Spec == Init /\ [][Next]_vars
FairSpec == Spec /\ Fairness

-----------------------------------------------------------------------------
\* Types of the dispatches, of the job log and of the queues.
TypeOK ==
    /\ status \in [Proc -> {"new", "up", "exiting", "leaving", "gone"}]
    /\ count \in [Proc -> Nat]
    /\ job \in [Id -> Job \cup {None}]
    /\ host \in [Id -> Proc \cup {None}]
    /\ parent \in [Id -> 0..MaxId]
    /\ weak \in [Id -> Seq(Job)]
    /\ pc \in [Act -> {"none", "start", "route", "run", "after", "insert",
            "send", "update", "topic", "held", "notify", "done", "lost"}]
    /\ left \in [Id -> Seq(Job)]
    /\ node \in [Id -> {0} \cup Node]
    /\ outcome \in [Id -> {"none", "ok", "error"}]
    /\ rows \in [Id -> Seq({"dispatched", "success", "failed"})]
    /\ keyed \subseteq Id
    /\ found \subseteq Id
    /\ topic \in [Node -> Seq(Id)]
    /\ turns \in [Job -> Seq(Node)]
    /\ budget \in [fires : 0..MaxFires, errors : 0..MaxErrors,
                   crashes : 0..MaxCrashes, reloads : 0..MaxReloads]

\* What a row of the job log says is what happened, whichever side wrote it:
\* success only if the job ran and succeeded, failure never after a success.
LogTellsOutcome ==
    \A d \in Id : \A i \in DOMAIN rows[d] :
        /\ rows[d][i] = "success" => outcome[d] = "ok"
        /\ rows[d][i] = "failed" => outcome[d] # "ok"

\* A strong dependency: a child is dispatched only after its parent ran and
\* succeeded, on the slave or on the node that took its message.
StrongAfterSuccess ==
    \A k \in Id :
        /\ parent[k] # 0
        /\ Depend[job[parent[k]]] = 2
        /\ job[k] # MailJob
        => outcome[parent[k]] = "ok"

\* The rows a dispatch may leave.  A node that could not read the row of its
\* message inserts a second one; the manager's says dispatched for ever.
FewRows(d) ==
    \/ Len(rows[d]) <= 1
    \/ Len(rows[d]) = 2 /\ d \in keyed \ found /\ rows[d][1] = "dispatched"

\* MqDispatch and LocalDispatch share one row: a dispatch leaves no second one,
\* whatever else fails, but for the failing read above, and exactly one if all
\* accesses succeed.  An MQ job with a forbidden command leaves two.
OneRowEach ==
    \A d \in Id :
        job[d] # None /\ (job[d] \in Valid \/ Kind[job[d]] # "mq") =>
            /\ FewRows(d)
            /\ /\ At(Manager(d), "done")
               /\ pc[AtNode(d)] \in {"none", "done"}
               /\ budget.errors = MaxErrors
               => Len(rows[d]) = 1

\* The end of WaitRunningJob, in a run whose writes succeed: what the slave
\* has begun to do for dispatches of a kind is logged, children included.
DrainLeaves(kind) ==
    \A p \in Proc : status[p] = "exiting" /\ status'[p] = "leaving" =>
        \A d \in Id :
            /\ host[d] = p
            /\ Kind[job[d]] = kind
            /\ ~ At(Manager(d), "start")
            => rows[d] # <<>> /\ left[d] = <<>>

\* A slave that exits in order has finished the RPC dispatches it had begun:
\* RpcDispatch counts itself from its first line to its last.
DrainedRpcDone == [][DrainLeaves("rpc")]_vars

\* The same of HTTP dispatches: beforeExit waits for the tasks that have not
\* finished ("等待未执行完成的任务").
DrainedHttpDone == [][DrainLeaves("http")]_vars

\* Every enabled child of a strong RPC job is dispatched once the job has
\* succeeded, though its slave is reloaded meanwhile, unless the slave ends
\* without having waited for it or the bound on dispatches is reached.
StrongChildrenFollow ==
    \A j \in {k \in Job : Kind[k] = "rpc" /\ Depend[k] = 2}, d \in Id :
        job[d] = j /\ outcome[d] = "ok" ~>
            \/ At(Manager(d), "lost")
            \/ Free = {}
            \/ Cardinality({k \in Id : parent[k] = d}) >= Len(Children[j])

\* The log of the end of a run stays ("执行结束日志").
FinalStatusStays ==
    [][\A d \in Id : rows[d] # <<>> /\ rows[d][1] # "dispatched" =>
        rows'[d][1] = rows[d][1]]_vars

\* Route type 4 goes round the nodes ("4=>轮询").
RoundRobin ==
    \A j \in Job : Route[j] = 4 /\ NumNodes > 1 =>
        \A i \in 1..(Len(turns[j]) - 1) : turns[j][i] # turns[j][i + 1]
=============================================================================
