# A verification development of ays

ays is a distributed job scheduler written in Go: a *manager* serves an API
and runs timing jobs, *nodes* execute shell jobs, consul's KV store and
service registry tie them together, MySQL holds the catalogue of jobs, the job
log and the node table, and RocketMQ carries jobs that must run in order.

This directory holds TLA+ modules that model its core, the TLC configurations
that check them on small instances, and theorems that TLAPS checks for every
value of the constants. `PROJECT.json` lists the components, the runs, the
source lines each definition stands for, the hazards and the theorems.

    tlc -workers 2 -config timer_single.cfg MCTimerTable     # a run
    tlapm TimerTableProofs.tla                               # the proofs

Paths below are relative to `src/src/modules/` unless they start with `cmd/`,
`routers/` or `models/`.

## 1. Inventory

Every process is a *master* that boots a *slave* and boots another when its
slave ends with an error, and none when it ends with status 0. `SIGUSR2` boots a second slave and signals the first,
which stops taking new work, waits for running jobs and exits: while it waits,
two slaves of one node or manager overlap. All processes share the KV store,
which they read and write without locks, CAS or sessions: most updates read a
whole list, edit it and write it back.

| component | state | operations | correct when |
| --- | --- | --- | --- |
| Timer table and cron (`timer/timer.go`, scan in `cmd/manager/daemonManager.go`) | a cron per slave, the table `ays_timer_list` shared by all slaves | a scan per minute: read the table, drop what cron and table do not both have, start, restart and stop entries by the catalogue, save | every due job has one timer at its current version; no other job has one |
| Node registry (`register/node.go`, `consul/service.go`) | KV `ays_node_list`, consul services, per manager `localWatchList` and alive sign | a node appends and pops its record; a manager scans, claims, saves, releases on exit; NodeDel of the API pops a record | a serving node is listed once and watched by one living manager |
| Node health (`consul/service.go` Watch, `OnNodeChange`, NodeAdd and NodeDel, `models/node.go`) | rows of the node table, `LastIndex` of each watch goroutine | poll, look up the group and the row, update or create; a request adds or deletes a row | a row is offline exactly when its slave is gone |
| Queue registry (`queue/queue.go`, callers in `routers/job/jobRouter.go` and `register/node.go`) | `ays_queue_job_list`, `ays_queue_list` | add or remove an MQ job, move a job to another group, a node joins, leaves or is deleted | a group with MQ jobs has a queue with a listener on every node, a group without has none |
| Message consumer (`mq/rocketmq.go`, `listen/queue.go`) | the offset `mq_<topic>`, the process's pull consumer, listener goroutines, whether the queue is listed | send in order, list the queue and listen, pull, write the offset, handle, take the queue out | messages run in order, none is skipped or left behind |
| Dispatch and job log (`job/job.go`, `dispatch/dispatch.go`, `job_log/`, `ays_run/`, `graceful/`) | rows of `ays_job_log`, the count of running jobs, messages under way | timer and API dispatch, HTTP, RPC and MQ dispatch, local run, children, mails, drain | the log tells what happened; strong children follow a success only; an orderly exit loses no work |
| Job catalogue (`register/job.go`, `models/job.go`, `load_data/`) | table `ays_job`, KV `job_info_*` | add, update, delete, load | both stores say the same |
| Node groups (`register/node_group.go`, `models/node_group.go`) | table, KV `node_group_*`, the list of names `list_node_group` | add, update, delete, load | as the catalogue; the list holds the groups that exist |
| Users and owners (`user/user.go`, `middleware/`, `models/user_job.go`) | the user of the request, kept in a variable of the package; rows of `user_job` | LoginAuth sets the user; addJob and updateJob write owners and author | who is recorded is who asked; owners are those of the job's last form |
| RPC execution (`rpc/client`, `rpc/grpcpool`, `rpc/server`, `ays_run/`, `tools/exec_unix.go`) | connection pool, handlers, a command per call | get a connection, call with a deadline, run and kill the command, put or close the connection | a call reports success only of a command that ended well, and returns |
| Process supervision (`cmd/manager/daemonManager.go`, `cmd/node/daemonNode.go`) | the master's `slaveList`, its chains of slaves, the wait of a draining slave on a WaitGroup | boot, append, wait and boot again, reload, stop, drain | one slave goes on and the master knows it; old slaves leave |
| Query API, configuration, logging, installation, unused and generated code | – | reads, formatting, I/O | not modelled |

Interactions: cron and the API start dispatches; a dispatch reads the
catalogue and the node registry's nodes, calls a node by RPC, or sends to a
queue the queue registry listed; the node's consumer runs the message and both
sides write the log; children come back through the API. Updating a job's
dispatch type or group edits the queue registry, the catalogue's KV entries
drive the timer scan, and a reload by the master drains what a slave runs.

What is hard: unlocked read-edit-write by several processes; overlap of two
slaves after a reload; ids that mean something in one process and are stored
for all; accesses whose failure reads as an empty value; an offset written
before the work is done; a deadline beside the end of a command; a list edited
by two goroutines of the master; loop variables captured by goroutines (Go 1.14
semantics, `go.mod`); a row updated by two sides in no fixed order; two stores
written one after the other; a package variable set by every request.
`PROJECT.json` lists each with its line.

## 2. Modules

| module | models | abstracts |
| --- | --- | --- |
| `TimerTable` | `Load` is GetTimerJobListKv with checkTimerActive, `Fetch` the catalogue read, `Update` one iteration of UpdateTimerJobList, `CheckStop` CheckStopTimerJob, `Save` the write | a job is an alias and a version (`UpdatedAt`); cron is the set of its entries |
| `NodeRegistry` | `Reg`, `Find`, `Append` a node's start; `PopRead`, `Pop`, `DelReg` its exit; `ScanRead`, `Claim`, `ScanSave` WatchNodeList; `UnwatchRead`, `UnwatchSave` the release; `Expire` the 30 s alive sign, `Mistakable` one that cannot be read or was not renewed, `Put` a write of the list that may fail; `NodeDelRead`, `NodeDelPop` the API | the database side is in `NodeHealth`; a scan looks at the signs of all records in one step |
| `NodeHealth` | `PollChange`, `PollOffline` a poll that calls back; `CallbackGroup`, `CallbackExists`, `CallbackUpdate`, `CallbackCreate` the callback, `CallbackFails` its returns without a write; the lookup and the creation of NodeAdd, NodeDel | `LastIndex` is the health seen last; who gets a watch is free |
| `TopicFifo` | the promise of a queue: in order, at most once, one at a time | – |
| `PullConsumer` | `Fetch` starts ConsumeWithPull, `GetOffset`, `Pull`, `SetOffset` its loop, `Handle`, `Return` the handler; `AddQueue`, `CheckQueue` what a slave does about its queue when it boots, `Listen` the request of a manager; `DelQueue`, `Drained`, `Exit` beforeExit | a queue of the broker is a number of messages; of `ays_queue_list` only the node's queue is kept, which `Rewrite` lets others add and drop |
| `QueueRegistry` | requests from `FindNodes` to `Notify`, the list accesses of AddQueue and DelQueue (`QueueExists`, `GetQueueList`, `SaveQueueList`), `Move` the update that changes a job's group, `NodeDel`, slaves' `Join`, `Check`, `Leave`, reloads and crashes | no failing access |
| `JobDispatch` | `Timer` and `Request` begin a dispatch, `BeginRpc`, `BeginHttp`, `BeginMq`, `RouteJob`, `RunEnds`, `NextChild`, `Log` the dispatch types; `TakeMessage`, `Handle`, `HandleBlind` the node, the last one when it cannot read the row of the message | an RPC call is one step, as `RemoteCommand` allows; a topic gives messages in order, each once or never, as `PullConsumer` provides |
| `JobCatalog` | every access of JobAdd, JobUpdate, JobDel, of the same for groups with the list of names, of LoadData; the user variable and the rows of `user_job` | a row's content is the number of the request that wrote it, and so is its user |
| `Supervision` | a chain is bootSlave with its recursion: `Start`, `AppendReads`, `AppendWrites`, `Wait`; `ReloadReads`, `ReloadClears`, `Kill` the signal goroutine; `Ready` to `Exit` a slave that leaves in order, with `FindsNone`, `Waits`, `Woken`, `Drained` and `Reused` the Wait of WaitRunningJob; `Crash` an end with an error, `Quits` the end of a slave whose Serve returns | slaves are numbered as they start |
| `RemoteCommand` | the promise of a call: one command, success only of a command that ended well, a report that stays | – |
| `RpcExec` | extends `Supervision`: `Begin`, `Connect`, `Receive`, `TimesOut`, `Unreachable` are Exec with Pool.Get and Put; `Handle`, `Spawn`, `CommandEnds`, `Answer`, `Expire` are Run and ExecShell; `LocalStarts`, `LocalEnds` the command of an MQ message, which counts like those of calls and has no deadline | what a command prints; of MQ commands whether a slave has one; a connection is the slave at its other end |

`RpcExec` composes the calls with the processes that serve them: a slave that
drains waits for the handlers of its calls and for MQ commands (`Around`), and
one that dies takes them along.
`…Proofs` modules hold the theorems about the module they are named after.
Each `MC…` module gives the constants that a configuration cannot spell.
Operators marked *Faulty variant* belong to no specification: each is a
plausible bug of the operator below it and breaks one property when put in its
place.

How the models follow the code:

- An access to a store is a step of its own, and everything the code does
  between two accesses belongs to one of them. A failing read returns the empty
  value the code goes on with.
- Where several kinds of events would make an instance too large, `Budgets` is
  a set of mixes (so many crashes, so many requests …) of which a behaviour
  picks one in its initial state. Each mix is a bound of the run; proofs hold
  for every set of mixes.
- A reload signals the old slave and boots the new one in one step, except in
  `Supervision`, which has the steps between: the signal sets the exit flag
  at once, so the old slave starts no new scan. Its cron keeps firing until the
  process ends, so `JobDispatch` lets exiting and leaving slaves begin timer
  dispatches.
- A node slave that is signalled before it serves is treated as one that
  crashes.
- A process id is used once. The set of incarnations is finite, so the last
  one does not crash where a liveness property needs it to stay. A slave that
  crashes while it drains makes its master boot a second serving slave;
  `Supervision` shows it (`node_twins`), the other modules boot one serving slave
  at a time.
- The first call of NewPullConsume may race with another one on the package
  variable; it is one step here.
- `slaveList` has no lock. An append is a read and a write, so the append of a
  chain may put back a list the signal goroutine has just cleared.
- `server.Start` serves a server of its own, so the Stop in beforeExit reaches
  nothing: a slave of `RpcExec` accepts calls until its process ends. A call
  whose slave has ended, or that finds nobody accepting on the master's socket,
  gets gRPC's Unavailable (`Unreachable`).
- WaitRunningJob is woken by the FinishJob that takes the count to zero and
  goes on later. If an AddJob comes between, Wait panics ("WaitGroup is reused
  before previous Wait has returned") and the slave dies with an error, upon
  which its master boots another (`Reused`).
- A slave whose Serve returns logs it with `logger.Fatal`, which does not exit,
  and its main returns: status 0, and bootSlave boots nobody (`Quits`). That is
  a node's slave; a manager's waits in `select {}`. Signals to a slave that
  do not come from its master are left out.
- A slave that boots listens to its queue only if QueueExists finds it in the
  list at that moment. A `Listen` is the request of a manager, and nothing makes
  a manager send one.
- `OnNodeChange` gives up, without writing, when the group of the notice is not
  found or an access to the database fails, and the poll does not repeat the
  notice. `lost` records the slaves whose offline notice ended so, or whose last
  watch ended on a failing poll.
- JobLog.Find reports no error: a node that cannot read the row of a message
  goes on with Id 0 (`HandleBlind`) and inserts a row of its own. `found` says of
  which messages the row was found.
- AddQueue and DelQueue ask QueueExists, and queueListAppend and queueListPop ask
  again. A question has no effect and its answer only ends the call or lets
  it go on, so the last one asked stands for both (`QueueExists` of
  `QueueRegistry`). JobAdd reads the row it has inserted back; xorm makes the
  fields of the bean, its id among them, conditions of the query, which finds
  that row or nothing and changes no more than the insertion did (`Create` of
  `JobCatalog`).
- The alive signs of all records of a scan are looked at in one step (`Claim` of
  `NodeRegistry`). A sign that expires between two looks is claimed by the next
  scan, a minute later, and a sign is not renewed by a manager that is gone.
- A handler that panics (the deadline came before the command had a process)
  answers an empty response without an error; its command is started later and
  nobody kills it.
- NodeFindByGroup walks a Go map, so "first" and "last" of its result are any
  node and `JobDispatch` lets the listing order vary. The random route never
  draws the last position of a longer list, which under such an order excludes
  no node.
- `graceful.go` counts an RPC dispatch from its first line to its last, of an
  HTTP dispatch only the request, and of an MQ dispatch nothing.
- Ids of `JobDispatch` are dispatches and not log rows: `rows[d]` are the rows
  a dispatch inserted, `keyed` says the message carries the row's id.
- In `JobCatalog` every request comes from another user, so a row's author tells
  which request it was taken for. `SameKey` says which requests access the same
  key: those for one alias, and those for groups, which all write the list of
  names. `MaxSame` bounds how many of them are at work at once, a load counting
  for every key; `MaxBusy` bounds all requests. With `MaxSame = 1` requests
  interleave freely, but each has its keys to itself; with two on the same keys
  the stores drift apart (`catalog_alias`, `catalog_deleted`).

## 3. Runs

| run | question | bounds |
| --- | --- | --- |
| `timer_single` | Does a scan reconcile cron and catalogue, does a slave find its own table again, does the cron converge? | 2 jobs, 2 incarnations one after the other, 2 edits, a failing read |
| `timer_overlap` | Do the eliminations keep list and cron ids equal when slaves overlap and a write fails? | 2 jobs, 2 overlapping slaves, 2 edits |
| `timer_reload` † | Does a reload leave every due job with a timer? | as above, no failures |
| `node_registry` | One record per address, claims known locally and watched, every record ends up with the running manager | 1 address with 2 incarnations, 2 managers; a crash, a signal, a failing access (of the list, read or written, or of a sign) and a failing poll, or a request of the API with a signal and a crash |
| `node_health` | Do rows tell which slaves are gone? | 2 incarnations, 2 goroutines; a failing poll, a callback that fails at one of its accesses, or a request of the API whose lookup may fail |
| `consumer_fifo` | Does the queue implement `TopicFifo`? | one listener at a time, 2 queues, 5 messages, a crash, a write of the queue list by others |
| `consumer_overlap` | Is a message ever skipped, is each one taken unless the slave that stays is deaf? | 3 listeners of 2 overlapping slaves, 2 messages, a failing access (of offset, pull, consumer or queue list) |
| `node_process` | Does one slave go on and does the master know it? Does a slave serve in the end? Do draining slaves wait for their handlers and leave, do calls return, and do they keep the promise of `RemoteCommand`? | 4 slaves, 2 callers, one job with a timeout and one without; ten mixes of a reload, a stop, a slave that dies, a slave whose Serve returns, an exec that fails, an MQ command, a connection that breaks and one or two callers |
| `queue_registry` | Is every MQ job in its group's job list, when requests come to the list in turn, beside requests still at work on queues and slaves that come and go? Does work done one piece at a time leave queues where they are needed and none where they are not? | 2 handlers, 3 nodes in 2 groups, 3 slaves, 2 jobs; five mixes: 3 requests with a job that changes its group, 2 with a crash, 2 of which one may begin beside other work, one beside a reload, one beside a deleted node; handlers and jobs are symmetric |
| `dispatch_reload` | Does the drain wait for RPC dispatches, do strong children follow? | 2 slaves, 4 dispatches, a reload |
| `dispatch_log` | Does the log tell what happened, in one row or, when the node cannot read the manager's, two, and do strong children follow a success only? | 2 nodes, 3 dispatches of every type, a failing access, a crash |
| `catalog_apart` | Two requests at once on keys of their own, and loads: do tables, KV store and the list of groups agree on what nobody is at work on, has every entry its row, every job the owners of its last update? | 2 handlers, 2 jobs, 2 groups, 4 requests, a load, an error |

† TLC finds the property violated; the property states what a comment or the
README of the repository says. `PROJECT.json` has the quote. Nineteen more
configurations that are not in its list of runs show other such properties
violated; section 4 names them. `catalog_author` with `MaxBusy = 1` and
`catalog_alias` with `MaxSame = 1` pass: these are the premises of the theorems
about AuthorIsRequester and UniqueAlias.

**Why the bounds are enough.** The protocols relate pairs: two slaves of a
reload, two writers of one list, two jobs that trade ids, a record and its
successor at one address, a caller and the slave that drains. Each run has two
of everything its question relates, and a third (slaves in `queue_registry` and
`node_process`, listeners in `consumer_overlap`) where a successor meets a pair.
Faults come one at a time because code that survives one restarts from a state
the model has. `consumer_fifo` uses two message queues so that the loop over
queues is real; the `catalog_*` runs use pages of one row so that a load
crosses pages, and `catalog_apart` has two of everything, so that a request for a
job meets one for another job and one for a group. The mixes of `node_process`, `node_registry`, `node_health` and
`queue_registry` put together the events that meet in one place of the code and
leave apart those that do not. The operators each property rests on are shown
to matter by replacing them with their faulty variants, and most of the safety
properties are proved for every bound (section 5).

**Fairness.** The liveness runs assume weak fairness of what the runtime
schedules: a goroutine that can go on does, a master boots a slave when it has
none, the ticker's scans and consul's deregistration timers come, a drained
slave exits, a deadline passes. Nothing is assumed of users, faults, reloads or
failing accesses. `dispatch_reload` also assumes that runs end, which the
deadline ensures of the RPC jobs whose children it asks about; `node_process`
does not: a command may run for ever, and calls return because ExecShell's
context ends it, while an MQ command, which has no deadline, need not end at
all and holds its slave (the exception OldSlavesLeave names). Nor does
`consumer_overlap`: a job may run for ever, and no manager has to ask for a
listener, so a slave may stay deaf (the exception EveryMessageTaken names). The
one strong fairness is that of `Woken` in `node_process`: the FinishJob that
takes the count to zero wakes WaitRunningJob, though a handler of another call
may add to the count right away. What the waiter does then is weakly fair:
it goes on, or it dies of the reused WaitGroup.

**Stopping.** Deadlock is checked in the `timer_*`, `consumer_*`, `node_registry`,
`node_lost`, `node_health` and `node_twice` configurations. The `queue_*`,
`dispatch_*` and `catalog_*` configurations do a bounded number of requests,
after which every actor may rest for good, and in `node_process` a master may be
stopped with its slaves: there `CHECK_DEADLOCK` is off. `queue_*`
state their properties of quiet states, in which nobody is at work, `catalog_*`
some of theirs of aliases nobody is at work on (`Free`).

## 4. What the checks found

Properties a document, a comment or a message of the repository states and
the code does not keep; each configuration makes TLC print a counterexample
within minutes. The first is among the runs.

| configuration | property | what the source says | what happens |
| --- | --- | --- | --- |
| `timer_reload` | EveryDueJobRuns | "reload（不中断服务重启）" (`README.md:60` of the repository) | The table's `TimerId` is an id of the cron of the slave that wrote it, and two slaves count from 1. When the old slave of a reload saves last, the new one takes its ids for its own and never starts a due job again |
| `node_lost` | ServingIsListed | "执行器node启动时-kv中nodelist增加一条记录（有去重）" (`README.md:25` of the repository) | The manager writes back a list it read before a starting node appended itself |
| `node_twice` | OneRowPerNode | "节点已存在，不可新增" (`register/node.go:33`) | Lookup and creation are two accesses: a request and a callback, or two of either, make two rows of one node |
| `node_restart` | StopReachesAll | "restart时master和salve一起重启" (`cmd/node/daemonNode.go:155`) | A stop that comes while a chain is between two slaves signals the list without the slave that is about to be appended, which goes on without a master |
| `node_twins` | OneServes | "平滑重启" (`cmd/node/daemonNode.go:154`) | A slave that dies while it drains makes its chain boot another beside the one the reload booted: two serve from then on |
| `rpc_timeout` | TimeoutKills | "执行超时, 强制结束" (`rpc/client/client.go:78`) | The deadline passes before ExecShell's goroutine has started the command; it starts afterwards and nobody ends it |
| `rpc_drain` | ReloadCompletes | "关闭端口监听" (`cmd/node/daemonNode.go:284`) | Stop stops a server nobody serves (`rpc/server/server.go:23`): the old slave goes on accepting, and two callers in turn keep its count above zero |
| `consumer_deaf` | ReloadListens | "reload（不中断服务重启）" (`README.md:60` of the repository) | The old slave's DelQueue comes between the new slave's AddQueue and its QueueExists: the new slave serves and does not listen until a manager asks it to |
| `consumer_exit` | OrderlyExitLosesNothing | "等待任务执行完成" (`cmd/node/daemonNode.go:288`) | The offset is written before the job counts as running, so the drain does not wait for a message just pulled |
| `queue_listen` | ListedQueuesListened | "队列不存在时添加队列并监听" (`queue/queue.go:67`) | The goroutines that tell nodes to listen share the loop's variables; a node may not be told |
| `queue_start` | StartedNodesJoin | "如果执行器组中有任务需要队列，则加入" (`register/node.go:62`) | A node starts between a request's look at the nodes and its write of the job list, and has no queue |
| `queue_unused` | UnusedQueuesDeleted | "没有job使用队列，直接删除队列" (`queue/queue.go:91`) | A shortened job list is saved only when it is empty: of two jobs the first to go stays recorded and the queues stay |
| `queue_moved` | StoppedJobsRemoved | "原来是队列任务，现在不是，做删除操作" (`routers/job/jobRouter.go:321`) | An update deletes the alias from the list of the job's new group; the old group keeps it and its queues for ever |
| `dispatch_status` | FinalStatusStays | "执行结束日志" (`dispatch/dispatch.go:187`) | The manager updates the row after it has sent the message; a node that was faster has its final status overwritten |
| `dispatch_http` | DrainedHttpDone | "等待未执行完成的任务" (`cmd/manager/daemonManager.go:278`) | Of an HTTP dispatch only the request is counted; its row and children may be lost by an orderly exit |
| `dispatch_route` | RoundRobin | "4=>轮询" (`dispatch/dispatch.go:329`) | Route type 4 draws at random |
| `catalog_alias` | UniqueAlias | "任务已存在，请更换任务代称" (`register/job.go:19`) | Two additions both find an alias free |
| `catalog_deleted` | DeletedStaysDeleted | "任务不存在" (`routers/job/jobRouter.go:263`) | An update that read its job before a deletion writes the KV entry back |
| `catalog_author` | AuthorIsRequester | "更新者ID" (`models/job.go:37`) | The user of a request is a variable of the package; another request's LoginAuth replaces it before the job is written |
| `catalog_owner` | OwnersAreOfForm | "插入负责人关系" (`routers/job/jobRouter.go:223`) | A deletion leaves the rows of `user_job`: a job added under the alias later has the old owners as well |

What holds is as telling: however slaves overlap, eliminations leave list and
cron with the same ids; the node list has one record per address in spite of
stale writes; no listener ever skips a message, and a slave that pulls leaves
none behind; the log never claims a success that did not happen; a master whose
slave dies with an error goes on with one it knows;
a call that reports success ran its command once and to a good end.

## 5. Proofs

Checked by tlapm with Z3, Zenon and LS4, for all values of the constants that
satisfy the named assumptions (`ConstantsOK` of `TimerTable` and of
`NodeRegistry`, `HealthConstantsOK`, `ConsumerConstantsOK`,
`QueueConstantsOK`, `DispatchConstantsOK`, `CatalogConstantsOK`,
`SupervisionConstantsOK`, `RpcConstantsOK`), which say what kind of value each
constant is. The bounds are such constants: the theorems hold for every number
of processes, requests, failures and crashes. Each invariant was checked by TLC
before it was proved.

`TimerTableProofs`

- `TypeCorrect`: the type invariant.
- `IdsCorrect`, with `EliminationCorrect` and `SharedIdsCorrect`: neither
  MutualElimination nor SharedIdsDistinct is inductive. `IdInv` adds
  `IdsFresh`, which bounds the ids a cron has handed out. `EliminationLemma`
  shows that dropping from each side what the other lacks makes the ids equal;
  `RemoveLemma` and `StartLemma` that stopping and starting a job keep them so.
  `IdStep` has a step per action.
- `SoloCorrect`, with `ListDescribesCronCorrect` and `TableSurvivesCorrect`:
  without reloads and failing writes (their hypotheses). `SoloInv` adds that
  at most one slave lives (`Alone`), that a slave that does not run has
  nothing and one between scans has no unsaved edit (`Resting`), and that outside the
  window between an edit and its save the shared table is the list of a slave
  with timers (`SharedMatches`). The hypotheses are needed: `timer_reload`
  shows what becomes of the timers when two slaves share the table.
- `ScanReconcilesCorrect` (same hypotheses): what the loop of a scan leaves
  untouched is right because a version tells what a job is. Every edit takes a
  version of its own, so no catalogue, current or read long ago, shows one
  version both with a cron that starts and with one that does not
  (`VersionsTold`), and the list records only jobs that started. `LoopDone`
  says that the jobs the loop is past are right; what is recorded beside them is
  the surplus that the end of the loop drops.

`PullConsumerProofs`

- `ConsumerTypeCorrect`, `NothingSkippedCorrect`: the offset never passes a
  message nobody took, for any number of listeners, slaves, queues and faults.
  The property is not inductive because listeners write offsets they computed
  long ago. `Inv` adds that *every offset read* is past taken messages only
  (`ReadInv`), that a listener about to write has its message (`PulledInv`),
  that what runs has been started and what a call has not pulled is not in
  hand (`HandInv`), and that only the key's queue has messages
  (`OtherQueuesEmpty`). A listener may rewind the offset; it cannot skip.
- `HandsOverInOrderCorrect` (its hypotheses: one listener in a slave, no reload,
  no failing access; any number of crashes): the consumer implements
  `TopicFifo`. `Lone` says that one slave is up and only its listener runs,
  `InOrder` that an offset that was read is the one in the store and the message
  in hand the last one below it. `FifoSimulation` maps every step to one of
  `TopicFifo` or to a stutter. `consumer_overlap` shows why the hypotheses are
  needed.

`NodeRegistryProofs`

- `ListUniqueAddrCorrect`, `ClaimsAreLocalCorrect`, `ClaimedIsWatchedCorrect`:
  the node list is written back whole by nodes, managers and the API, so a list
  read long ago comes back. `Sound` says of *a* list what the three properties
  say of the stored one: one record per address, of a slave that has been
  registered, and a claim only where its manager has taken note of it and
  watches. `CopiesSound` says it of the stored list and of every copy somebody
  may still write; a copy read to append an address has no record of it.
  `Kept` names what no step takes away, which is why an old copy stays sound.

`NodeHealthProofs`

- `OfflineRowsAreGoneCorrect`: the watch of an old slave ends after its
  successor of the same address has started. `OfflineIsGone` extends the
  property to the notices on their way and to the rows callbacks hold: each
  names a slave that has served and that consul no longer knows. No step gives
  such a slave its service back, and a callback that fails only drops its notice.

`QueueRegistryProofs`

- The two lists are read and written back without a lock, so both properties
  have in their premises that work is done in turn: `MqJobsRecorded` the work
  on the job list (`RecordedInTurn`), `QueuesFollowJobList` all work
  (`OneAtATime`). Without its premise each is false. `Lone` makes something of the second one: there is
  one actor at work, what it read of a list is what the list is now, and no two
  live slaves share an address.
- `MqJobsRecordedCorrect` (no hypothesis, any number of handlers): no request
  begins while another one has yet to save the job list, so one handler at a
  time is there (`Recording`) and what it read is current (`JobsCurrent`),
  while earlier requests go on with their queues and slaves come and go. Every
  MQ job that has not moved is recorded, or that handler is at a place of the
  code where it still records it (`JobsRecorded`, with `Records`).
  `MeetsOverlap`: requests that meet at the list are work that overlaps, so the
  premise of the other property implies this one's.
- `QueuesFollowJobListCorrect` (no hypothesis; the property has its premise in
  itself): what the handler at work still *owes* to a queue (`Owes`) is what
  keeps queues and job list apart. A serving slave has its queue if one is
  needed, or is owed it (`QueueThere`); a queue is needed, or its deletion is
  owed (`QueueNeeded`); and a handler knows every node of its group
  (`NodesKnown`).

`JobDispatchProofs`

- `LogTellsOutcomeCorrect`, `StrongAfterSuccessCorrect`, `OneRowEachCorrect`,
  `DrainedRpcDoneCorrect`, all from `InvCorrect`. Nearly all of the invariant is
  about one dispatch (`Sound`): how far its two sides can be (`Course`), that
  its run ends once and on one side (`Ran`), what the log holds meanwhile
  (`Written`, `Logged`) and that only a slave that has ended loses it
  (`LostWithHost`). `Waiting` says that messages are distinct, `Asked` that
  whoever asked for a child had succeeded. A step moves one dispatch and leaves
  the others alone, so one lemma serves all of those.
- `OneRowEachCorrect`: `Written` says that a message has its row before it waits
  if it is keyed, and that a node updates the row just when it has found it. A
  node that went on blind is the one case of two rows (`FewRows`), whose first one
  is the manager's and says dispatched; the failing read it took is spent, so a
  run without failures leaves exactly one.
- `CountIsTrue` says that the counter of running jobs is the *cardinality* of the
  dispatches a slave has to wait for; it gives `count \in Nat` in
  `TypeCorrect` (a negative WaitGroup counter panics) and
  `DrainedRpcDoneCorrect`. The hypothesis of the latter, that no access fails,
  is needed: a row whose insertion fails is not there after the drain either.

`RpcExecProofs`

- `AnsweredIsOverCorrect`, `DrainWaitsCorrect` (of handlers: the command of one
  that panicked is not waited for): inductive together with the
  shape of a call (`Typed`) and with what an answer says of its command
  (`HandlerInv`). Lemmas divide the steps into those around a call
  (supervision, crashes) and those of a call.
- `TypeCorrect`: the pool is a buffered channel of as many places as callers. A
  call that is out has taken the place of an idle connection: `PoolInv` bounds
  idle connections and calls out together.
- `KeepsPromiseCorrect`: `RpcExec` implements `RemoteCommand`. `PromiseStep`
  maps every step of it to a step of the promise or to a stutter.
- `OneSlaveStaysCorrect` (no hypothesis; the property has its premise in
  `clean`): not inductive, since it does not say who may still boot a slave.
  Chains start in turn (`ChainsInTurn`) and nobody signals for a reload to come
  (`KillsInTurn`). `FrontStays`: all chains but the one started last are over,
  that one has at most one slave that is to go on, which is in the list or about
  to be appended, and while the list is swapped none is to go on.

`JobCatalogProofs`

Any number of handlers, jobs, groups, requests, loads and failing accesses, with
`MaxSame = 1`: no two requests that are at work at the same time access the same
key. TypeCorrect needs no such premise.

- Between the accesses of a request the two stores differ, and the invariant
  says by what: where a request is (`HandlerInv`), that it has its keys to itself
  (`Alone`), and that its number is its own and no row of its alias has a later
  one (`Numbered`).
- `EntryHasRowCorrect` (any number of failing accesses, at every moment):
  `EntriesHaveRows` asks for the row of every entry in the KV store *and* of every
  entry a request or a load still holds and may write. A deletion may take the
  row away because it took the key away first (`KeyDeleted`).
- `UniqueAliasCorrect`: between Exists and Create nobody else adds the alias, so
  a request at "create" still finds it free.
- `OwnersFollowFormCorrect` (without errors, by its own premise): a row has the
  owners of its form, or a request that wrote it owes them (`OwesOwners`).
- `StoresAgreeCorrect`: on each alias the stores match, or a request for it is
  `Ahead`, and `AheadRight` says what the row, the entry and the list are
  meanwhile. A step for one alias leaves the others as they are (`Apart`). During
  a load, `Wiped` and `Filled` say how far it has come: what is `Pending` has
  nothing in the KV store yet, what is stored matches, and one row is `InHand`.
  That an empty page is the end of the table, whatever the size of a page, is
  `RanksAreDense`: of the rows that have at least a given rank, the one with the
  greatest id has exactly that rank. The least-number principle (`LeastNumber`,
  from the well-foundedness of <) takes the place of an induction.
- `AuthorIsRequesterCorrect` (one request at a time, refused requests in between,
  any failures): `AuthorRight` says that the variable of the package holds the
  user of the request at work, or nobody.

Only model-checked:

- everything that is a liveness property, since fairness and ENABLED are
  beyond the prover.

## 6. Not modelled

- The query API (`routers/index`, `routers/job_log`, `routers/notice`) reads and
  formats rows. Configuration, logging and installation are input and output.
  `rpc/proto/job.pb.go` is generated, `src/config/rocketmq_cpp` are headers of
  a library.
- What nothing calls: `ays_exec`, `register/queue.go`, ConsumeWithPush,
  SendMessageOneway and SendMessageSync, the KV store's locks and CAS, UpdateStep
  and UpdateJobLog, and Stop, Release and ReleaseAll of the connection pool.
- Hazards the code does not survive have no property, or are the named exception
  of one (a slave that is deaf, a slave whose Serve returned, a failing offline
  notice, a row the node cannot read); `PROJECT.json` says which.
- Of modelled components: failing accesses of the queue registry (a list that
  reads as empty is written back as such, which empties it; nothing is left to
  check then); the API server of a manager and the options of the command
  line; the queries of the job log; requests the API refuses for what they
  contain.
- No time: intervals and deadlines are fairness, the 30 s sign is `Expire`.

## 7. Plan

The timing jobs came first (the most intricate state), then the registry they
and dispatch depend on, the consumer with its abstract queue, the queue
registry, dispatch, the catalogue with its groups and owners, and the processes
with the calls they serve. What is left:

1. A composition of `JobDispatch` with `PullConsumer` for one node, in place of
   the assumption about topics, and with `RemoteCommand` in place of the call that
   is one step.
2. Failing accesses in `QueueRegistry`, with properties that survive them.
