---------------------------- MODULE NodeRegistry ----------------------------
(***************************************************************************)
(* The registration centre: src/modules/register/node.go, the consul       *)
(* service calls it makes (consul/service.go), the node's start and exit   *)
(* (cmd/node/daemonNode.go) and the manager's watch loop                   *)
(* (cmd/manager/daemonManager.go).                                         *)
(*                                                                         *)
(* A node slave registers itself as a consul service and appends a record  *)
(* to the KV list ays_node_list.  A manager slave scans that list every    *)
(* 20 s, claims the records nobody alive watches and starts a goroutine    *)
(* per claimed record that polls consul until the service is gone or a     *)
(* poll fails (what it writes to the database is in NodeHealth).  NodeDel  *)
(* of the node API pops a record as an exiting slave does, but deregisters *)
(* nothing: the name it asks consul for holds the manager's process id.    *)
(* Append, pop, claim and unwatch each read the list and write it back     *)
(* later, without a lock.                                                  *)
(***************************************************************************)
EXTENDS Naturals, FiniteSets

CONSTANTS
    Slave,          \* node slave incarnations; a name holds the process id
    Address,        \* ip:port pairs
    AddrOf,         \* where each node slave serves
    Manager,        \* manager slave incarnations (process ids)
    NoManager,      \* IsWatch = 0
    Budgets         \* bounds: the mixes of events, one of which a behaviour
                    \* stays within: failing accesses of the KV store, failing polls
                    \* of a watch, crashes and signals (stops and reloads) of
                    \* nodes and managers together, NodeDel requests

Budget == [errors : Nat, polls : Nat, crashes : Nat, signals : Nat,
           deletes : Nat]

ASSUME ConstantsOK ==
    /\ AddrOf \in [Slave -> Address]
    /\ NoManager \notin Manager
    /\ Budgets \subseteq Budget

VARIABLES
    nodeList,   \* KV ays_node_list
    services,   \* node slaves registered in consul
    node,       \* node slave -> how far its start or exit has come
    copy,       \* node slave -> the list as it read it
    manager,    \* manager slave -> new, up, leave, unsave, drain, gone
    scan,       \* manager slave -> idle, claim, save
    scanned,    \* manager slave -> the list its scan holds
    unwatched,  \* manager slave -> the list its exit holds
    local,      \* manager slave -> localWatchList
    alive,      \* managers whose alive sign is not older than 30 s
    watches,    \* running watch goroutines
    deletes,    \* NodeDel requests that have read the list
    spent       \* how many of the events of a budget there have been

nodeVars == <<services, node, copy>>
managerVars == <<manager, scan, scanned, unwatched, local, alive, watches,
                 deletes>>
vars == <<nodeList, nodeVars, managerVars, spent>>

Record == [name : Slave, addr : Address, watch : Manager \cup {NoManager}]
Watch == [mgr : Manager, name : Slave]
Delete == [addr : Address, list : SUBSET Record]

NodeRuns(s) == node[s] \notin {"new", "gone"}
NodeLeaves(s) == node[s] \in {"leave", "pop", "dereg"}
ManagerRuns(m) == manager[m] \notin {"new", "gone"}

Init ==
    /\ nodeList = {}
    /\ services = {}
    /\ node = [s \in Slave |-> "new"]
    /\ copy = [s \in Slave |-> {}]
    /\ manager = [m \in Manager |-> "new"]
    /\ scan = [m \in Manager |-> "idle"]
    /\ scanned = [m \in Manager |-> {}]
    /\ unwatched = [m \in Manager |-> {}]
    /\ local = [m \in Manager |-> {}]
    /\ alive = {}
    /\ watches = {}
    /\ deletes = {}
    /\ spent = [errors |-> 0, polls |-> 0, crashes |-> 0, signals |-> 0,
                deletes |-> 0]

\* One more of each event of E, within a budget.
Spend(E) ==
    /\ spent' = [e \in DOMAIN spent |->
                    IF e \in E THEN spent[e] + 1 ELSE spent[e]]
    /\ \E b \in Budgets : \A e \in DOMAIN spent : spent'[e] <= b[e]

\* NodeList.Get: the list, or nothing when the read fails.
Get(list) ==
    \/ list = nodeList /\ UNCHANGED spent
    \/ list = {} /\ Spend({"errors"})

\* NodeList.Save: nobody looks whether the write fails.
Put(list) ==
    \/ nodeList' = list /\ UNCHANGED spent
    \/ UNCHANGED nodeList /\ Spend({"errors"})

-----------------------------------------------------------------------------
(***************************************************************************)
(* Node slaves.                                                            *)
(***************************************************************************)

\* The node's master starts a slave when none serves its address.
NodeBoot(s) ==
    /\ node[s] = "new"
    /\ \A t \in Slave :
        AddrOf[t] = AddrOf[s] /\ NodeRuns(t) => NodeLeaves(t)
    /\ node' = [node EXCEPT ![s] = "reg"]
    /\ UNCHANGED <<nodeList, services, copy, managerVars, spent>>

\* SIGUSR2: the new slave starts while the old one is signalled.
NodeReload(s, t) ==
    /\ node[s] = "serving"
    /\ node[t] = "new"
    /\ AddrOf[s] = AddrOf[t]
    /\ Spend({"signals"})
    /\ node' = [node EXCEPT ![s] = "leave", ![t] = "reg"]
    /\ UNCHANGED <<nodeList, services, copy, managerVars>>

\* NodeRegister: the consul service first.
Reg(s) ==
    /\ node[s] = "reg"
    /\ services' = services \cup {s}
    /\ node' = [node EXCEPT ![s] = "find"]
    /\ UNCHANGED <<nodeList, copy, managerVars, spent>>

\* Faulty variant: records are told apart by name only.
HasAddressNever(list, a) == FALSE

\* NodeListAppend's test for a record of the address.
HasAddress(list, a) == \E r \in list : r.addr = a

\* NodeListAppend up to its early return: the address is listed already.
Find(s) ==
    /\ node[s] = "find"
    /\ \E list \in {nodeList, {}} :
        /\ Get(list)
        /\ IF HasAddress(list, AddrOf[s])
           THEN /\ node' = [node EXCEPT ![s] = "serving"]
                /\ UNCHANGED copy
           ELSE /\ node' = [node EXCEPT ![s] = "append"]
                /\ copy' = [copy EXCEPT ![s] = list]
    /\ UNCHANGED <<nodeList, services, managerVars>>

\* NodeListAppend's write.
Append(s) ==
    /\ node[s] = "append"
    /\ Put(copy[s] \cup
            {[name |-> s, addr |-> AddrOf[s], watch |-> NoManager]})
    /\ node' = [node EXCEPT ![s] = "serving"]
    /\ copy' = [copy EXCEPT ![s] = {}]
    /\ UNCHANGED <<services, managerVars>>

\* The service is stopped: the slave is signalled.
NodeStop(s) ==
    /\ node[s] = "serving"
    /\ Spend({"signals"})
    /\ node' = [node EXCEPT ![s] = "leave"]
    /\ UNCHANGED <<nodeList, services, copy, managerVars>>

\* NodeDelReg, first NodeListPop: read, and write without the address.
PopRead(s) ==
    /\ node[s] = "leave"
    /\ \E list \in {nodeList, {}} :
        /\ Get(list)
        /\ copy' = [copy EXCEPT ![s] = list]
    /\ node' = [node EXCEPT ![s] = "pop"]
    /\ UNCHANGED <<nodeList, services, managerVars>>

Pop(s) ==
    /\ node[s] = "pop"
    /\ Put({r \in copy[s] : r.addr # AddrOf[s]})
    /\ node' = [node EXCEPT ![s] = "dereg"]
    /\ copy' = [copy EXCEPT ![s] = {}]
    /\ UNCHANGED <<services, managerVars>>

\* NodeDelReg, last: the consul service.  Draining changes nothing here.
DelReg(s) ==
    /\ node[s] = "dereg"
    /\ services' = services \ {s}
    /\ node' = [node EXCEPT ![s] = "gone"]
    /\ UNCHANGED <<nodeList, copy, managerVars, spent>>

\* The slave dies: neither popped nor deregistered.
NodeCrash(s) ==
    /\ NodeRuns(s)
    /\ Spend({"crashes"})
    /\ node' = [node EXCEPT ![s] = "gone"]
    /\ copy' = [copy EXCEPT ![s] = {}]
    /\ UNCHANGED <<nodeList, services, managerVars>>

Listens(a) == \E s \in Slave : AddrOf[s] = a /\ NodeRuns(s)

\* DeregisterCriticalServiceAfter: consul removes a service whose address
\* nobody has listened on for 30 s.
Reap(s) ==
    /\ s \in services
    /\ ~Listens(AddrOf[s])
    /\ services' = services \ {s}
    /\ UNCHANGED <<nodeList, node, copy, managerVars, spent>>

-----------------------------------------------------------------------------
(***************************************************************************)
(* Manager slaves.                                                         *)
(***************************************************************************)
ManagerBoot(m) ==
    /\ manager[m] = "new"
    /\ \A n \in Manager : manager[n] # "up"
    /\ manager' = [manager EXCEPT ![m] = "up"]
    /\ UNCHANGED <<nodeList, nodeVars, scan, scanned, unwatched, local, alive,
                   watches, deletes, spent>>

ManagerReload(m, n) ==
    /\ manager[m] = "up"
    /\ manager[n] = "new"
    /\ Spend({"signals"})
    /\ manager' = [manager EXCEPT ![m] = "leave", ![n] = "up"]
    /\ UNCHANGED <<nodeList, nodeVars, scan, scanned, unwatched, local, alive,
                   watches, deletes>>

\* WatchNodeList: sign alive and read the list.
ScanRead(m) ==
    /\ manager[m] = "up"
    /\ scan[m] = "idle"
    /\ alive' = alive \cup {m}
    /\ \E list \in {nodeList, {}} :
        /\ Get(list)
        /\ scanned' = [scanned EXCEPT ![m] = list]
    /\ scan' = [scan EXCEPT ![m] = "claim"]
    /\ UNCHANGED <<nodeList, nodeVars, manager, unwatched, local, watches,
                   deletes>>

\* Faulty variant: a claim is never taken over.
UnclaimedNeverExpires(m, r) == r.watch = NoManager

\* IsWatch == 0 || !managerAliveCheck(IsWatch)
Unclaimed(m, r) ==
    r.watch = NoManager \/ (r.watch # m /\ r.watch \notin alive)

\* Faulty variants: no local note; a goroutine only for new records.
NotedNot(m, claimed) == local[m]
StartedForNew(m, claimed) ==
    {[mgr |-> m, name |-> r.name] : r \in {q \in claimed : q.watch = NoManager}}

\* localWatchListAdd, and the goroutines, for the records a scan claims.
Noted(m, claimed) == local[m] \cup {r.name : r \in claimed}
Started(m, claimed) == {[mgr |-> m, name |-> r.name] : r \in claimed}

\* Records whose managers live: their claims are taken over by mistake when
\* the read of the sign fails, or the sign could not be renewed.
Mistakable(m) == {r \in scanned[m] : r.watch \in alive \ {m}}

\* The loop of WatchNodeList: a goroutine, a mark and a local note for each
\* record it claims.
Claim(m) ==
    /\ ManagerRuns(m)
    /\ scan[m] = "claim"
    /\ \E mistaken \in SUBSET Mistakable(m) :
        LET claimed == {r \in scanned[m] : Unclaimed(m, r)} \cup mistaken IN
        /\ IF mistaken = {} THEN UNCHANGED spent ELSE Spend({"errors"})
        /\ watches' = watches \cup Started(m, claimed)
        /\ local' = [local EXCEPT ![m] = Noted(m, claimed)]
        /\ IF claimed = {}
           THEN /\ scan' = [scan EXCEPT ![m] = "idle"]
                /\ scanned' = [scanned EXCEPT ![m] = {}]
           ELSE /\ scan' = [scan EXCEPT ![m] = "save"]
                /\ scanned' = [scanned EXCEPT ![m] = (@ \ claimed) \cup
                                {[r EXCEPT !.watch = m] : r \in claimed}]
    /\ UNCHANGED <<nodeList, nodeVars, manager, unwatched, alive, deletes>>

\* WatchNodeList's write.
ScanSave(m) ==
    /\ ManagerRuns(m)
    /\ scan[m] = "save"
    /\ Put(scanned[m])
    /\ scan' = [scan EXCEPT ![m] = "idle"]
    /\ scanned' = [scanned EXCEPT ![m] = {}]
    /\ UNCHANGED <<nodeVars, manager, unwatched, local, alive, watches, deletes>>

\* Faulty variant: the wrong field is cleared.
ReleasedName(m, r) ==
    IF r.name \in local[m] THEN [r EXCEPT !.name = NoManager] ELSE r

\* The record as UnwatchLocalWatchList leaves it.
Released(m, r) ==
    IF r.name \in local[m] THEN [r EXCEPT !.watch = NoManager] ELSE r

\* UnwatchLocalWatchList reads; a scan under way goes on beside it.
UnwatchRead(m) ==
    /\ manager[m] = "leave"
    /\ \E list \in {nodeList, {}} :
        /\ Get(list)
        /\ IF \E r \in list : r.name \in local[m]
           THEN /\ manager' = [manager EXCEPT ![m] = "unsave"]
                /\ unwatched' = [unwatched EXCEPT ![m] =
                                    {Released(m, r) : r \in list}]
           ELSE /\ manager' = [manager EXCEPT ![m] = "drain"]
                /\ UNCHANGED unwatched
    /\ UNCHANGED <<nodeList, nodeVars, scan, scanned, local, alive, watches,
                   deletes>>

UnwatchSave(m) ==
    /\ manager[m] = "unsave"
    /\ Put(unwatched[m])
    /\ manager' = [manager EXCEPT ![m] = "drain"]
    /\ unwatched' = [unwatched EXCEPT ![m] = {}]
    /\ UNCHANGED <<nodeVars, scan, scanned, local, alive, watches, deletes>>

\* What a manager slave loses when it ends.
Vanish(m) ==
    /\ manager' = [manager EXCEPT ![m] = "gone"]
    /\ scan' = [scan EXCEPT ![m] = "idle"]
    /\ scanned' = [scanned EXCEPT ![m] = {}]
    /\ unwatched' = [unwatched EXCEPT ![m] = {}]
    /\ local' = [local EXCEPT ![m] = {}]
    /\ watches' = {w \in watches : w.mgr # m}
    /\ UNCHANGED <<nodeList, nodeVars, alive, deletes>>

ManagerExit(m) == manager[m] = "drain" /\ Vanish(m) /\ UNCHANGED spent

\* The last incarnation does not crash: Manager is finite.
ManagerCrash(m) ==
    /\ manager[m] = "up"
    /\ \E n \in Manager : manager[n] = "new"
    /\ Spend({"crashes"})
    /\ Vanish(m)

\* A manager that no longer scans for 30 s counts as dead.  One that scans
\* signs every 20 s and does not.
Expire(m) ==
    /\ m \in alive
    /\ manager[m] # "up"
    /\ alive' = alive \ {m}
    /\ UNCHANGED <<nodeList, nodeVars, manager, scan, scanned, unwatched,
                   local, watches, deletes, spent>>

-----------------------------------------------------------------------------
(***************************************************************************)
(* Watch goroutines (consul.Watch).  Either way the record stays claimed.  *)
(***************************************************************************)

\* A poll finds no service: the watch reports offline and ends.
WatchOffline(w) ==
    /\ w.name \notin services
    /\ watches' = watches \ {w}
    /\ UNCHANGED <<nodeList, nodeVars, manager, scan, scanned, unwatched,
                   local, alive, deletes, spent>>

\* A poll fails: the watch ends.
WatchError(w) ==
    /\ Spend({"polls"})
    /\ watches' = watches \ {w}
    /\ UNCHANGED <<nodeList, nodeVars, manager, scan, scanned, unwatched,
                   local, alive, deletes>>

-----------------------------------------------------------------------------
(***************************************************************************)
(* NodeDel of the API: the NodeListPop of NodeDelReg.                      *)
(***************************************************************************)
NodeDelRead(a) ==
    /\ \E list \in {nodeList, {}} :
        /\ deletes' = deletes \cup {[addr |-> a, list |-> list]}
        /\ \/ list = nodeList /\ Spend({"deletes"})
           \/ list = {} /\ Spend({"deletes", "errors"})
    /\ UNCHANGED <<nodeList, nodeVars, manager, scan, scanned, unwatched,
                   local, alive, watches>>

NodeDelPop(d) ==
    /\ Put({r \in d.list : r.addr # d.addr})
    /\ deletes' = deletes \ {d}
    /\ UNCHANGED <<nodeVars, manager, scan, scanned, unwatched, local, alive,
                   watches>>

-----------------------------------------------------------------------------
NodeStep(s) ==
    Reg(s) \/ Find(s) \/ Append(s) \/ PopRead(s) \/ Pop(s) \/ DelReg(s)

ManagerStep(m) == ScanRead(m) \/ Claim(m) \/ ScanSave(m)

ManagerExitStep(m) == UnwatchRead(m) \/ UnwatchSave(m) \/ ManagerExit(m)

Next ==
    \/ \E s \in Slave : \/ NodeBoot(s) \/ NodeStep(s) \/ NodeStop(s)
                        \/ NodeCrash(s) \/ Reap(s)
    \/ \E s, t \in Slave : NodeReload(s, t)
    \/ \E m \in Manager : \/ ManagerBoot(m) \/ ManagerStep(m)
                          \/ ManagerExitStep(m) \/ ManagerCrash(m) \/ Expire(m)
    \/ \E m, n \in Manager : ManagerReload(m, n)
    \/ \E w \in watches : WatchOffline(w) \/ WatchError(w)
    \/ \E a \in Address : NodeDelRead(a)
    \/ \E d \in deletes : NodeDelPop(d)

\* Started work goes on, the manager's loop runs forever and its master
\* restarts it, and time passes.
Fairness ==
    /\ \A s \in Slave : WF_vars(NodeStep(s)) /\ WF_vars(Reap(s))
    /\ \A m \in Manager :
        /\ WF_vars(ManagerStep(m))
        /\ WF_vars(ManagerExitStep(m))
        /\ WF_vars(Expire(m))
    /\ WF_vars(\E m \in Manager : ManagerBoot(m))

Spec == Init /\ [][Next]_vars
FairSpec == Spec /\ Fairness

-----------------------------------------------------------------------------
(***************************************************************************)
(* Properties.                                                             *)
(***************************************************************************)

\* Types of the list, the services, the rows and the processes.
TypeOK ==
    /\ nodeList \in SUBSET Record
    /\ services \in SUBSET Slave
    /\ node \in [Slave -> {"new", "reg", "find", "append", "serving", "leave",
                           "pop", "dereg", "gone"}]
    /\ copy \in [Slave -> SUBSET Record]
    /\ manager \in [Manager -> {"new", "up", "leave", "unsave", "drain", "gone"}]
    /\ scan \in [Manager -> {"idle", "claim", "save"}]
    /\ scanned \in [Manager -> SUBSET Record]
    /\ unwatched \in [Manager -> SUBSET Record]
    /\ local \in [Manager -> SUBSET Slave]
    /\ alive \in SUBSET Manager
    /\ watches \in SUBSET Watch
    /\ deletes \in SUBSET Delete
    /\ spent \in Budget

UniqueAddr(list) == \A r, q \in list : r.addr = q.addr => r = q

\* The list never holds two records of one address, though slaves of one
\* address overlap and lists are written back stale.  NodeListPop removes
\* while it ranges over the slice and would panic on two records.
ListUniqueAddr == UniqueAddr(nodeList)

\* A running manager knows locally every claim the list holds for it, so
\* UnwatchLocalWatchList can release them all.
ClaimsAreLocal ==
    \A r \in nodeList :
        r.watch # NoManager /\ ManagerRuns(r.watch)
            => r.name \in local[r.watch]

\* As long as no poll has failed, a record that a running manager claims and whose
\* service is registered has a watch goroutine in that manager.
ClaimedIsWatched ==
    spent.polls = 0 =>
      \A r \in nodeList :
        /\ r.watch # NoManager
        /\ ManagerRuns(r.watch)
        /\ r.name \in services
        => \E w \in watches : w.mgr = r.watch /\ w.name = r.name

\* Every record ends up claimed by the running manager: claims of dead or
\* leaving managers are taken over.
ClaimsConverge ==
    <>[](\A r \in nodeList :
            r.watch # NoManager /\ manager[r.watch] = "up")

\* A node that has started is in the list as long as it serves (README,
\* registration centre (2)).  The code does not keep this: see node_lost.
ServingIsListed ==
    <>[](\A s \in Slave :
            node[s] = "serving" => HasAddress(nodeList, AddrOf[s]))
=============================================================================
