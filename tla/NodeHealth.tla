----------------------------- MODULE NodeHealth -----------------------------
(***************************************************************************)
(* What the watch goroutines of the managers write: consul.Watch           *)
(* (consul/service.go), OnNodeChange (register/node.go) and                *)
(* Node.CreateOrUpdate (models/node.go); and what NodeAdd and NodeDel, the *)
(* requests of the node API, do to the same rows beside them.              *)
(*                                                                         *)
(* A goroutine polls the services of one node slave.  When they changed it *)
(* calls back, and the callback looks up the group of the slave, asks the  *)
(* database whether a row exists and then updates or creates it: steps     *)
(* between which other goroutines, of this manager or another, and the     *)
(* nodes go on, and each of which may fail.  A callback that fails is      *)
(* logged and not repeated.  Who gets a watch is NodeRegistry's business;  *)
(* here any registered slave may get one, or several.                      *)
(***************************************************************************)
EXTENDS Naturals, FiniteSets

CONSTANTS
    Slave,          \* node slave incarnations
    Address,        \* ip:port pairs
    AddrOf,         \* where each node slave serves
    NoAddress,      \* the address of the offline notice
    NoName,         \* the node id of a row that NodeAdd made
    Watcher,        \* watch goroutines
    Handler,        \* goroutines of the node API
    Budgets         \* bounds: the mixes of failing polls, failing callbacks,
                    \* failing lookups of NodeAdd and requests of the API,
                    \* one of which a behaviour stays within

Events == [polls : Nat, errors : Nat, lookups : Nat, requests : Nat]

ASSUME HealthConstantsOK ==
    /\ AddrOf \in [Slave -> Address]
    /\ NoAddress \notin Address
    /\ NoName \notin Slave
    /\ Budgets \subseteq Events

VARIABLES
    node,       \* slave -> new, up, gone
    services,   \* slaves registered in consul
    watching,   \* goroutine -> the slave it watches, as a set of at most one
    last,       \* goroutine -> the health it saw last (stands for LastIndex)
    step,       \* goroutine -> off, poll, group, exists, update, create
    data,       \* goroutine -> the notice its callback carries
    lost,       \* history: the slaves a watch of which ended without writing
                \* that they are offline, and that got no watch since
    db,         \* rows of the node table
    rows,       \* rows created so far: the autoincrement key
    adding,     \* handler -> the address its NodeAdd found free, as a set
    deleting,   \* handler -> the row its NodeDel found, as a set
    spent       \* how many of the events of a budget there have been

watchVars == <<watching, last, step, data, lost>>
apiVars == <<adding, deleting>>
vars == <<node, services, watchVars, db, rows, apiVars, spent>>

HealthValue == {"passing", "critical", "offline", "maintenance"}
Notice == [id : Slave, addr : Address \cup {NoAddress}, health : HealthValue]
Row == [key : Nat, id : Slave \cup {NoName}, addr : Address \cup {NoAddress},
        health : HealthValue]

Init ==
    /\ node = [s \in Slave |-> "new"]
    /\ services = {}
    /\ watching = [w \in Watcher |-> {}]
    /\ last = [w \in Watcher |-> "none"]
    /\ step = [w \in Watcher |-> "off"]
    /\ data = [w \in Watcher |-> {}]
    /\ lost = {}
    /\ db = {}
    /\ rows = 0
    /\ adding = [h \in Handler |-> {}]
    /\ deleting = [h \in Handler |-> {}]
    /\ spent = [polls |-> 0, errors |-> 0, lookups |-> 0, requests |-> 0]

\* One more of each event of E, within a budget.
Spend(E) ==
    /\ spent' = [e \in DOMAIN spent |->
                    IF e \in E THEN spent[e] + 1 ELSE spent[e]]
    /\ \E b \in Budgets : \A e \in DOMAIN spent : spent'[e] <= b[e]

-----------------------------------------------------------------------------
\* A slave starts serving and registers; a name is used once.
Register(s) ==
    /\ node[s] = "new"
    /\ node' = [node EXCEPT ![s] = "up"]
    /\ services' = services \cup {s}
    /\ UNCHANGED <<watchVars, db, rows, apiVars, spent>>

\* A slave leaves: it deregisters and stops listening.
Leave(s) ==
    /\ node[s] = "up"
    /\ node' = [node EXCEPT ![s] = "gone"]
    /\ services' = services \ {s}
    /\ UNCHANGED <<watchVars, db, rows, apiVars, spent>>

\* A slave dies and stays registered.
Crash(s) ==
    /\ node[s] = "up"
    /\ node' = [node EXCEPT ![s] = "gone"]
    /\ UNCHANGED <<services, watchVars, db, rows, apiVars, spent>>

Listens(a) == \E s \in Slave : AddrOf[s] = a /\ node[s] = "up"

\* Consul drops a service nobody has listened for during 30 s.
Reap(s) ==
    /\ s \in services
    /\ ~Listens(AddrOf[s])
    /\ services' = services \ {s}
    /\ UNCHANGED <<node, watchVars, db, rows, apiVars, spent>>

\* The TCP check of consul.Reg.
Health(s) == IF Listens(AddrOf[s]) THEN "passing" ELSE "critical"

-----------------------------------------------------------------------------
\* NodeWatch starts a goroutine for a listed slave; a listed slave has been
\* registered before.
StartWatch(w, s) ==
    /\ step[w] = "off"
    /\ node[s] # "new"
    /\ watching' = [watching EXCEPT ![w] = {s}]
    /\ last' = [last EXCEPT ![w] = "none"]
    /\ step' = [step EXCEPT ![w] = "poll"]
    /\ data' = [data EXCEPT ![w] = {}]
    /\ lost' = lost \ {s}
    /\ UNCHANGED <<node, services, db, rows, apiVars, spent>>

\* A poll finds the service changed: OnNodeChange gets its data.
PollChange(w) ==
    /\ step[w] = "poll"
    /\ \E s \in watching[w] :
        /\ s \in services
        /\ last[w] # Health(s)
        /\ last' = [last EXCEPT ![w] = Health(s)]
        /\ data' = [data EXCEPT ![w] =
                {[id |-> s, addr |-> AddrOf[s], health |-> Health(s)]}]
    /\ step' = [step EXCEPT ![w] = "group"]
    /\ UNCHANGED <<node, services, watching, lost, db, rows, apiVars, spent>>

\* A poll finds no service: OnNodeChange gets the offline notice, which names
\* no group.
PollOffline(w) ==
    /\ step[w] = "poll"
    /\ \E s \in watching[w] :
        /\ s \notin services
        /\ data' = [data EXCEPT ![w] =
                {[id |-> s, addr |-> NoAddress, health |-> "offline"]}]
    /\ step' = [step EXCEPT ![w] = "exists"]
    /\ UNCHANGED <<node, services, watching, last, lost, db, rows, apiVars,
                   spent>>

\* The goroutine ends.
Ended(w) ==
    /\ step' = [step EXCEPT ![w] = "off"]
    /\ watching' = [watching EXCEPT ![w] = {}]
    /\ last' = [last EXCEPT ![w] = "none"]
    /\ data' = [data EXCEPT ![w] = {}]

\* A poll fails, or the manager of the goroutine ends.
WatchError(w) ==
    /\ step[w] # "off"
    /\ Spend({"polls"})
    /\ Ended(w)
    /\ lost' = lost \cup watching[w]
    /\ UNCHANGED <<node, services, db, rows, apiVars>>

-----------------------------------------------------------------------------
\* The goroutine of a notice moves on to a step of its callback.
GoOn(w, st) ==
    /\ step' = [step EXCEPT ![w] = st]
    /\ UNCHANGED <<watching, last, data>>

\* Back to polling, unless the notice was the last one.
Return(w, d) ==
    IF d.health = "offline"
    THEN Ended(w)
    ELSE /\ step' = [step EXCEPT ![w] = "poll"]
         /\ data' = [data EXCEPT ![w] = {}]
         /\ UNCHANGED <<watching, last>>

\* OnNodeChange finds the group the notice names and goes on.
CallbackGroup(w) ==
    /\ step[w] = "group"
    /\ GoOn(w, "exists")
    /\ UNCHANGED <<node, services, lost, db, rows, apiVars, spent>>

\* CreateOrUpdate's Exist: by address, or by node id without an address.
Exists(d) ==
    IF d.addr # NoAddress THEN \E r \in db : r.addr = d.addr
                          ELSE \E r \in db : r.id = d.id

CallbackExists(w) ==
    /\ step[w] = "exists"
    /\ \E d \in data[w] : GoOn(w, IF Exists(d) THEN "update" ELSE "create")
    /\ UNCHANGED <<node, services, lost, db, rows, apiVars, spent>>

\* The callback finds no group or fails: nothing is written, and the poll that
\* brought the notice has taken the change for seen.
CallbackFails(w) ==
    /\ step[w] \in {"group", "exists", "update", "create"}
    /\ Spend({"errors"})
    /\ \E d \in data[w] :
        /\ Return(w, d)
        /\ lost' = IF d.health = "offline" THEN lost \cup {d.id} ELSE lost
    /\ UNCHANGED <<node, services, db, rows, apiVars>>

\* Faulty variant: an offline notice takes the row of the address offline.
UpdatedByAddress(r, d) ==
    IF d.health = "offline" /\ AddrOf[d.id] = r.addr
    THEN [r EXCEPT !.health = "offline"]
    ELSE IF d.health # "offline" /\ r.addr = d.addr
         THEN [r EXCEPT !.id = d.id, !.health = d.health]
         ELSE r

\* Faulty variant: the update leaves node_id as it was.
UpdatedHealthOnly(r, d) ==
    IF d.health = "offline"
    THEN IF r.id = d.id THEN [r EXCEPT !.health = "offline"] ELSE r
    ELSE IF r.addr = d.addr THEN [r EXCEPT !.health = d.health] ELSE r

\* Node.Update on one row: offline by node id, anything else by address.
Updated(r, d) ==
    IF d.health = "offline"
    THEN IF r.id = d.id THEN [r EXCEPT !.health = "offline"] ELSE r
    ELSE IF r.addr = d.addr
         THEN [r EXCEPT !.id = d.id, !.health = d.health]
         ELSE r

CallbackUpdate(w) ==
    /\ step[w] = "update"
    /\ \E d \in data[w] :
        /\ db' = {Updated(r, d) : r \in db}
        /\ Return(w, d)
    /\ UNCHANGED <<node, services, lost, rows, apiVars, spent>>

\* Faulty variant: the key is one behind.
NewRowBehind(d) ==
    [key |-> rows - 1, id |-> d.id, addr |-> d.addr, health |-> d.health]

\* Node.Create.
NewRow(d) ==
    [key |-> rows, id |-> d.id, addr |-> d.addr, health |-> d.health]

CallbackCreate(w) ==
    /\ step[w] = "create"
    /\ \E d \in data[w] :
        /\ db' = db \cup {NewRow(d)}
        /\ rows' = rows + 1
        /\ Return(w, d)
    /\ UNCHANGED <<node, services, lost, apiVars, spent>>

-----------------------------------------------------------------------------
(***************************************************************************)
(* The node API.                                                           *)
(***************************************************************************)
Free(h) == adding[h] = {} /\ deleting[h] = {}

\* NodeAdd refuses an address that has a row; a lookup that fails finds none.
NodeAdd(h, a) ==
    /\ Free(h)
    /\ \/ (\A r \in db : r.addr # a) /\ Spend({"requests"})
       \/ Spend({"requests", "lookups"})
    /\ adding' = [adding EXCEPT ![h] = {a}]
    /\ UNCHANGED <<node, services, watchVars, db, rows, deleting>>

NodeAddCreate(h) ==
    /\ \E a \in adding[h] :
        \/ /\ db' = db \cup {[key |-> rows, id |-> NoName, addr |-> a,
                              health |-> "maintenance"]}
           /\ rows' = rows + 1
           /\ UNCHANGED spent
        \/ Spend({"errors"}) /\ UNCHANGED <<db, rows>>
    /\ adding' = [adding EXCEPT ![h] = {}]
    /\ UNCHANGED <<node, services, watchVars, deleting>>

NodeDel(h) ==
    /\ Free(h)
    /\ Spend({"requests"})
    /\ \E r \in db : deleting' = [deleting EXCEPT ![h] = {r}]
    /\ UNCHANGED <<node, services, watchVars, db, rows, adding>>

\* The row as it was found is the condition of the DELETE: one that has changed
\* stays.  So does one whose service consul (external) refuses to deregister:
\* its name holds the process id of the manager, which is no node's.
NodeDelRow(h) ==
    /\ deleting[h] # {}
    /\ db' = db \ deleting[h] \/ UNCHANGED db
    /\ deleting' = [deleting EXCEPT ![h] = {}]
    /\ UNCHANGED <<node, services, watchVars, rows, adding, spent>>

-----------------------------------------------------------------------------
WatchStep(w) ==
    \/ PollChange(w)
    \/ PollOffline(w)
    \/ CallbackGroup(w)
    \/ CallbackExists(w)
    \/ CallbackUpdate(w)
    \/ CallbackCreate(w)

Next ==
    \/ \E s \in Slave : Register(s) \/ Leave(s) \/ Crash(s) \/ Reap(s)
    \/ \E w \in Watcher, s \in Slave : StartWatch(w, s)
    \/ \E w \in Watcher : WatchStep(w) \/ CallbackFails(w) \/ WatchError(w)
    \/ \E h \in Handler, a \in Address : NodeAdd(h, a)
    \/ \E h \in Handler : NodeAddCreate(h) \/ NodeDel(h) \/ NodeDelRow(h)

\* A goroutine polls again and again, and consul's timers run.
Fairness ==
    /\ \A w \in Watcher : WF_vars(WatchStep(w))
    /\ \A s \in Slave : WF_vars(Reap(s))

Spec == Init /\ [][Next]_vars
FairSpec == Spec /\ Fairness

-----------------------------------------------------------------------------
\* Types of the rows and of the state of every goroutine.
TypeOK ==
    /\ node \in [Slave -> {"new", "up", "gone"}]
    /\ services \in SUBSET Slave
    /\ watching \in [Watcher -> SUBSET Slave]
    /\ last \in [Watcher -> {"none", "passing", "critical"}]
    /\ step \in [Watcher ->
                    {"off", "poll", "group", "exists", "update", "create"}]
    /\ data \in [Watcher -> SUBSET Notice]
    /\ lost \in SUBSET Slave
    /\ db \in SUBSET Row
    /\ rows \in Nat
    /\ adding \in [Handler -> SUBSET Address]
    /\ deleting \in [Handler -> SUBSET Row]
    /\ spent \in Events

\* A row marked offline names a slave that is no longer registered: the late
\* end of an old slave's watch never takes a live successor's row offline.
OfflineRowsAreGone ==
    \A r \in db : r.health = "offline" => r.id \notin services

\* The row of a slave that is gone ends up offline, however the callbacks of
\* several goroutines and the requests of the API interleave and whichever of
\* them fail; but for a slave the last watch of which ended on a failing poll,
\* or failed to write the offline notice: its row may stay for ever, and only
\* another watch of the same slave would mend it.
GoneRowsGoOffline ==
    <>[](\A r \in db : r.id \in services \cup {NoName} \cup lost
                          \/ r.health = "offline")

\* A node has one row ("节点已存在，不可新增").
OneRowPerNode == \A r, q \in db : r.addr = q.addr => r = q
=============================================================================
