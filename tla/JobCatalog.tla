----------------------------- MODULE JobCatalog -----------------------------
(***************************************************************************)
(* The catalogue of jobs and of node groups, kept twice: as rows of the    *)
(* tables ays_job and ays_node_group (models/), which the API lists and    *)
(* dispatches from, and as entries job_info_<alias>, node_group_<alias> of *)
(* the KV store, which the timers, updates and deletions read.             *)
(* register/job.go and register/node_group.go write one and then the       *)
(* other; groups also have a list of their names, read and written whole.  *)
(* "manager loaddata" (load_data.go) rebuilds the KV store from the rows.  *)
(*                                                                         *)
(* Every access is a step of its own and may fail.  A row's content is the *)
(* number of the request that wrote it, and so is a user: each request     *)
(* comes from another one.  Requests the API refuses for what they contain *)
(* (a bad alias, a timer without a time) are left out.                     *)
(***************************************************************************)
EXTENDS Naturals, FiniteSets

CONSTANTS
    Handler,        \* goroutines of the job and group API
    Loader,         \* the goroutine of loaddata
    Job, Group,     \* aliases of jobs, of node groups
    NoEntry,        \* a key the KV store does not have
    PageSize,       \* rows of a page (pre_page, 10 in load_data.go)
    MaxRequests,    \* bound: requests
    MaxBusy,        \* bound: requests and loads at work at the same time
    MaxSame,        \* bound: those of them that access the same keys
    MaxErrors,      \* bound: failing accesses
    MaxLoads        \* bound: runs of loaddata

Alias == Job \cup Group
Worker == Handler \cup {Loader}
Request == 1..MaxRequests
Entry == [id : Request, version : Request]
Row == [id : Request, alias : Alias, version : Request,
        author : 0..MaxRequests]
Owner == [alias : Job, by : Request]

ASSUME CatalogConstantsOK ==
    /\ NoEntry \notin Entry
    /\ Loader \notin Handler
    /\ Job \cap Group = {}
    /\ PageSize \in Nat \ {0}
    /\ {MaxRequests, MaxBusy, MaxSame, MaxErrors, MaxLoads} \subseteq Nat

VARIABLES
    rows,       \* both tables; id is the primary key
    owners,     \* the table user_job: who inserted an owner of which job
    kv,         \* alias -> its entry of the KV store
    list,       \* list_node_group, the names of the groups
    userId,     \* user.UserId: the user of the request authorized last
    pc,         \* worker -> how far its request has come
    op,         \* worker -> none, add, update, del, load
    alias,      \* worker -> the alias of its request, as a set
    req,        \* worker -> the number of its request
    author,     \* worker -> the user it takes its request for
    held,       \* worker -> the job or group it works on, as an entry
    seen,       \* worker -> list as it has read it
    load,       \* loaddata: off, drop, list, clear, page, put
    table,      \* the table loaddata is at: Job or Group, by its aliases
    keys,       \* the aliases whose keys loaddata has yet to delete
    page,       \* the page loaddata has reached
    batch,      \* the rows of that page it has yet to store
    dirty,      \* history: an access failed since the stores last agreed
    used        \* how much of each bound is used

stores == <<rows, owners, kv, list>>
request == <<op, alias, req, author>>
workers == <<pc, request, held, seen>>
loader == <<load, table, keys, page, batch>>
vars == <<stores, userId, workers, loader, dirty, used>>

Init ==
    /\ rows = {}
    /\ owners = {}
    /\ kv = [a \in Alias |-> NoEntry]
    /\ list = {}
    /\ userId = 0
    /\ pc = [w \in Worker |-> "idle"]
    /\ op = [w \in Worker |-> "none"]
    /\ alias = [w \in Worker |-> {}]
    /\ req = [w \in Worker |-> 0]
    /\ author = [w \in Worker |-> 0]
    /\ held = [w \in Worker |-> NoEntry]
    /\ seen = [w \in Worker |-> {}]
    /\ load = "off"
    /\ table = Group
    /\ keys = {}
    /\ page = 1
    /\ batch = {}
    /\ dirty = FALSE
    /\ used = [requests |-> 0, errors |-> 0, loads |-> 0]

Busy == Cardinality({h \in Handler : pc[h] # "idle"})
            + (IF load = "off" THEN 0 ELSE 1)

\* Requests for a and b access the same key: that of the alias, or the list.
SameKey(a, b) == a = b \/ {a, b} \subseteq Group

\* What is at work on the keys of a; a load is at work on all keys.
AtWorkOn(a) ==
    Cardinality({h \in Handler : \E b \in alias[h] : SameKey(a, b)})
        + (IF load = "off" THEN 0 ELSE 1)

Goto(w, step) == pc' = [pc EXCEPT ![w] = step]
Use(b, max) == /\ used[b] < max
               /\ used' = [used EXCEPT ![b] = @ + 1]
IsGroup(w) == alias[w] \subseteq Group

\* The request is answered, or loaddata is done with a row.
Answered(w) ==
    /\ Goto(w, "idle")
    /\ op' = [op EXCEPT ![w] = "none"]
    /\ alias' = [alias EXCEPT ![w] = {}]
    /\ req' = [req EXCEPT ![w] = 0]
    /\ author' = [author EXCEPT ![w] = 0]
    /\ held' = [held EXCEPT ![w] = NoEntry]
    /\ seen' = [seen EXCEPT ![w] = {}]

-----------------------------------------------------------------------------
(***************************************************************************)
(* The handlers of the API.                                                *)
(***************************************************************************)
\* LoginAuth leaves the user in a variable of the package.
Begin(h, kind, a) ==
    /\ pc[h] = "idle"
    /\ Busy < MaxBusy
    /\ AtWorkOn(a) < MaxSame
    /\ Use("requests", MaxRequests)
    /\ userId' = used.requests + 1
    /\ op' = [op EXCEPT ![h] = kind]
    /\ alias' = [alias EXCEPT ![h] = {a}]
    /\ req' = [req EXCEPT ![h] = used.requests + 1]
    /\ Goto(h, IF kind # "add" THEN "get"
               ELSE IF a \in Group THEN "exists" ELSE "user")
    /\ UNCHANGED <<stores, author, held, seen, loader, dirty>>

\* A request without a valid token is answered by LoginAuth.
Unauthorized ==
    /\ userId # 0
    /\ userId' = 0
    /\ UNCHANGED <<stores, workers, loader, dirty, used>>

\* addJob and updateJob read it there; when there is none they ask again.
UserAsked(h) == IF userId = 0 THEN req[h] ELSE userId

\* Asked again, the service may fail: then the request goes on without a user.
User(h) ==
    /\ pc[h] = "user"
    /\ \/ userId' = UserAsked(h) /\ UNCHANGED used
       \/ userId = 0 /\ userId' = 0 /\ Use("errors", MaxErrors)
    /\ author' = [author EXCEPT ![h] = userId']
    /\ Goto(h, IF op[h] = "add" THEN "exists" ELSE "update")
    /\ UNCHANGED <<stores, op, alias, req, held, seen, loader, dirty>>

\* Exists looks for the alias in the table.
Taken(h) == \E r \in rows : r.alias \in alias[h]

Exists(h) ==
    /\ pc[h] = "exists"
    /\ IF Taken(h) THEN Answered(h)
                   ELSE Goto(h, "create") /\ UNCHANGED <<request, held, seen>>
    /\ UNCHANGED <<stores, userId, loader, dirty, used>>

\* JobAddConsul, NodeGroupAddConsul.
AddConsul(w, as) == Goto(w, IF as \subseteq Group THEN "listget" ELSE "put")

\* A group's alias has a unique index, a job's has none.  JobAdd reads the row
\* back into the job that was inserted; its id is a condition of the query, so
\* there is that row to find, or nothing and the job stays as it was inserted.
Create(h) ==
    /\ pc[h] = "create"
    /\ IF IsGroup(h) /\ Taken(h)
       THEN Answered(h) /\ UNCHANGED rows
       ELSE /\ rows' = rows \cup
                    {[id |-> req[h], alias |-> a, version |-> req[h],
                      author |-> author[h]] : a \in alias[h]}
            /\ held' = [held EXCEPT ![h] = [id |-> req[h], version |-> req[h]]]
            /\ AddConsul(h, alias[h])
            /\ UNCHANGED <<request, seen>>
    /\ UNCHANGED <<owners, kv, list, userId, loader, dirty, used>>

\* Faulty variant: a deletion starts with the row.
FirstDeletedRow == "delrow"

\* JobDel and NodeGroupDel delete the key first, the row last.
FirstDeleted == "delkey"

\* JobGetByAlias, NodeGroupGetByAlias: updates and deletions find what they
\* work on in the KV store.  Those of a group that is not there panic, and the
\* request is answered all the same.
GetByAlias(h) ==
    /\ pc[h] = "get"
    /\ \E a \in alias[h] :
        IF kv[a] = NoEntry
        THEN Answered(h)
        ELSE /\ held' = [held EXCEPT ![h] = kv[a]]
             /\ Goto(h, IF op[h] = "update"
                        THEN IF IsGroup(h) THEN "update" ELSE "user"
                        ELSE IF IsGroup(h) THEN "active" ELSE FirstDeleted)
             /\ UNCHANGED <<request, seen>>
    /\ UNCHANGED <<stores, userId, loader, dirty, used>>

\* Faulty variant: the row gets the version after this one.
NewVersionNext(h) == req[h] + 1

NewVersion(h) == req[h]

\* The row with the held id, if it is still there: no row is no error.
Update(h) ==
    /\ pc[h] = "update"
    /\ rows' = {IF r.id = held[h].id
                THEN [r EXCEPT !.version = NewVersion(h), !.author = author[h]]
                ELSE r : r \in rows}
    /\ held' = [held EXCEPT ![h].version = NewVersion(h)]
    /\ Goto(h, "put")
    /\ UNCHANGED <<owners, kv, list, userId, request, seen, loader, dirty,
                   used>>

\* nodeGroupListGet.  A group that is listed is not added again.
ListGet(w) ==
    /\ pc[w] = "listget"
    /\ IF op[w] # "del" /\ alias[w] \subseteq list
       THEN Goto(w, "put") /\ UNCHANGED seen
       ELSE Goto(w, "listput") /\ seen' = [seen EXCEPT ![w] = list]
    /\ UNCHANGED <<stores, userId, request, held, loader, dirty, used>>

AfterList(w) == Goto(w, IF op[w] = "del" THEN "delrow" ELSE "put")

\* nodeGroupListAdd and nodeGroupListDel write the whole list.
ListPut(w) ==
    /\ pc[w] = "listput"
    /\ list' = IF op[w] = "del" THEN seen[w] \ alias[w]
                                ELSE seen[w] \cup alias[w]
    /\ AfterList(w)
    /\ UNCHANGED <<rows, owners, kv, userId, request, held, seen, loader,
                   dirty, used>>

\* KvSetObj.  The owners of a job follow.
Put(w) ==
    /\ pc[w] = "put"
    /\ kv' = [a \in Alias |-> IF a \in alias[w] THEN held[w] ELSE kv[a]]
    /\ IF IsGroup(w) \/ op[w] = "load"
       THEN Answered(w)
       ELSE /\ Goto(w, IF op[w] = "update" THEN "disown" ELSE "own")
            /\ UNCHANGED <<request, held, seen>>
    /\ UNCHANGED <<rows, owners, list, userId, loader, dirty, used>>

\* Faulty variant: an update does not take the owners away.
OwnersKept(h) == owners

\* DelUserJob.
OwnersOfOthers(h) == {o \in owners : o.alias \notin alias[h]}

Disown(h) ==
    /\ pc[h] = "disown"
    /\ owners' = OwnersOfOthers(h)
    /\ Goto(h, "own")
    /\ UNCHANGED <<rows, kv, list, userId, request, held, seen, loader, dirty,
                   used>>

\* AddUserJob for the ManageList of the form.
Own(h) ==
    /\ pc[h] = "own"
    /\ owners' = owners \cup {[alias |-> a, by |-> req[h]] : a \in alias[h]}
    /\ Answered(h)
    /\ UNCHANGED <<rows, kv, list, userId, loader, dirty, used>>

\* A group that has active nodes (consul.FindByMeta) is not deleted.
Active(h) ==
    /\ pc[h] = "active"
    /\ \/ Answered(h)
       \/ Goto(h, FirstDeleted) /\ UNCHANGED <<request, held, seen>>
    /\ UNCHANGED <<stores, userId, loader, dirty, used>>

\* A deletion goes on with the other stores, or is done.
AfterDelete(h, step) ==
    IF step = FirstDeleted
    THEN /\ Goto(h, CASE step = "delrow" -> "delkey"
                      [] step = "delkey" /\ IsGroup(h) -> "listget"
                      [] OTHER -> "delrow")
         /\ UNCHANGED <<request, held, seen>>
    ELSE Answered(h)

KvDel(h) ==
    /\ pc[h] = "delkey"
    /\ kv' = [a \in Alias |-> IF a \in alias[h] THEN NoEntry ELSE kv[a]]
    /\ AfterDelete(h, "delkey")
    /\ UNCHANGED <<rows, owners, list, userId, loader, dirty, used>>

\* The owners of a deleted job stay.
Delete(h) ==
    /\ pc[h] = "delrow"
    /\ rows' = {r \in rows : r.id # held[h].id}
    /\ AfterDelete(h, "delrow")
    /\ UNCHANGED <<owners, kv, list, userId, loader, dirty, used>>

\* An access fails and the request is answered as it stands.
AccessFails(h) ==
    /\ pc[h] \in {"exists", "create", "get", "update", "put", "delkey",
                  "delrow"}
    /\ Use("errors", MaxErrors)
    /\ Answered(h)
    /\ dirty' = TRUE
    /\ UNCHANGED <<stores, userId, loader>>

\* Nobody looks: a list that cannot be read is empty, a write is passed over.
IgnoredFailure(w) ==
    /\ Use("errors", MaxErrors)
    /\ dirty' = TRUE
    /\ \/ /\ pc[w] = "listget"
          /\ Goto(w, "listput")
          /\ seen' = [seen EXCEPT ![w] = {}]
          /\ UNCHANGED <<request, held>>
       \/ /\ pc[w] = "listput"
          /\ AfterList(w)
          /\ UNCHANGED <<request, held, seen>>
       \/ /\ pc[w] = "disown"
          /\ Goto(w, "own")
          /\ UNCHANGED <<request, held, seen>>
       \/ /\ pc[w] = "own" \/ (w = Loader /\ pc[w] = "put")
          /\ Answered(w)
    /\ UNCHANGED <<stores, userId, loader>>

-----------------------------------------------------------------------------
(***************************************************************************)
(* loaddata: clearConsul, loadnodeGroup, loadjob.  Nothing it does is      *)
(* checked for errors.                                                     *)
(***************************************************************************)
Load ==
    /\ load = "off"
    /\ Busy < MaxBusy
    /\ \A a \in Alias : AtWorkOn(a) < MaxSame
    /\ Use("loads", MaxLoads)
    /\ load' = "drop"
    /\ dirty' = FALSE
    /\ UNCHANGED <<stores, userId, workers, table, keys, page, batch>>

DropList ==
    /\ load = "drop"
    /\ list' = {}
    /\ load' = "list"
    /\ table' = Group
    /\ UNCHANGED <<rows, owners, kv, userId, workers, keys, page, batch, dirty,
                   used>>

ListKeys ==
    /\ load = "list"
    /\ keys' = {a \in table : kv[a] # NoEntry}
    /\ load' = "clear"
    /\ UNCHANGED <<stores, userId, workers, table, page, batch, dirty, used>>

ClearKey ==
    /\ load = "clear"
    /\ \E a \in keys :
        /\ kv' = [kv EXCEPT ![a] = NoEntry]
        /\ keys' = keys \ {a}
    /\ UNCHANGED <<rows, owners, list, userId, workers, load, table, page,
                   batch, dirty, used>>

\* The keys of groups go first, then those of jobs.
Cleared ==
    /\ load = "clear"
    /\ keys = {}
    /\ load' = IF table = Group THEN "list" ELSE "page"
    /\ table' = IF table = Group THEN Job ELSE Group
    /\ page' = 1
    /\ UNCHANGED <<stores, userId, workers, keys, batch, dirty, used>>

\* Where a row stands in its table ordered by id, the newest first.
Rank(r) == Cardinality({s \in rows : s.alias \in table /\ s.id > r.id})

\* Faulty variant: pages are counted from 0.
OnPageFromZero(r) ==
    Rank(r) \in (PageSize * page)..(PageSize * (page + 1) - 1)

\* GetList with Limit(pre_page, pre_page * (page - 1)).
OnPage(r) == Rank(r) \in (PageSize * (page - 1))..(PageSize * page - 1)

\* An empty page ends the load of a table.
EndOfTable ==
    /\ load' = IF table = Group THEN "page" ELSE "off"
    /\ table' = IF table = Group THEN Job ELSE Group
    /\ page' = 1

GetPage ==
    /\ load = "page"
    /\ batch' = {r \in rows : r.alias \in table /\ OnPage(r)}
    /\ IF batch' = {} THEN EndOfTable
                      ELSE load' = "put" /\ UNCHANGED <<table, page>>
    /\ UNCHANGED <<stores, userId, workers, keys, dirty, used>>

\* JobAddConsul or NodeGroupAddConsul for the next row of the page.
PutRow ==
    /\ load = "put"
    /\ pc[Loader] = "idle"
    /\ \E r \in batch :
        /\ \A s \in batch : s.id <= r.id
        /\ op' = [op EXCEPT ![Loader] = "load"]
        /\ alias' = [alias EXCEPT ![Loader] = {r.alias}]
        /\ held' = [held EXCEPT ![Loader] =
                        [id |-> r.id, version |-> r.version]]
        /\ AddConsul(Loader, {r.alias})
        /\ batch' = batch \ {r}
    /\ UNCHANGED <<stores, userId, req, author, seen, load, table, keys, page,
                   dirty, used>>

PageDone ==
    /\ load = "put"
    /\ pc[Loader] = "idle"
    /\ batch = {}
    /\ page' = page + 1
    /\ load' = "page"
    /\ UNCHANGED <<stores, userId, workers, table, keys, batch, dirty, used>>

\* A key that cannot be deleted stays, a list that fails is no keys, no rows.
LoadFails ==
    /\ Use("errors", MaxErrors)
    /\ dirty' = TRUE
    /\ \/ /\ load = "drop"
          /\ load' = "list"
          /\ table' = Group
          /\ UNCHANGED <<keys, page>>
       \/ /\ load = "list"
          /\ load' = "clear"
          /\ UNCHANGED <<table, keys, page>>
       \/ /\ load = "clear"
          /\ \E a \in keys : keys' = keys \ {a}
          /\ UNCHANGED <<load, table, page>>
       \/ /\ load = "page"
          /\ EndOfTable
          /\ UNCHANGED keys
    /\ UNCHANGED <<stores, userId, workers, batch>>

-----------------------------------------------------------------------------
HandlerStep(h) ==
    \/ User(h)
    \/ Exists(h)
    \/ Create(h)
    \/ GetByAlias(h)
    \/ Update(h)
    \/ Disown(h)
    \/ Own(h)
    \/ Active(h)
    \/ KvDel(h)
    \/ Delete(h)
    \/ AccessFails(h)

WorkerStep(w) ==
    \/ ListGet(w)
    \/ ListPut(w)
    \/ Put(w)
    \/ IgnoredFailure(w)

LoadStep ==
    \/ Load
    \/ DropList
    \/ ListKeys
    \/ ClearKey
    \/ Cleared
    \/ GetPage
    \/ PutRow
    \/ PageDone
    \/ LoadFails

Next ==
    \/ \E h \in Handler, k \in {"add", "update", "del"}, a \in Alias :
            Begin(h, k, a)
    \/ Unauthorized
    \/ \E h \in Handler : HandlerStep(h)
    \/ \E w \in Worker : WorkerStep(w)
    \/ LoadStep

Spec == Init /\ [][Next]_vars

-----------------------------------------------------------------------------
\* Types of the stores and of the requests and the load at work on them.
TypeOK ==
    /\ rows \in SUBSET Row
    /\ owners \in SUBSET Owner
    /\ kv \in [Alias -> Entry \cup {NoEntry}]
    /\ list \in SUBSET Group
    /\ userId \in 0..MaxRequests
    /\ pc \in [Worker -> {"idle", "user", "exists", "create", "get", "update",
            "active", "listget", "listput", "put", "disown", "own", "delkey",
            "delrow"}]
    /\ op \in [Worker -> {"none", "add", "update", "del", "load"}]
    /\ alias \in [Worker -> SUBSET Alias]
    /\ req \in [Worker -> 0..MaxRequests]
    /\ author \in [Worker -> 0..MaxRequests]
    /\ held \in [Worker -> Entry \cup {NoEntry}]
    /\ seen \in [Worker -> SUBSET Group]
    /\ load \in {"off", "drop", "list", "clear", "page", "put"}
    /\ table \in {Job, Group}
    /\ keys \in SUBSET Alias
    /\ page \in Nat
    /\ batch \in SUBSET Row
    /\ dirty \in BOOLEAN
    /\ used \in [requests : 0..MaxRequests, errors : 0..MaxErrors,
                 loads : 0..MaxLoads]

Stored(a) == {r \in rows : r.alias = a}

\* Nobody is at work on the alias a.
Free(a) == load = "off" /\ \A h \in Handler : a \notin alias[h]

\* Requests at work at the same time, each on keys of its own, and loads by
\* themselves keep the stores equal: of an alias nobody is at work on there is
\* an entry just when there is a row, with the same content, and a group's name
\* in the list.  A load that meets no error restores that after any errors.
StoresAgree ==
    ~ dirty => \A a \in Alias : Free(a) =>
        /\ {[id |-> r.id, version |-> r.version] : r \in Stored(a)} =
                {kv[a]} \ {NoEntry}
        /\ a \in Group => (a \in list <=> kv[a] # NoEntry)

\* The same requests never leave an entry without its row, at work or not and
\* whatever fails: what the timers find in the KV store is in the table, if
\* perhaps with newer content.
EntryHasRow ==
    \A a \in Alias : kv[a] # NoEntry =>
        \E r \in Stored(a) : r.id = kv[a].id /\ r.version >= kv[a].version

OwnersOf(a) == {o.by : o \in {p \in owners : p.alias = a}}

\* In the same way and without errors, the owners of a job nobody is at work on
\* are those of its last update ("插入新的负责人关系"); those of an addition are
\* among its owners.
OwnersFollowForm ==
    used.errors = 0 => \A a \in Job : Free(a) => \A r \in Stored(a) :
        /\ r.version \in OwnersOf(a)
        /\ r.version # r.id => OwnersOf(a) = {r.version}

\* The owners of a job are those of the form that wrote it last
\* ("插入负责人关系"): also when the alias was a deleted job's.
OwnersAreOfForm ==
    \A a \in Job : Free(a) => \A r \in Stored(a) : OwnersOf(a) = {r.version}

\* A job's author is the user of the request that wrote it ("更新者ID"), or
\* nobody after an error: never the user of another request.
AuthorIsRequester ==
    \A r \in rows : r.alias \in Job =>
        r.author = r.version \/ (r.author = 0 /\ used.errors # 0)

\* An alias is taken once ("任务已存在，请更换任务代称").
UniqueAlias == \A r, s \in rows : r.alias = s.alias => r = s

\* A job that has been deleted cannot be updated ("任务不存在"): nothing puts
\* an entry back whose row is gone.
DeletedStaysDeleted ==
    \A a \in Alias : Free(a) /\ kv[a] # NoEntry =>
        \E r \in Stored(a) : r.id = kv[a].id
=============================================================================
