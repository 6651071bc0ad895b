-------------------------- MODULE JobCatalogProofs --------------------------
(***************************************************************************)
(* What holds of the two stores of the catalogue for every number of       *)
(* handlers, jobs, groups, requests, loads and failing accesses, when no   *)
(* two that are at work at the same time access the same key.              *)
(*                                                                         *)
(* Between the accesses of a request the stores differ by what the request *)
(* has not done yet.  The invariant says what that is at every step of an  *)
(* addition, an update and a deletion.                                     *)
(***************************************************************************)
EXTENDS JobCatalog, FiniteSetTheorems, WellFoundedInduction, TLAPS

\* Where a worker has what it works on.
Holding == {"update", "active", "listget", "listput", "put", "disown", "own",
            "delkey", "delrow"}

\* How far workers come with which operation.
HandlerInv(h) ==
    /\ op[h] # "load"
    /\ pc[h] = "idle" <=> op[h] = "none"
    /\ pc[h] # "idle" => req[h] \in Request /\ \E a \in Alias : alias[h] = {a}
    /\ pc[h] = "idle" => held[h] = NoEntry /\ alias[h] = {}
    /\ pc[h] \in Holding => held[h] \in Entry
    /\ pc[h] \in {"put", "disown", "own"} => held[h].version = req[h]
    /\ op[h] = "add" /\ held[h] # NoEntry =>
        held[h].id = req[h] /\ held[h].version = req[h]
    /\ pc[h] = "user" => (op[h] = "update" <=> held[h] # NoEntry)
    /\ pc[h] \in {"exists", "create", "get"} => held[h] = NoEntry
    /\ pc[h] \in {"exists", "create"} => op[h] = "add"
    /\ pc[h] = "user" => op[h] \in {"add", "update"}
    /\ pc[h] = "get" => op[h] \in {"update", "del"}
    /\ pc[h] \in {"update", "disown"} => op[h] = "update"
    /\ pc[h] \in {"put", "own"} => op[h] \in {"add", "update"}
    /\ pc[h] \in {"user", "disown", "own"} /\ op[h] = "update" => alias[h] \subseteq Job
    /\ pc[h] = "own" => alias[h] \subseteq Job
    /\ pc[h] \in {"active", "delkey", "delrow"} => op[h] = "del"
    /\ pc[h] = "active" => alias[h] \subseteq Group
    /\ pc[h] \in {"listget", "listput"} =>
        op[h] \in {"add", "del"} /\ alias[h] \subseteq Group

\* Where loaddata is with a row, and with a page.
LoaderInv ==
    /\ op[Loader] \in {"none", "load"}
    /\ pc[Loader] \in {"idle", "listget", "listput", "put"}
    /\ pc[Loader] # "idle" =>
        /\ op[Loader] = "load"
        /\ load = "put"
        /\ held[Loader] \in Entry
        /\ \E a \in Alias : alias[Loader] = {a}
    /\ pc[Loader] \in {"listget", "listput"} => alias[Loader] \subseteq Group
    /\ pc[Loader] = "idle" => op[Loader] = "none" /\ held[Loader] = NoEntry
    /\ load # "put" => batch = {}

Places == (\A h \in Handler : HandlerInv(h)) /\ LoaderInv

Base == TypeOK /\ Places

\* No two requests are at work on the same keys, and a load is by itself.
Alone ==
    /\ \A h, i \in Handler :
        (\E a \in alias[h], b \in alias[i] : SameKey(a, b)) => h = i
    /\ load # "off" => \A h \in Handler : pc[h] = "idle"

\* Requests have numbers of their own; nobody has written later to the row of a
\* request that is at work, or before it a row with its number.
Numbered ==
    /\ \A r \in rows : r.id <= used.requests /\ r.version <= used.requests
    /\ \A h \in Handler : pc[h] # "idle" => req[h] <= used.requests
    /\ \A h, i \in Handler :
        pc[h] # "idle" /\ pc[i] # "idle" /\ req[h] = req[i] => h = i
    /\ \A h \in Handler : pc[h] # "idle" => \A r \in rows :
        /\ r.alias \in alias[h] => r.version <= req[h]
        /\ op[h] = "add" /\ held[h] = NoEntry => r.id # req[h]
    /\ \A r, s \in rows : r.id = s.id \/ r.alias = s.alias => r = s

\* The row an entry of the alias a stands for.
HasRow(a, e) ==
    \E r \in rows : r.alias = a /\ r.id = e.id /\ r.version >= e.version

\* A deletion has deleted its key.
KeyDeleted(h) == op[h] = "del" /\ pc[h] \in {"listget", "listput", "delrow"}

\* Entries have rows, those of the KV store and those a worker is to write.
EntriesHaveRows ==
    /\ \A a \in Alias : kv[a] # NoEntry => HasRow(a, kv[a])
    /\ \A w \in Worker : held[w] # NoEntry =>
        /\ \E a \in Alias : alias[w] = {a}
        /\ \A a \in alias[w] : HasRow(a, held[w])
    /\ batch \subseteq rows
    /\ \A h \in Handler : pc[h] = "create" => ~ Taken(h)
    /\ \A h \in Handler : KeyDeleted(h) => \A a \in alias[h] : kv[a] = NoEntry

\* The owners of a row are those of the form that wrote it.
Owned(r) ==
    /\ r.version \in OwnersOf(r.alias)
    /\ r.version # r.id => OwnersOf(r.alias) = {r.version}

\* A request that wrote the row is to write its owners.
OwesOwners(h, r) ==
    /\ alias[h] = {r.alias}
    /\ r.version = req[h]
    /\ \/ op[h] = "add" /\ pc[h] \in {"put", "own"} /\ r.id = r.version
       \/ op[h] = "update" /\ pc[h] \in {"put", "disown"}
       \/ op[h] = "update" /\ pc[h] = "own" /\ OwnersOf(r.alias) = {}

\* Without errors rows have their owners, or a request owes them.
OwnersRight ==
    used.errors = 0 =>
        \A r \in rows : r.alias \in Job =>
            Owned(r) \/ \E h \in Handler : OwesOwners(h, r)

\* A request has come to where the row and the entry of its alias differ.
Ahead(h) ==
    \/ op[h] = "add" /\ pc[h] \in {"listget", "listput", "put"}
    \/ op[h] = "update" /\ pc[h] = "put"
    \/ op[h] = "del" /\ pc[h] \in {"listget", "listput", "delrow"}

\* What the rows of an alias say, as entries.
Content(a) == {[id |-> r.id, version |-> r.version] : r \in Stored(a)}

\* Whether a group is in the list when its request has come there.
Listed(h) ==
    \/ op[h] = "add" /\ pc[h] = "put"
    \/ op[h] = "update"
    \/ op[h] = "del" /\ pc[h] # "delrow"

\* The row is what the request has written; a new entry is still missing, one
\* of a deletion is gone.
AheadRight(h, a) ==
    /\ op[h] # "del" => Content(a) = {held[h]}
    /\ kv[a] = NoEntry <=> op[h] # "update"
    /\ a \in Group => (a \in list <=> Listed(h))

\* The row, the entry and the list agree on the alias a.
Matches(a) ==
    /\ Content(a) = {kv[a]} \ {NoEntry}
    /\ a \in Group => (a \in list <=> kv[a] # NoEntry)

\* What a load has yet to store: the jobs while it is at the groups, the rows
\* of the pages to come, and the rest of the page it is at.
Through == IF load = "put" THEN PageSize * page ELSE PageSize * (page - 1)
Pending ==
    {r \in rows : \/ r.alias \in Job /\ table = Group
                  \/ r.alias \in table /\ Rank(r) >= Through} \cup batch

\* Nothing of the alias a is left in the KV store, the list included.
Blank(a) == kv[a] = NoEntry /\ a \notin list

\* Loaddata is storing the row of a.
InHand(a) ==
    /\ Content(a) = {held[Loader]}
    /\ kv[a] = NoEntry
    /\ a \in Group => (a \in list <=> pc[Loader] = "put")
    /\ pc[Loader] = "listput" => seen[Loader] = list

\* A load wipes groups and then jobs, and
Wiped ==
    load \in {"list", "clear"} =>
        /\ list = {}
        /\ table # Group => \A g \in Group : kv[g] = NoEntry
        /\ load = "clear" => \A a \in table : kv[a] = NoEntry \/ a \in keys

\* stores groups and then jobs, page by page.
Filled ==
    load \in {"page", "put"} =>
        /\ \A r \in batch : r.alias \in table /\ Rank(r) < PageSize * page
        /\ \A a \in Alias :
            IF pc[Loader] # "idle" /\ alias[Loader] = {a}
            THEN InHand(a) /\ \A r \in Pending : r.alias # a
            ELSE IF \E r \in Pending : r.alias = a THEN Blank(a) ELSE Matches(a)

\* They agree, but for what the requests at work are ahead.
RequestRight ==
    /\ \A a \in Alias :
        \/ Matches(a) /\ \A h \in Handler : a \in alias[h] => ~ Ahead(h)
        \/ \E h \in Handler : alias[h] = {a} /\ Ahead(h) /\ AheadRight(h, a)
    /\ \A h \in Handler : pc[h] = "listput" => seen[h] = list

\* So it is between loads, and a load that met no error is as far as it should.
StoresRight ==
    ~ dirty => IF load = "off" THEN RequestRight ELSE Wiped /\ Filled

\* The user of the request, or nobody after an error.
AuthorOf(u, h) == u = req[h] \/ (u = 0 /\ used.errors # 0)

\* With one request at a time the user of the package's variable is the one of
\* the request, or nobody.
AuthorRight ==
    /\ \A h, i \in Handler : pc[h] # "idle" /\ pc[i] # "idle" => h = i
    /\ \A h \in Handler : pc[h] # "idle" =>
        /\ userId \in {0, req[h]}
        /\ pc[h] \in {"exists", "create", "update"} /\ alias[h] \subseteq Job =>
            AuthorOf(author[h], h)
    /\ AuthorIsRequester

\* Two requests at work on the same keys need not leave any of this.
Inv ==
    /\ Base
    /\ MaxSame = 1 => /\ Alone
                      /\ Numbered
                      /\ EntriesHaveRows
                      /\ OwnersRight
                      /\ page \in Nat \ {0}
                      /\ StoresRight
    /\ MaxBusy = 1 /\ MaxSame = 1 => AuthorRight

-----------------------------------------------------------------------------
(***************************************************************************)
(* Types and places.                                                       *)
(***************************************************************************)
\* The initial state satisfies the invariant.
LEMMA InitInv == Init => Inv
<1> SUFFICES ASSUME Init PROVE Inv
  OBVIOUS
<1> USE DEF Init
<1>1. TypeOK
  <2>1. /\ MaxRequests \in Nat /\ MaxErrors \in Nat /\ MaxLoads \in Nat
    BY CatalogConstantsOK
  <2>2. used \in [requests : 0..MaxRequests, errors : 0..MaxErrors,
                  loads : 0..MaxLoads]
    BY <2>1
  <2> QED
    BY <2>1, <2>2 DEF TypeOK
<1>2. Places
  BY CatalogConstantsOK DEF Places, HandlerInv, LoaderInv, Worker, Holding
<1>3. Alone /\ Numbered
  BY CatalogConstantsOK DEF Alone, Numbered, Worker
<1>4. EntriesHaveRows /\ OwnersRight
  BY CatalogConstantsOK DEF EntriesHaveRows, KeyDeleted, OwnersRight, Worker
<1>5. StoresRight /\ page \in Nat \ {0}
  BY CatalogConstantsOK
     DEF StoresRight, RequestRight, Matches, Content, Stored, Ahead, Worker, Alias
<1>6. AuthorRight
  BY DEF AuthorRight, AuthorIsRequester, Worker
<1> QED
  BY <1>1, <1>2, <1>3, <1>4, <1>5, <1>6 DEF Inv, Base

\* Counting an event.
LEMMA UseTyped ==
  ASSUME TypeOK
  PROVE  /\ Use("requests", MaxRequests) =>
                /\ used' \in [requests : 0..MaxRequests, errors : 0..MaxErrors,
                              loads : 0..MaxLoads]
                /\ used'.requests = used.requests + 1
                /\ used'.errors = used.errors
                /\ used.requests + 1 \in Request
         /\ Use("errors", MaxErrors) =>
                /\ used' \in [requests : 0..MaxRequests, errors : 0..MaxErrors,
                              loads : 0..MaxLoads]
                /\ used'.requests = used.requests
                /\ used'.errors = used.errors + 1
                /\ used'.errors # 0
         /\ Use("loads", MaxLoads) =>
                /\ used' \in [requests : 0..MaxRequests, errors : 0..MaxErrors,
                              loads : 0..MaxLoads]
                /\ used'.requests = used.requests
                /\ used'.errors = used.errors
                /\ MaxLoads # 0
<1> USE CatalogConstantsOK
<1>1. /\ used.requests \in 0..MaxRequests
      /\ used.errors \in 0..MaxErrors
      /\ used.loads \in 0..MaxLoads
  BY DEF TypeOK
<1>2. ASSUME Use("requests", MaxRequests)
      PROVE  /\ used' = [used EXCEPT !.requests = used.requests + 1]
             /\ used.requests < MaxRequests
  BY <1>2 DEF Use
<1>3. ASSUME Use("errors", MaxErrors)
      PROVE  /\ used' = [used EXCEPT !.errors = used.errors + 1]
             /\ used.errors < MaxErrors
  BY <1>3 DEF Use
<1>4. ASSUME Use("loads", MaxLoads)
      PROVE  /\ used' = [used EXCEPT !.loads = used.loads + 1]
             /\ used.loads < MaxLoads
  BY <1>4 DEF Use
<1> QED
  BY <1>1, <1>2, <1>3, <1>4 DEF TypeOK, Request

\* A worker that is done has nothing in hand.
LEMMA AnsweredTyped ==
  ASSUME TypeOK, NEW w \in Worker, Answered(w)
  PROVE  /\ pc' = [pc EXCEPT ![w] = "idle"]
         /\ op' = [op EXCEPT ![w] = "none"]
         /\ alias' = [alias EXCEPT ![w] = {}]
         /\ req' = [req EXCEPT ![w] = 0]
         /\ author' = [author EXCEPT ![w] = 0]
         /\ held' = [held EXCEPT ![w] = NoEntry]
         /\ seen' = [seen EXCEPT ![w] = {}]
         /\ pc'[w] = "idle" /\ op'[w] = "none" /\ held'[w] = NoEntry
         /\ alias'[w] = {}
BY DEF Answered, Goto, TypeOK

\* A step of a worker leaves the state of the others as it is.
Others(w) ==
    \A x \in Worker \ {w} :
        /\ pc'[x] = pc[x]
        /\ op'[x] = op[x]
        /\ alias'[x] = alias[x]
        /\ req'[x] = req[x]
        /\ held'[x] = held[x]
        /\ seen'[x] = seen[x]

\* Types of what a worker works with.
WorkersTyped ==
    /\ pc \in [Worker -> {"idle", "user", "exists", "create", "get", "update",
            "active", "listget", "listput", "put", "disown", "own", "delkey",
            "delrow"}]
    /\ op \in [Worker -> {"none", "add", "update", "del", "load"}]
    /\ alias \in [Worker -> SUBSET Alias]
    /\ req \in [Worker -> 0..MaxRequests]
    /\ author \in [Worker -> 0..MaxRequests]
    /\ held \in [Worker -> Entry \cup {NoEntry}]
    /\ seen \in [Worker -> SUBSET Group]

\* A worker that is done leaves the others alone.
LEMMA AnsweredFrame ==
  ASSUME TypeOK, NEW w \in Worker, Answered(w)
  PROVE  WorkersTyped' /\ Others(w)
<1> USE CatalogConstantsOK
<1>1. Others(w)
  BY AnsweredTyped DEF Others, TypeOK
<1>2. WorkersTyped'
  BY AnsweredTyped DEF WorkersTyped, TypeOK
<1> QED
  BY <1>1, <1>2

\* The others are where they were.
LEMMA OthersPlaced ==
  ASSUME Places, NEW w \in Worker, Others(w)
  PROVE  /\ \A h \in Handler \ {w} : HandlerInv(h)'
         /\ w # Loader /\ load' = load /\ batch' = batch => LoaderInv'
<1>1. \A h \in Handler \ {w} : HandlerInv(h)'
  BY DEF Places, HandlerInv, Others, Worker
<1>2. ASSUME w # Loader, load' = load, batch' = batch PROVE LoaderInv'
  <2>1. Loader \in Worker \ {w}
    BY <1>2 DEF Worker
  <2> QED
    BY <1>2, <2>1 DEF Places, LoaderInv, Others
<1> QED
  BY <1>1, <1>2

\* A request begins.
LEMMA BeginBase ==
  ASSUME Base, NEW h \in Handler, NEW kind \in {"add", "update", "del"},
         NEW a \in Alias, Begin(h, kind, a)
  PROVE  Base' /\ Others(h)
<1> USE DEF Base
<1>0. h \in Worker /\ h # Loader
  BY CatalogConstantsOK DEF Worker
<1>1. used' \in [requests : 0..MaxRequests, errors : 0..MaxErrors,
                 loads : 0..MaxLoads]
      /\ used.requests + 1 \in Request /\ used.requests + 1 \in 0..MaxRequests
  BY UseTyped, CatalogConstantsOK DEF Begin, Request
<1>2. WorkersTyped' /\ Others(h)
  BY <1>0, <1>1 DEF Begin, Goto, TypeOK, WorkersTyped, Others
<1>3. TypeOK'
  BY <1>1, <1>2 DEF Begin, TypeOK, WorkersTyped, stores, loader
<1>4. HandlerInv(h)'
  <2>1. HandlerInv(h) /\ pc[h] = "idle" /\ held'[h] = held[h]
    BY DEF Begin, Places
  <2>2. /\ pc'[h] \in {"get", "exists", "user"} /\ op'[h] = kind
        /\ alias'[h] = {a}
        /\ req'[h] = used.requests + 1
        /\ pc'[h] = "get" <=> kind # "add"
    BY <1>0 DEF Begin, Goto, TypeOK
  <2> QED
    BY <1>1, <2>1, <2>2 DEF HandlerInv, Holding
<1> QED
  BY <1>0, <1>2, <1>3, <1>4, OthersPlaced DEF Begin, Places, loader

\* The steps of the handlers.
LEMMA HandlerBase ==
  ASSUME Base, NEW h \in Handler, HandlerStep(h)
  PROVE  Base' /\ Others(h)
<1> USE DEF Base
<1>0. /\ h \in Worker /\ h # Loader
      /\ HandlerInv(h)
  BY CatalogConstantsOK DEF Worker, Places
<1>R. pc[h] # "idle" => req[h] \in Request /\ req[h] \in 0..MaxRequests
  BY <1>0, CatalogConstantsOK DEF HandlerInv, Request
<1>S. ASSUME WorkersTyped', rows' \in SUBSET Row, owners' \in SUBSET Owner,
             kv' \in [Alias -> Entry \cup {NoEntry}], userId' \in 0..MaxRequests,
             used' \in [requests : 0..MaxRequests, errors : 0..MaxErrors,
                        loads : 0..MaxLoads],
             dirty' \in BOOLEAN,
             UNCHANGED <<list, loader>>,
             Others(h), HandlerInv(h)'
      PROVE  Base' /\ Others(h)
  <2>1. TypeOK'
    BY <1>S DEF TypeOK, WorkersTyped, loader
  <2>2. Places'
    BY <1>0, <1>S, OthersPlaced DEF Places, loader
  <2> QED
    BY <1>S, <2>1, <2>2
<1>A. ASSUME Answered(h), rows' \in SUBSET Row, owners' \in SUBSET Owner,
             kv' \in [Alias -> Entry \cup {NoEntry}], userId' = userId,
             used' \in [requests : 0..MaxRequests, errors : 0..MaxErrors,
                        loads : 0..MaxLoads],
             dirty' \in BOOLEAN,
             UNCHANGED <<list, loader>>
      PROVE  Base' /\ Others(h)
  <2>1. WorkersTyped' /\ Others(h)
    BY <1>0, <1>A, AnsweredFrame
  <2>2. HandlerInv(h)'
    BY <1>0, <1>A, AnsweredTyped DEF HandlerInv, Holding
  <2>3. userId' \in 0..MaxRequests
    BY <1>A DEF TypeOK
  <2> QED
    BY <1>A, <1>S, <2>1, <2>2, <2>3
<1>T. ASSUME NEW step, Goto(h, step),
             step \in {"user", "exists", "create", "get", "update", "active",
                "listget", "listput", "put", "disown", "own", "delkey", "delrow"},
             UNCHANGED <<request, held, seen>>
      PROVE  /\ WorkersTyped' /\ Others(h)
             /\ pc'[h] = step /\ op'[h] = op[h] /\ alias'[h] = alias[h]
             /\ req'[h] = req[h] /\ held'[h] = held[h]
  BY <1>0, <1>T DEF Goto, TypeOK, WorkersTyped, Others, request
<1>U. /\ rows \in SUBSET Row /\ owners \in SUBSET Owner
      /\ kv \in [Alias -> Entry \cup {NoEntry}] /\ userId \in 0..MaxRequests
      /\ used \in [requests : 0..MaxRequests, errors : 0..MaxErrors,
                   loads : 0..MaxLoads]
      /\ dirty \in BOOLEAN
  BY DEF TypeOK
<1>1. CASE User(h)
  <2>1. userId' \in 0..MaxRequests
    BY <1>1, <1>R, <1>U, CatalogConstantsOK DEF User, UserAsked
  <2>2. WorkersTyped' /\ Others(h)
    BY <1>0, <1>1, <2>1 DEF User, Goto, TypeOK, WorkersTyped, Others
  <2>3. HandlerInv(h)'
    BY <1>0, <1>1 DEF User, Goto, TypeOK, HandlerInv, Holding
  <2> QED
    <3>1. used' = used \/ Use("errors", MaxErrors)
      BY <1>1 DEF User
    <3> QED
      BY <1>1, <1>S, <1>U, <2>1, <2>2, <2>3, <3>1, UseTyped DEF User, stores
<1>2. CASE Exists(h)
  <2>1. CASE Answered(h)
    BY <1>2, <1>A, <1>U, <2>1 DEF Exists, stores
  <2>2. CASE Goto(h, "create") /\ UNCHANGED <<request, held, seen>>
    <3>1. HandlerInv(h)'
      BY <1>0, <1>2, <1>T, <2>2 DEF Exists, HandlerInv, Holding
    <3> QED
      BY <1>2, <1>S, <1>T, <1>U, <2>2, <3>1 DEF Exists, stores
  <2> QED
    BY <1>2, <2>1, <2>2 DEF Exists
<1>3. CASE Create(h)
  <2>1. CASE IsGroup(h) /\ Taken(h)
    BY <1>3, <1>A, <1>U, <2>1 DEF Create
  <2>2. CASE ~ (IsGroup(h) /\ Taken(h))
    <3>1. /\ rows' = rows \cup
                {[id |-> req[h], alias |-> a, version |-> req[h],
                  author |-> author[h]] : a \in alias[h]}
          /\ held' = [held EXCEPT ![h] = [id |-> req[h], version |-> req[h]]]
          /\ \/ pc' = [pc EXCEPT ![h] = "listget"] /\ alias[h] \subseteq Group
             \/ pc' = [pc EXCEPT ![h] = "put"]
          /\ UNCHANGED <<op, alias, req, author, seen>>
          /\ pc[h] = "create"
      BY <1>3, <2>2 DEF Create, AddConsul, Goto, request
    <3>2. [id |-> req[h], version |-> req[h]] \in Entry
      BY <1>R, <3>1 DEF Entry
    <3>3. rows' \in SUBSET Row
      BY <1>0, <1>R, <1>U, <3>1 DEF Row, TypeOK
    <3>4. WorkersTyped' /\ Others(h)
      BY <1>0, <3>1, <3>2 DEF TypeOK, WorkersTyped, Others
    <3>5. HandlerInv(h)'
      BY <1>0, <3>1, <3>2 DEF TypeOK, HandlerInv, Holding
    <3> QED
      BY <1>3, <1>S, <1>U, <3>3, <3>4, <3>5 DEF Create
  <2> QED
    BY <2>1, <2>2
<1>4. CASE GetByAlias(h)
  <2>1. CASE Answered(h)
    BY <1>4, <1>A, <1>U, <2>1 DEF GetByAlias, stores
  <2>2. CASE ~ Answered(h)
    <3>1. PICK a \in alias[h] :
            /\ kv[a] # NoEntry
            /\ held' = [held EXCEPT ![h] = kv[a]]
            /\ Goto(h, IF op[h] = "update"
                       THEN IF IsGroup(h) THEN "update" ELSE "user"
                       ELSE IF IsGroup(h) THEN "active" ELSE FirstDeleted)
            /\ UNCHANGED <<request, seen>>
      BY <1>4, <2>2 DEF GetByAlias
    <3>2. kv[a] \in Entry /\ alias[h] = {a}
      BY <1>0, <1>4, <3>1 DEF GetByAlias, HandlerInv, TypeOK
    <3>3. WorkersTyped' /\ Others(h)
      BY <1>0, <3>1, <3>2
         DEF Goto, FirstDeleted, TypeOK, WorkersTyped, Others, request
    <3>4. HandlerInv(h)'
      <4>1. /\ held'[h] = kv[a] /\ op'[h] = op[h] /\ alias'[h] = alias[h]
            /\ req'[h] = req[h]
            /\ op[h] = "update" /\ IsGroup(h) => pc'[h] = "update"
            /\ op[h] = "update" /\ ~IsGroup(h) => pc'[h] = "user"
            /\ op[h] = "del" /\ IsGroup(h) => pc'[h] = "active"
            /\ op[h] = "del" /\ ~IsGroup(h) => pc'[h] = "delkey"
            /\ pc[h] = "get"
        BY <1>0, <1>4, <3>1
           DEF GetByAlias, Goto, FirstDeleted, TypeOK, request
      <4>2. ~IsGroup(h) => alias[h] \subseteq Job
        BY <1>0, <3>2 DEF IsGroup, TypeOK, Alias
      <4>3. op[h] \in {"update", "del"}
        BY <1>0, <4>1 DEF HandlerInv
      <4>4. kv[a] # NoEntry /\ kv[a] \in Entry
        BY <3>1, <3>2
      <4>5. CASE op[h] = "update"
        BY <1>0, <4>1, <4>2, <4>4, <4>5 DEF HandlerInv, Holding, IsGroup
      <4>6. CASE op[h] = "del"
        BY <1>0, <4>1, <4>2, <4>4, <4>6 DEF HandlerInv, Holding, IsGroup
      <4> QED
        BY <4>3, <4>5, <4>6
    <3> QED
      BY <1>4, <1>S, <1>U, <3>3, <3>4 DEF GetByAlias, stores
  <2> QED
    BY <2>1, <2>2
<1>5. CASE Update(h)
  <2>1. /\ pc[h] = "update" /\ op[h] = "update"
        /\ held[h] \in Entry
        /\ req[h] \in Request
        /\ author[h] \in 0..MaxRequests
    BY <1>0, <1>5, <1>R DEF Update, HandlerInv, Holding, TypeOK
  <2>2. rows' \in SUBSET Row
    <3>1. rows' = {IF r.id = held[h].id
                   THEN [r EXCEPT !.version = req[h], !.author = author[h]]
                   ELSE r : r \in rows}
      BY <1>5 DEF Update, NewVersion
    <3>2. \A r \in Row :
            [r EXCEPT !.version = req[h], !.author = author[h]] \in Row
      BY <2>1 DEF Row
    <3> QED
      BY <1>U, <3>1, <3>2
  <2>3. /\ held' = [held EXCEPT ![h] = [held[h] EXCEPT !.version = req[h]]]
        /\ [held[h] EXCEPT !.version = req[h]] \in Entry
    BY <1>5, <2>1 DEF Update, NewVersion, Entry
  <2>4. WorkersTyped' /\ Others(h)
    BY <1>0, <1>5, <2>3 DEF Update, Goto, TypeOK, WorkersTyped, Others, request
  <2>5. HandlerInv(h)'
    <3>1. /\ held'[h] \in Entry /\ held'[h].version = req[h]
          /\ pc'[h] = "put" /\ op'[h] = "update" /\ req'[h] = req[h]
          /\ alias'[h] = alias[h]
      BY <1>0, <1>5, <2>1, <2>3 DEF Update, Goto, TypeOK, request, Entry
    <3> QED
      BY <1>0, <2>1, <3>1, CatalogConstantsOK DEF HandlerInv, Holding
  <2> QED
    BY <1>5, <1>S, <1>U, <2>2, <2>4, <2>5 DEF Update
<1>6. CASE Disown(h)
  <2>1. owners' \in SUBSET Owner
    BY <1>6, <1>U DEF Disown, OwnersOfOthers
  <2>2. HandlerInv(h)'
    BY <1>0, <1>6, <1>T DEF Disown, HandlerInv, Holding
  <2> QED
    BY <1>6, <1>S, <1>T, <1>U, <2>1, <2>2 DEF Disown
<1>7. CASE Own(h)
  <2>1. alias[h] \subseteq Job /\ req[h] \in Request
    BY <1>0, <1>7 DEF Own, HandlerInv
  <2>2. owners' \in SUBSET Owner
    BY <1>7, <1>U, <2>1 DEF Own, Owner
  <2> QED
    BY <1>7, <1>A, <1>U, <2>2 DEF Own
<1>8. CASE Active(h)
  <2>1. CASE Answered(h)
    BY <1>8, <1>A, <1>U, <2>1 DEF Active, stores
  <2>2. CASE Goto(h, "delkey") /\ UNCHANGED <<request, held, seen>>
    <3>1. HandlerInv(h)'
      BY <1>0, <1>8, <1>T, <2>2 DEF Active, HandlerInv, Holding
    <3> QED
      BY <1>8, <1>S, <1>T, <1>U, <2>2, <3>1 DEF Active, stores
  <2> QED
    BY <1>8, <2>1, <2>2 DEF Active, FirstDeleted
<1>9. CASE KvDel(h)
  <2>1. kv' \in [Alias -> Entry \cup {NoEntry}]
    BY <1>9, <1>U DEF KvDel
  <2>2. /\ UNCHANGED <<request, held, seen>>
        /\ \/ Goto(h, "listget") /\ IsGroup(h)
           \/ Goto(h, "delrow")
    BY <1>9 DEF KvDel, AfterDelete, FirstDeleted
  <2>3. HandlerInv(h)'
    BY <1>0, <1>9, <1>T, <2>2 DEF KvDel, HandlerInv, Holding, IsGroup
  <2> QED
    BY <1>9, <1>S, <1>T, <1>U, <2>1, <2>2, <2>3 DEF KvDel
<1>10. CASE Delete(h)
  <2>1. Answered(h) /\ rows' \in SUBSET Row
    BY <1>10, <1>U DEF Delete, AfterDelete, FirstDeleted
  <2> QED
    BY <1>10, <1>A, <1>U, <2>1 DEF Delete
<1>11. CASE AccessFails(h)
  BY <1>11, <1>A, <1>U, UseTyped DEF AccessFails, stores
<1> QED
  BY <1>1, <1>2, <1>3, <1>4, <1>5, <1>6, <1>7, <1>8, <1>9, <1>10, <1>11
     DEF HandlerStep

\* What the invariant says of a worker, be it a handler or loaddata.
LEMMA WorkerPlace ==
  ASSUME Base, NEW w \in Worker
  PROVE  /\ w \in Handler \/ (w = Loader /\ w \notin Handler)
         /\ pc[w] \in {"listget", "listput"} =>
                alias[w] \subseteq Group /\ op[w] \in {"add", "del", "load"}
         /\ pc[w] \in {"listget", "listput", "put"} => held[w] \in Entry
         /\ pc[w] # "idle" => \E a \in Alias : alias[w] = {a}
         /\ pc[w] = "put" => op[w] \in {"add", "update", "load"}
         /\ pc[w] \in {"disown", "own"} => w \in Handler
         /\ op[w] = "del" /\ pc[w] = "listget" => w \in Handler
<1> USE DEF Base
<1>1. CASE w \in Handler
  BY <1>1 DEF Places, HandlerInv, Holding
<1>2. CASE w = Loader
  BY <1>2, CatalogConstantsOK DEF Places, LoaderInv
<1> QED
  BY <1>1, <1>2, CatalogConstantsOK DEF Worker

\* The steps handlers and loaddata have in common.
LEMMA WorkerBase ==
  ASSUME Base, NEW w \in Worker, WorkerStep(w)
  PROVE  Base' /\ Others(w)
<1> USE DEF Base
<1>P. /\ w \in Handler => HandlerInv(w) /\ w # Loader
      /\ w = Loader => LoaderInv /\ w \notin Handler
      /\ w \in Handler \/ w = Loader
  BY CatalogConstantsOK DEF Worker, Places
<1>S. ASSUME WorkersTyped', owners' \in SUBSET Owner, list' \in SUBSET Group,
             kv' \in [Alias -> Entry \cup {NoEntry}],
             used' \in [requests : 0..MaxRequests, errors : 0..MaxErrors,
                        loads : 0..MaxLoads],
             dirty' \in BOOLEAN,
             UNCHANGED <<rows, userId, loader>>,
             Others(w),
             w \in Handler => HandlerInv(w)',
             w = Loader => LoaderInv'
      PROVE  Base' /\ Others(w)
  <2>1. TypeOK'
    BY <1>S DEF TypeOK, WorkersTyped, loader
  <2>2. Places'
    BY <1>P, <1>S, OthersPlaced DEF Places, loader
  <2> QED
    BY <1>S, <2>1, <2>2
<1>A. ASSUME Answered(w), owners' \in SUBSET Owner, UNCHANGED list,
             kv' \in [Alias -> Entry \cup {NoEntry}],
             used' \in [requests : 0..MaxRequests, errors : 0..MaxErrors,
                        loads : 0..MaxLoads],
             dirty' \in BOOLEAN,
             UNCHANGED <<rows, userId, loader>>
      PROVE  Base' /\ Others(w)
  <2>1. WorkersTyped' /\ Others(w)
    BY <1>A, AnsweredFrame
  <2>2. w \in Handler => HandlerInv(w)'
    BY <1>P, <1>A, AnsweredTyped DEF HandlerInv, Holding
  <2>3. w = Loader => LoaderInv'
    BY <1>P, <1>A, AnsweredTyped DEF LoaderInv, loader
  <2>4. list' \in SUBSET Group
    BY <1>A DEF TypeOK
  <2> QED
    BY <1>A, <1>S, <2>1, <2>2, <2>3, <2>4
<1>T. ASSUME NEW step, Goto(w, step),
             \/ step = "listput" /\ pc[w] = "listget"
             \/ step = "put" /\ pc[w] \in {"listget", "listput"} /\ op[w] # "del"
             \/ step = "delrow" /\ pc[w] = "listput" /\ op[w] = "del"
             \/ step = "disown" /\ pc[w] = "put" /\ op[w] = "update" /\ ~IsGroup(w)
             \/ step = "own" /\ pc[w] = "put" /\ op[w] \notin {"update", "load"} /\ ~IsGroup(w)
             \/ step = "own" /\ pc[w] = "disown",
             seen' \in [Worker -> SUBSET Group],
             \A x \in Worker \ {w} : seen'[x] = seen[x],
             UNCHANGED <<request, held, load, batch>>
      PROVE  /\ WorkersTyped' /\ Others(w)
             /\ w \in Handler => HandlerInv(w)'
             /\ w = Loader => LoaderInv'
  <2>1. WorkersTyped' /\ Others(w)
    BY <1>T DEF Goto, TypeOK, WorkersTyped, Others, request
  <2>2. /\ pc'[w] = step /\ op'[w] = op[w] /\ alias'[w] = alias[w]
        /\ req'[w] = req[w] /\ held'[w] = held[w]
    BY <1>T DEF Goto, TypeOK, request
  <2>3. ASSUME w \in Handler PROVE HandlerInv(w)'
    <3>1. pc[w] # "idle" /\ ~IsGroup(w) => alias[w] \subseteq Job
      BY <1>P, <2>3 DEF HandlerInv, IsGroup, Alias
    <3>2. pc[w] \in Holding => held[w] # NoEntry
      BY <1>P, <2>3, CatalogConstantsOK DEF HandlerInv
    <3> QED
      BY <1>P, <1>T, <2>2, <2>3, <3>1, <3>2 DEF HandlerInv, Holding
  <2>4. ASSUME w = Loader PROVE LoaderInv'
    BY <1>P, <1>T, <2>2, <2>4 DEF LoaderInv
  <2> QED
    BY <2>1, <2>3, <2>4
<1>U. /\ owners \in SUBSET Owner /\ list \in SUBSET Group
      /\ kv \in [Alias -> Entry \cup {NoEntry}]
      /\ used \in [requests : 0..MaxRequests, errors : 0..MaxErrors,
                   loads : 0..MaxLoads]
      /\ dirty \in BOOLEAN
      /\ seen \in [Worker -> SUBSET Group]
  BY DEF TypeOK
<1>1. CASE ListGet(w)
  <2>1. CASE op[w] # "del" /\ alias[w] \subseteq list
    <3>1. Goto(w, "put") /\ seen' = seen
      BY <1>1, <2>1 DEF ListGet
    <3> QED
      BY <1>1, <1>S, <1>T, <1>U, <2>1, <3>1 DEF ListGet, stores, loader
  <2>2. CASE ~ (op[w] # "del" /\ alias[w] \subseteq list)
    <3>1. Goto(w, "listput") /\ seen' = [seen EXCEPT ![w] = list]
      BY <1>1, <2>2 DEF ListGet
    <3> QED
      BY <1>1, <1>S, <1>T, <1>U, <3>1 DEF ListGet, stores, loader
  <2> QED
    BY <2>1, <2>2
<1>2. CASE ListPut(w)
  <2>1. list' \in SUBSET Group
    BY <1>2, <1>U, WorkerPlace DEF ListPut
  <2>2. \/ Goto(w, "delrow") /\ op[w] = "del"
        \/ Goto(w, "put") /\ op[w] # "del"
    BY <1>2 DEF ListPut, AfterList
  <2> QED
    BY <1>2, <1>S, <1>T, <1>U, <2>1, <2>2 DEF ListPut, loader
<1>3. CASE Put(w)
  <2>1. kv' \in [Alias -> Entry \cup {NoEntry}]
    BY <1>3, <1>U, WorkerPlace DEF Put
  <2>2. CASE IsGroup(w) \/ op[w] = "load"
    BY <1>3, <1>A, <1>U, <2>1, <2>2 DEF Put
  <2>3. CASE ~ (IsGroup(w) \/ op[w] = "load")
    <3>1. /\ Goto(w, IF op[w] = "update" THEN "disown" ELSE "own")
          /\ UNCHANGED <<request, held, seen>>
      BY <1>3, <2>3 DEF Put
    <3> QED
      BY <1>3, <1>S, <1>T, <1>U, <2>1, <2>3, <3>1 DEF Put, loader
  <2> QED
    BY <2>2, <2>3
<1>4. CASE IgnoredFailure(w)
  <2>1. /\ used' \in [requests : 0..MaxRequests, errors : 0..MaxErrors,
                      loads : 0..MaxLoads]
        /\ dirty' = TRUE
        /\ UNCHANGED <<rows, owners, kv, list, userId, loader>>
    BY <1>4, UseTyped DEF IgnoredFailure, stores
  <2>2. CASE Answered(w)
    BY <1>A, <1>U, <2>1, <2>2
  <2>3. CASE /\ pc[w] = "listget"
             /\ Goto(w, "listput")
             /\ seen' = [seen EXCEPT ![w] = {}]
             /\ UNCHANGED <<request, held>>
    BY <1>S, <1>T, <1>U, <2>1, <2>3 DEF loader
  <2>4. CASE /\ pc[w] = "listput"
             /\ AfterList(w)
             /\ UNCHANGED <<request, held, seen>>
    <3>1. \/ Goto(w, "delrow") /\ op[w] = "del"
          \/ Goto(w, "put") /\ op[w] # "del"
      BY <2>4 DEF AfterList
    <3> QED
      BY <1>S, <1>T, <1>U, <2>1, <2>4, <3>1 DEF loader
  <2>5. CASE /\ pc[w] = "disown"
             /\ Goto(w, "own")
             /\ UNCHANGED <<request, held, seen>>
    BY <1>S, <1>T, <1>U, <2>1, <2>5 DEF loader
  <2> QED
    BY <1>4, <2>2, <2>3, <2>4, <2>5 DEF IgnoredFailure
<1> QED
  BY <1>1, <1>2, <1>3, <1>4 DEF WorkerStep

\* loaddata.
LEMMA LoadBase ==
  ASSUME Base, LoadStep
  PROVE  /\ Base'
         /\ UNCHANGED <<rows, owners, userId>>
         /\ Others(Loader)
         /\ \A h \in Handler : author'[h] = author[h]
<1> USE DEF Base
<1>0. Loader \in Worker /\ Loader \notin Handler /\ LoaderInv
  BY CatalogConstantsOK DEF Worker, Places
<1>1. CASE PutRow
  <2>1. PICK r \in batch :
          /\ op' = [op EXCEPT ![Loader] = "load"]
          /\ alias' = [alias EXCEPT ![Loader] = {r.alias}]
          /\ held' = [held EXCEPT ![Loader] = [id |-> r.id, version |-> r.version]]
          /\ AddConsul(Loader, {r.alias})
          /\ batch' = batch \ {r}
    BY <1>1 DEF PutRow
  <2>2. /\ r.alias \in Alias
        /\ [id |-> r.id, version |-> r.version] \in Entry
        /\ batch' \in SUBSET Row
    BY <2>1 DEF TypeOK, Row, Entry
  <2>3. \/ pc' = [pc EXCEPT ![Loader] = "listget"] /\ {r.alias} \subseteq Group
        \/ pc' = [pc EXCEPT ![Loader] = "put"]
    BY <2>1 DEF AddConsul, Goto
  <2>4. WorkersTyped' /\ Others(Loader)
    BY <1>0, <1>1, <2>1, <2>2, <2>3
       DEF PutRow, TypeOK, WorkersTyped, Others
  <2>5. TypeOK'
    BY <1>1, <2>2, <2>4 DEF PutRow, TypeOK, WorkersTyped, stores
  <2>6. LoaderInv'
    BY <1>0, <1>1, <2>1, <2>2, <2>3 DEF PutRow, LoaderInv, TypeOK
  <2> QED
    BY <1>0, <1>1, <2>4, <2>5, <2>6, OthersPlaced DEF PutRow, Places, stores
<1>2. CASE ~PutRow
  <2>1. UNCHANGED <<rows, owners, userId, workers>>
    BY <1>2 DEF LoadStep, Load, DropList, ListKeys, ClearKey, Cleared, GetPage,
       PageDone, LoadFails, stores
  <2>2. Others(Loader)
    BY <2>1 DEF Others, workers, request
  <2>3. /\ list' \in SUBSET Group
        /\ kv' \in [Alias -> Entry \cup {NoEntry}]
    BY <1>2 DEF LoadStep, Load, DropList, ListKeys, ClearKey, Cleared, GetPage,
       PageDone, LoadFails, stores, TypeOK
  <2>4. used' \in [requests : 0..MaxRequests, errors : 0..MaxErrors,
                   loads : 0..MaxLoads]
    BY <1>2, UseTyped DEF LoadStep, Load, DropList, ListKeys, ClearKey, Cleared,
       GetPage, PageDone, LoadFails, TypeOK
  <2>5. dirty' \in BOOLEAN
    BY <1>2 DEF LoadStep, Load, DropList, ListKeys, ClearKey, Cleared, GetPage,
       PageDone, LoadFails, TypeOK
  <2>6. /\ load' \in {"off", "drop", "list", "clear", "page", "put"}
        /\ table' \in {Job, Group}
        /\ page' \in Nat
    <3>1. CASE GetPage \/ LoadFails
      BY <3>1 DEF GetPage, LoadFails, EndOfTable, TypeOK
    <3>2. CASE ~(GetPage \/ LoadFails)
      BY <1>2, <3>2 DEF LoadStep, Load, DropList, ListKeys, ClearKey, Cleared,
         PageDone, TypeOK
    <3> QED
      BY <3>1, <3>2
  <2>7. /\ keys' \in SUBSET Alias
        /\ batch' \in SUBSET Row
    BY <1>2 DEF LoadStep, Load, DropList, ListKeys, ClearKey, Cleared, GetPage,
       PageDone, LoadFails, TypeOK, Alias
  <2>8. TypeOK'
    BY <2>1, <2>3, <2>4, <2>5, <2>6, <2>7 DEF TypeOK, workers, request
  <2>9. LoaderInv'
    <3>1. /\ pc[Loader] = "idle" \/ load' = load
          /\ load' # "put" => batch' = {}
      BY <1>0, <1>2 DEF LoadStep, Load, DropList, ListKeys, ClearKey, Cleared,
         GetPage, PageDone, LoadFails, EndOfTable, LoaderInv
    <3> QED
      BY <1>0, <2>1, <3>1 DEF LoaderInv, workers, request
  <2> QED
    BY <1>0, <2>1, <2>2, <2>8, <2>9, OthersPlaced DEF Places, workers, request
<1> QED
  BY <1>1, <1>2

\* Every step keeps types and places.
LEMMA BaseStep == Base /\ [Next]_vars => Base'
<1> SUFFICES ASSUME Base, [Next]_vars PROVE Base'
  OBVIOUS
<1>1. CASE UNCHANGED vars
  BY <1>1 DEF Base, TypeOK, Places, HandlerInv, LoaderInv, vars, stores,
     workers, request, loader
<1>2. CASE Unauthorized
  <2>1. TypeOK'
    BY <1>2, CatalogConstantsOK
       DEF Base, TypeOK, Unauthorized, stores, workers, request, loader
  <2>2. Places'
    BY <1>2 DEF Base, Places, HandlerInv, LoaderInv, Unauthorized, workers,
       request, loader
  <2> QED
    BY <2>1, <2>2 DEF Base
<1>3. CASE Next
  BY <1>2, <1>3, BeginBase, HandlerBase, WorkerBase, LoadBase DEF Next
<1> QED
  BY <1>1, <1>3

-----------------------------------------------------------------------------
(***************************************************************************)
(* No two at work on the same keys.                                        *)
(***************************************************************************)
\* Where there is room for one on the keys of an alias and for one only, nobody
\* is at work on them.
LEMMA NobodyThere ==
  ASSUME Alone, MaxSame = 1, NEW a, AtWorkOn(a) < MaxSame
  PROVE  load = "off" /\ \A h \in Handler : \A b \in alias[h] : ~ SameKey(a, b)
<1> DEFINE S == {h \in Handler : \E b \in alias[h] : SameKey(a, b)}
<1>1. Cardinality(S) + (IF load = "off" THEN 0 ELSE 1) < 1
  BY DEF AtWorkOn
<1>2. CASE S = {}
  BY <1>1, <1>2, FS_EmptySet
<1>3. ASSUME NEW h \in S PROVE FALSE
  <2>1. ASSUME NEW i \in S PROVE i = h
    BY <1>3, <2>1 DEF Alone, SameKey
  <2>2. S = {h}
    BY <1>3, <2>1
  <2>3. Cardinality(S) = 1
    BY <2>2, FS_Singleton
  <2> QED
    BY <1>1, <2>3
<1> QED
  BY <1>2, <1>3

\* Where that is so of every alias, nobody is at work.
LEMMA NobodyBusy ==
  ASSUME Base, Alone, MaxSame = 1, \A a \in Alias : AtWorkOn(a) < MaxSame
  PROVE  \A h \in Handler : pc[h] = "idle"
<1> SUFFICES ASSUME NEW h \in Handler, pc[h] # "idle" PROVE FALSE
  OBVIOUS
<1>1. PICK a \in Alias : alias[h] = {a}
  BY DEF Base, Places, HandlerInv
<1>2. ~ SameKey(a, a)
  BY <1>1, NobodyThere
<1> QED
  BY <1>2 DEF SameKey

\* A handler at work has its keys to itself, and no load is at work.
LEMMA AtWork ==
  ASSUME Base, Alone, NEW h \in Handler, pc[h] # "idle"
  PROVE  /\ load = "off" /\ batch = {}
         /\ pc[Loader] = "idle" /\ held[Loader] = NoEntry
         /\ \A i \in Handler \ {h} : \A a \in alias[h], b \in alias[i] :
                a # b /\ ~ ({a, b} \subseteq Group)
<1>1. load = "off"
  BY DEF Alone
<1>2. pc[Loader] = "idle" /\ held[Loader] = NoEntry /\ batch = {}
  BY <1>1 DEF Base, Places, LoaderInv
<1>3. ASSUME NEW i \in Handler \ {h}, NEW a \in alias[h], NEW b \in alias[i]
      PROVE  ~ SameKey(a, b)
  BY DEF Alone
<1> QED
  BY <1>1, <1>2, <1>3 DEF SameKey

\* And so is loaddata.
LEMMA LoaderAtWork ==
  ASSUME Base, Alone, load # "off"
  PROVE  \A h \in Handler : pc[h] = "idle" /\ op[h] = "none" /\ held[h] = NoEntry
BY DEF Alone, Base, Places, HandlerInv

\* A step takes a request further, or it is answered.
LEMMA WorkerKeeps ==
  ASSUME Base, NEW w \in Worker, (w \in Handler /\ HandlerStep(w)) \/ WorkerStep(w)
  PROVE  /\ pc[w] # "idle"
         /\ UNCHANGED loader
         /\ \/ Answered(w)
            \/ UNCHANGED <<op, alias, req>>
<1>1. CASE w \in Handler /\ HandlerStep(w)
  BY <1>1 DEF HandlerStep, User, Exists, Create, GetByAlias, Update, Disown, Own,
     Active, KvDel, Delete, AccessFails, AfterDelete, AddConsul, request
<1>2. CASE WorkerStep(w)
  BY <1>2 DEF WorkerStep, ListGet, ListPut, Put, IgnoredFailure, request
<1> QED
  BY <1>1, <1>2

\* What is at work on keys stays the only one.
LEMMA AloneStep ==
  ASSUME Base, Alone, MaxSame = 1, [Next]_vars
  PROVE  Alone'
<1>1. CASE UNCHANGED vars \/ Unauthorized
  BY <1>1 DEF Alone, vars, Unauthorized, workers, request, loader
<1>2. ASSUME NEW h \in Handler, NEW k \in {"add", "update", "del"},
             NEW a \in Alias, Begin(h, k, a)
      PROVE  Alone'
  <2>1. load = "off" /\ \A i \in Handler : \A b \in alias[i] : ~ SameKey(a, b)
    BY <1>2, NobodyThere DEF Begin
  <2>2. load' = "off" /\ Others(h) /\ alias'[h] = {a}
    BY <1>2, <2>1, BeginBase DEF Begin, loader, Base, TypeOK, Worker
  <2>3. \A b : SameKey(b, a) => SameKey(a, b)
    BY DEF SameKey
  <2>4. \A i \in Handler \ {h} : alias'[i] = alias[i]
    BY <2>2 DEF Others, Worker
  <2>5. ASSUME NEW i \in Handler, NEW j \in Handler, NEW b \in alias'[i],
               NEW c \in alias'[j], SameKey(b, c)
        PROVE  i = j
    BY <2>1, <2>2, <2>3, <2>4, <2>5 DEF Alone
  <2> QED
    BY <2>2, <2>5 DEF Alone, SameKey
<1>3. ASSUME NEW w \in Worker, (w \in Handler /\ HandlerStep(w)) \/ WorkerStep(w)
      PROVE  Alone'
  <2>1. Others(w) /\ pc[w] # "idle" /\ load' = load
    BY <1>3, HandlerBase, WorkerBase, WorkerKeeps DEF loader
  <2>2. alias'[w] = {} \/ alias' = alias
    BY <1>3, WorkerKeeps, AnsweredTyped DEF Base
  <2>3. \A h \in Handler : alias'[h] \subseteq alias[h]
    BY <2>1, <2>2 DEF Others, Worker
  <2>4. load' # "off" => \A h \in Handler : pc'[h] = "idle"
    BY <2>1 DEF Alone, Others, Worker
  <2> QED
    BY <2>3, <2>4 DEF Alone, SameKey
<1>4. CASE LoadStep
  <2>1. \A h \in Handler : pc'[h] = pc[h] /\ alias'[h] = alias[h]
    BY <1>4, LoadBase, CatalogConstantsOK DEF Others, Worker
  <2>2. load' # "off" => \A h \in Handler : pc[h] = "idle"
    <3>1. CASE Load
      BY <3>1, NobodyBusy DEF Load
    <3>2. CASE ~Load
      <4>1. load # "off"
        BY <1>4, <3>2 DEF LoadStep, DropList, ListKeys, ClearKey, Cleared,
           GetPage, PutRow, PageDone, LoadFails
      <4> QED
        BY <4>1 DEF Alone
    <3> QED
      BY <3>1, <3>2
  <2> QED
    BY <2>1, <2>2 DEF Alone, SameKey
<1> QED
  BY <1>1, <1>2, <1>3, <1>4 DEF Next, Worker

\* A step that leaves the rows as they are leaves them numbered.
LEMMA NumberedSame ==
  ASSUME Numbered, rows' = rows, used'.requests = used.requests,
         \A h \in Handler : pc'[h] # "idle" =>
            /\ pc[h] # "idle" /\ op'[h] = op[h] /\ req'[h] = req[h]
            /\ alias'[h] = alias[h]
            /\ held'[h] = NoEntry => held[h] = NoEntry
  PROVE  Numbered'
BY DEF Numbered

\* Where what is held may come from.
Fetched(w) ==
    \/ held'[w] = NoEntry
    \/ held'[w] = held[w] /\ alias'[w] = alias[w]
    \/ \E a \in Alias : alias'[w] = {a} /\ held'[w] = kv[a]
    \/ \E r \in rows : /\ alias'[w] = {r.alias}
                       /\ held'[w] = [id |-> r.id, version |-> r.version]

\* Where an entry may come from: it stays, is deleted, or a worker stores it.
Stays(a) == kv'[a] = kv[a] \/ kv'[a] = NoEntry
StoredBy(a) ==
    \E w \in Worker : /\ held[w] # NoEntry
                       /\ a \in alias[w]
                       /\ kv'[a] = held[w]

\* Entries keep their rows in a step that leaves the rows as they are.
LEMMA EntriesSame ==
  ASSUME Base, EntriesHaveRows, rows' = rows, batch' \subseteq rows,
         \A a \in Alias : Stays(a) \/ StoredBy(a),
         \A w \in Worker : Fetched(w),
         \A h \in Handler : pc'[h] = "create" =>
            \/ pc[h] = "create" /\ alias'[h] = alias[h]
            \/ ~ Taken(h) /\ alias'[h] = alias[h],
         \A h \in Handler : KeyDeleted(h)' =>
            \/ /\ KeyDeleted(h) /\ alias'[h] = alias[h]
               /\ \A a \in alias[h] : Stays(a)
            \/ \A a \in alias'[h] : kv'[a] = NoEntry
  PROVE  EntriesHaveRows'
<1>0. Handler \subseteq Worker
  BY DEF Worker
<1>1. ASSUME NEW a \in Alias, kv'[a] # NoEntry
      PROVE  \E r \in rows' : /\ r.alias = a /\ r.id = kv'[a].id
                              /\ r.version >= kv'[a].version
  <2>1. CASE Stays(a)
    BY <1>1, <2>1 DEF EntriesHaveRows, HasRow, Stays
  <2>2. CASE StoredBy(a)
    BY <1>1, <2>2 DEF EntriesHaveRows, HasRow, StoredBy
  <2> QED
    BY <2>1, <2>2
<1>2. ASSUME NEW w \in Worker, held'[w] # NoEntry
      PROVE  /\ \E a \in Alias : alias'[w] = {a}
             /\ \A a \in alias'[w] :
                    \E r \in rows' : /\ r.alias = a /\ r.id = held'[w].id
                                     /\ r.version >= held'[w].version
  <2>1. CASE held'[w] = held[w] /\ alias'[w] = alias[w]
    BY <1>2, <2>1 DEF EntriesHaveRows, HasRow
  <2>2. CASE \E a \in Alias : alias'[w] = {a} /\ held'[w] = kv[a]
    BY <1>2, <2>2 DEF EntriesHaveRows, HasRow
  <2>3. ASSUME NEW r \in rows, alias'[w] = {r.alias},
               held'[w] = [id |-> r.id, version |-> r.version]
        PROVE  /\ \E a \in Alias : alias'[w] = {a}
               /\ \A a \in alias'[w] :
                    \E s \in rows' : /\ s.alias = a /\ s.id = held'[w].id
                                     /\ s.version >= held'[w].version
    <3>1. r.alias \in Alias /\ r.version \in Nat
      BY CatalogConstantsOK DEF Base, TypeOK, Row, Request
    <3> QED
      BY <2>3, <3>1
  <2> QED
    BY <1>2, <2>1, <2>2, <2>3 DEF Fetched
<1>3. ASSUME NEW h \in Handler, pc'[h] = "create"
      PROVE  ~ \E r \in rows' : r.alias \in alias'[h]
  BY <1>3 DEF EntriesHaveRows, Taken
<1>4. ASSUME NEW h \in Handler, KeyDeleted(h)', NEW a \in alias'[h]
      PROVE  kv'[a] = NoEntry
  <2>1. CASE /\ KeyDeleted(h) /\ alias'[h] = alias[h]
             /\ \A b \in alias[h] : Stays(b)
    <3>1. kv[a] = NoEntry
      BY <1>4, <2>1 DEF EntriesHaveRows
    <3> QED
      BY <2>1, <3>1 DEF Stays
  <2> QED
    BY <1>4, <2>1
<1> QED
  BY <1>1, <1>2, <1>3, <1>4 DEF EntriesHaveRows, HasRow, Taken

\* What holds of rows and entries while no two are at work on the same keys.
Core == Base /\ Alone /\ Numbered /\ EntriesHaveRows

\* A request begins.
LEMMA BeginCore ==
  ASSUME Core, MaxSame = 1, NEW h \in Handler,
         NEW kind \in {"add", "update", "del"}, NEW a \in Alias,
         Begin(h, kind, a)
  PROVE  Numbered' /\ EntriesHaveRows'
<1> USE DEF Core
<1>1. Others(h) /\ h \in Worker /\ pc[h] = "idle"
  BY BeginBase DEF Begin, Worker
<1>2. /\ pc'[h] \in {"get", "exists", "user"}
      /\ req'[h] = used.requests + 1
      /\ UNCHANGED <<rows, kv, batch, held>>
      /\ held[h] = NoEntry
      /\ used'.requests = used.requests + 1
      /\ used.requests \in Nat
  BY <1>1, UseTyped, CatalogConstantsOK
     DEF Begin, Goto, Base, TypeOK, stores, loader, Places, HandlerInv
<1>3. \A i \in Handler \ {h} :
        /\ pc'[i] = pc[i] /\ op'[i] = op[i] /\ alias'[i] = alias[i]
        /\ req'[i] = req[i] /\ i \in Worker
  BY <1>1 DEF Others, Worker
<1>4. /\ \A r \in rows : r.id \in Nat /\ r.version \in Nat
      /\ \A i \in Handler : req[i] \in Nat
  BY CatalogConstantsOK DEF Base, TypeOK, Row, Request, Worker
<1>5. Numbered'
  <2>1. \A r \in rows' : r.id <= used'.requests /\ r.version <= used'.requests
    BY <1>2, <1>4 DEF Numbered
  <2>2. ASSUME NEW i \in Handler, pc'[i] # "idle"
        PROVE  req'[i] <= used'.requests
    BY <1>2, <1>3, <1>4, <2>2 DEF Numbered
  <2>3. ASSUME NEW i \in Handler, NEW j \in Handler, pc'[i] # "idle",
               pc'[j] # "idle", req'[i] = req'[j]
        PROVE  i = j
    BY <1>2, <1>3, <1>4, <2>3 DEF Numbered
  <2>4. ASSUME NEW i \in Handler, pc'[i] # "idle", NEW r \in rows'
        PROVE  /\ r.alias \in alias'[i] => r.version <= req'[i]
               /\ op'[i] = "add" /\ held'[i] = NoEntry => r.id # req'[i]
    BY <1>2, <1>3, <1>4, <2>4 DEF Numbered
  <2>5. \A r, s \in rows' : r.id = s.id \/ r.alias = s.alias => r = s
    BY <1>2 DEF Numbered
  <2> QED
    BY <2>1, <2>2, <2>3, <2>4, <2>5 DEF Numbered
<1>6. \A w \in Worker : Fetched(w)
  BY <1>1, <1>2 DEF Fetched, Others
<1>7. /\ pc'[h] # "create" /\ ~ KeyDeleted(h)'
      /\ \A i \in Handler \ {h} : KeyDeleted(i)' => KeyDeleted(i)
  BY <1>2, <1>3 DEF KeyDeleted
<1>8. EntriesHaveRows'
  BY <1>2, <1>3, <1>6, <1>7, EntriesSame DEF EntriesHaveRows, Stays
<1> QED
  BY <1>5, <1>8

\* A request at work: requests and loads are what they were, and the others are
\* at work on other aliases.
LEMMA HandlerAlone ==
  ASSUME Core, NEW h \in Handler,
         HandlerStep(h) \/ WorkerStep(h)
  PROVE  /\ pc[h] # "idle" /\ req[h] <= used.requests
         /\ req[h] \in Nat /\ used.requests \in Nat
         /\ batch = {} /\ batch' = {}
         /\ held[Loader] = NoEntry /\ held'[Loader] = NoEntry
         /\ used'.requests = used.requests
         /\ h \in Worker /\ HandlerInv(h)
         /\ \A i \in Handler \ {h} :
                /\ i \in Worker /\ alias[i] \cap alias[h] = {}
                /\ pc'[i] = pc[i] /\ op'[i] = op[i] /\ alias'[i] = alias[i]
                /\ req'[i] = req[i] /\ held'[i] = held[i]
                /\ seen'[i] = seen[i]
<1> USE DEF Core
<1>0. h \in Worker /\ HandlerInv(h) /\ Loader \in Worker \ {h}
  BY CatalogConstantsOK DEF Worker, Base, Places
<1>1. Others(h) /\ pc[h] # "idle" /\ UNCHANGED loader
  BY <1>0, HandlerBase, WorkerBase, WorkerKeeps
<1>2. /\ batch = {} /\ held[Loader] = NoEntry
      /\ \A i \in Handler \ {h} : alias[i] \cap alias[h] = {}
  BY <1>1, AtWork
<1>3. used'.requests = used.requests
  <2>1. used' = used \/ Use("errors", MaxErrors)
    BY DEF HandlerStep, User, Exists, Create, GetByAlias, Update, Disown, Own,
       Active, KvDel, Delete, AccessFails, WorkerStep, ListGet, ListPut, Put,
       IgnoredFailure
  <2> QED
    BY <2>1, UseTyped DEF Base
<1>4. req[h] <= used.requests /\ req[h] \in Nat /\ used.requests \in Nat
  BY <1>0, <1>1, CatalogConstantsOK DEF Numbered, Base, TypeOK
<1>5. \A i \in Handler \ {h} : i \in Worker \ {h}
  BY DEF Worker
<1> QED
  BY <1>0, <1>1, <1>2, <1>3, <1>4, <1>5 DEF Others, loader

\* Ids, aliases and versions.
LEMMA RowTyped ==
  ASSUME Base
  PROVE  \A r \in rows : /\ r.alias \in Alias /\ r.id \in Request
                         /\ r.version \in Request
                         /\ r.id \in Nat /\ r.version \in Nat
BY CatalogConstantsOK DEF Base, TypeOK, Row, Request

\* The steps of a request that do not write rows.
WritesNoRow(h) ==
    \/ User(h) \/ Exists(h) \/ GetByAlias(h) \/ Disown(h) \/ Own(h)
    \/ Active(h) \/ KvDel(h) \/ AccessFails(h) \/ WorkerStep(h)
    \/ Create(h) /\ rows' = rows /\ Answered(h)

\* They keep rows and entries together.
LEMMA HandlerCoreSame ==
  ASSUME Core, NEW h \in Handler, WritesNoRow(h)
  PROVE  Numbered' /\ EntriesHaveRows'
<1> USE DEF Core
<1>0. /\ pc[h] # "idle" /\ batch' = {}
      /\ held'[Loader] = NoEntry
      /\ used'.requests = used.requests
      /\ h \in Worker /\ HandlerInv(h)
      /\ \A i \in Handler \ {h} :
            /\ i \in Worker /\ alias[i] \cap alias[h] = {}
            /\ pc'[i] = pc[i] /\ op'[i] = op[i] /\ alias'[i] = alias[i]
            /\ req'[i] = req[i] /\ held'[i] = held[i]
  BY HandlerAlone DEF WritesNoRow, HandlerStep
<1>1. /\ Answered(h) => pc'[h] = "idle" /\ held'[h] = NoEntry /\ op'[h] = "none"
      /\ \A step : Goto(h, step) => pc'[h] = step
  BY <1>0, AnsweredTyped DEF Base, Goto, TypeOK
<1>2. pc'[h] # "idle" =>
        /\ op'[h] = op[h] /\ req'[h] = req[h] /\ alias'[h] = alias[h]
  BY <1>0, <1>1, WorkerKeeps DEF WritesNoRow, HandlerStep
<1>3. /\ pc[h] \in Holding => held[h] # NoEntry
      /\ \E a \in Alias : alias[h] = {a}
  BY <1>0, CatalogConstantsOK DEF HandlerInv
<1>4. rows' = rows
  BY DEF WritesNoRow, User, Exists, GetByAlias, Disown, Own, Active, KvDel,
     AccessFails, WorkerStep, ListGet, ListPut, Put, IgnoredFailure, stores
<1>5. /\ pc'[h] # "idle" /\ held'[h] = NoEntry => held[h] = NoEntry
      /\ Fetched(h)
      /\ pc'[h] = "create" => ~ Taken(h)
      /\ KeyDeleted(h)' => \/ KeyDeleted(h) /\ kv' = kv
                           \/ \A a \in alias'[h] : kv'[a] = NoEntry
      /\ \A a \in Alias : Stays(a) \/ StoredBy(a)
      /\ \A a \in Alias \ alias[h] : kv'[a] = kv[a]
  <2> USE DEF KeyDeleted, Fetched, Stays, StoredBy
  <2>1. CASE User(h) \/ Active(h) \/ Disown(h) \/ Own(h) \/ AccessFails(h)
             \/ Exists(h) \/ (Create(h) /\ Answered(h))
    <3>1. kv' = kv
      BY <2>1 DEF User, Active, Disown, Own, AccessFails, Exists, Create, stores
    <3>2. \/ Answered(h)
          \/ /\ held' = held
             /\ pc'[h] \in {"exists", "update", "delkey", "own", "create"}
             /\ pc'[h] = "create" => ~ Taken(h)
      BY <1>1, <2>1 DEF User, Active, Disown, Own, AccessFails, Exists,
         FirstDeleted
    <3> QED
      BY <1>1, <1>2, <3>1, <3>2
  <2>2. CASE GetByAlias(h)
    <3>1. PICK a \in alias[h] :
            IF kv[a] = NoEntry
            THEN Answered(h)
            ELSE /\ held' = [held EXCEPT ![h] = kv[a]]
                 /\ Goto(h, IF op[h] = "update"
                            THEN IF IsGroup(h) THEN "update" ELSE "user"
                            ELSE IF IsGroup(h) THEN "active" ELSE FirstDeleted)
      BY <2>2 DEF GetByAlias
    <3>2. kv' = kv
      BY <2>2 DEF GetByAlias, stores
    <3>3. CASE kv[a] = NoEntry
      BY <1>1, <3>1, <3>2, <3>3
    <3>4. CASE kv[a] # NoEntry
      <4>1. held'[h] = kv[a] /\ pc'[h] \in {"update", "user", "active", "delkey"}
        BY <1>0, <1>1, <3>1, <3>4 DEF FirstDeleted, Base, TypeOK
      <4>2. alias'[h] = {a} /\ a \in Alias
        BY <1>2, <1>3, <3>1, <4>1
      <4> QED
        BY <3>2, <3>4, <4>1, <4>2
    <3> QED
      BY <3>3, <3>4
  <2>3. CASE KvDel(h)
    <3>1. /\ kv' = [a \in Alias |-> IF a \in alias[h] THEN NoEntry ELSE kv[a]]
          /\ held' = held
          /\ pc'[h] \in {"listget", "delrow"}
      BY <1>1, <2>3 DEF KvDel, AfterDelete, FirstDeleted
    <3> QED
      BY <1>2, <1>3, <3>1
  <2>4. CASE ListGet(h) \/ ListPut(h) \/ IgnoredFailure(h)
    <3>1. kv' = kv
      BY <2>4 DEF ListGet, ListPut, IgnoredFailure, stores
    <3>2. \/ Answered(h)
          \/ /\ held' = held /\ pc[h] \in {"listget", "listput", "disown"}
             /\ pc'[h] \in {"put", "own", "listput", "delrow"}
             /\ op[h] = "del" => pc[h] \in {"listget", "listput"}
      BY <1>0, <1>1, <2>4 DEF ListGet, ListPut, IgnoredFailure, AfterList,
         HandlerInv
    <3> QED
      BY <1>1, <1>2, <3>1, <3>2
  <2>5. CASE Put(h)
    <3>1. /\ kv' = [a \in Alias |-> IF a \in alias[h] THEN held[h] ELSE kv[a]]
          /\ held[h] # NoEntry
          /\ op[h] # "del"
      BY <1>0, <1>3, <2>5 DEF Put, HandlerInv, Holding
    <3>2. \/ Answered(h)
          \/ held' = held /\ pc'[h] \in {"disown", "own"}
      BY <1>1, <2>5 DEF Put
    <3> QED
      BY <1>0, <1>1, <1>2, <3>1, <3>2
  <2> QED
    BY <2>1, <2>2, <2>3, <2>4, <2>5 DEF WritesNoRow, WorkerStep
<1>6. Numbered'
  BY <1>0, <1>2, <1>4, <1>5, NumberedSame
<1>7. /\ \A w \in Worker : Fetched(w)
      /\ \A i \in Handler : pc'[i] = "create" =>
            \/ pc[i] = "create" /\ alias'[i] = alias[i]
            \/ ~ Taken(i) /\ alias'[i] = alias[i]
      /\ \A i \in Handler : KeyDeleted(i)' =>
            \/ /\ KeyDeleted(i) /\ alias'[i] = alias[i]
               /\ \A a \in alias[i] : Stays(a)
            \/ \A a \in alias'[i] : kv'[a] = NoEntry
  <2>1. KeyDeleted(h)' => pc'[h] # "idle"
    BY DEF KeyDeleted
  <2>2. ASSUME NEW i \in Handler \ {h}
        PROVE  /\ KeyDeleted(i)' => KeyDeleted(i)
               /\ \A a \in alias[i] : Stays(a)
    <3>1. KeyDeleted(i)' => KeyDeleted(i)
      BY <1>0 DEF KeyDeleted
    <3>2. \A a \in alias[i] : a \in Alias \ alias[h]
      BY <1>0 DEF Base, TypeOK
    <3> QED
      BY <1>5, <3>1, <3>2 DEF Stays
  <2>3. \A w \in Worker : w = h \/ w = Loader \/ w \in Handler \ {h}
    BY DEF Worker
  <2> QED
    BY <1>0, <1>2, <1>5, <2>1, <2>2, <2>3 DEF Fetched, Stays
<1>8. EntriesHaveRows'
  BY <1>0, <1>4, <1>5, <1>7, EntriesSame
<1> QED
  BY <1>6, <1>8

\* What is left to show of a step that writes rows: those of other aliases it
\* leaves with ids and versions no lower, and its own entries have theirs.
LEMMA EntriesWritten ==
  ASSUME Core, NEW h \in Handler, HandlerStep(h),
         kv' = kv,
         \A b \in Alias \ alias[h], e \in Entry : HasRow(b, e) =>
            \E r \in rows' : r.alias = b /\ r.id = e.id /\ r.version >= e.version,
         \A b \in alias[h] : kv[b] # NoEntry =>
            \E r \in rows' : /\ r.alias = b /\ r.id = kv[b].id
                             /\ r.version >= kv[b].version,
         \A r \in rows' : r.alias \in alias[h] \/ \E s \in rows : s.alias = r.alias,
         held'[h] # NoEntry =>
            \E a \in Alias : /\ alias'[h] = {a}
                             /\ \E r \in rows' : /\ r.alias = a
                                                 /\ r.id = held'[h].id
                                                 /\ r.version >= held'[h].version,
         pc'[h] # "create", ~ KeyDeleted(h)'
  PROVE  EntriesHaveRows'
<1> USE DEF Core
<1>1. /\ batch' = {} /\ held'[Loader] = NoEntry
      /\ \A i \in Handler \ {h} :
            /\ i \in Worker /\ alias[i] \cap alias[h] = {}
            /\ pc'[i] = pc[i] /\ op'[i] = op[i] /\ alias'[i] = alias[i]
            /\ held'[i] = held[i]
  BY HandlerAlone
<1>2. ASSUME NEW b \in Alias, kv[b] # NoEntry
      PROVE  \E r \in rows' : /\ r.alias = b /\ r.id = kv[b].id
                              /\ r.version >= kv[b].version
  <2>1. kv[b] \in Entry /\ HasRow(b, kv[b])
    BY <1>2 DEF EntriesHaveRows, Base, TypeOK
  <2> QED
    BY <1>2, <2>1
<1>3. ASSUME NEW i \in Handler \ {h}, held[i] # NoEntry
      PROVE  /\ \E a \in Alias : alias[i] = {a}
             /\ \A a \in alias[i] :
                    \E r \in rows' : /\ r.alias = a /\ r.id = held[i].id
                                     /\ r.version >= held[i].version
  <2>1. PICK a \in Alias : alias[i] = {a}
    BY <1>1, <1>3 DEF EntriesHaveRows
  <2>2. held[i] \in Entry /\ HasRow(a, held[i])
    BY <1>1, <1>3, <2>1 DEF EntriesHaveRows, Base, TypeOK
  <2>3. a \notin alias[h]
    BY <1>1, <2>1
  <2> QED
    BY <2>1, <2>2, <2>3
<1>4. ASSUME NEW i \in Handler \ {h}
      PROVE  /\ pc'[i] = "create" => ~ \E r \in rows' : r.alias \in alias'[i]
             /\ KeyDeleted(i)' => \A a \in alias'[i] : kv'[a] = NoEntry
  <2>1. pc[i] = "create" => \A s \in rows : s.alias \notin alias[i]
    BY DEF EntriesHaveRows, Taken
  <2>2. KeyDeleted(i)' => KeyDeleted(i)
    BY <1>1 DEF KeyDeleted
  <2> QED
    BY <1>1, <2>1, <2>2 DEF EntriesHaveRows
<1>5. \A w \in Worker : w = h \/ w = Loader \/ w \in Handler \ {h}
  BY DEF Worker
<1> QED
  BY <1>1, <1>2, <1>3, <1>4, <1>5 DEF EntriesHaveRows, HasRow, Taken

\* The others keep their numbers beside a step that writes rows.
LEMMA NumberedWritten ==
  ASSUME Core, NEW h \in Handler, HandlerStep(h),
         pc'[h] # "idle" => req'[h] = req[h] /\ held'[h] # NoEntry,
         \A r \in rows' : r.id <= used.requests /\ r.version <= used.requests,
         \A r, s \in rows' : r.id = s.id \/ r.alias = s.alias => r = s,
         \A r \in rows' :
            \/ r.alias \in alias[h] /\ r.version <= req[h] /\ r.id = req[h]
            \/ r.alias \in alias[h] /\ r.version <= req[h] /\ \E s \in rows : s.id = r.id
            \/ r \in rows
  PROVE  Numbered'
<1> USE DEF Core
<1>1. /\ pc[h] # "idle" /\ used'.requests = used.requests
      /\ req[h] <= used.requests
      /\ \A i \in Handler \ {h} :
            /\ alias[i] \cap alias[h] = {}
            /\ pc'[i] = pc[i] /\ op'[i] = op[i] /\ alias'[i] = alias[i]
            /\ req'[i] = req[i] /\ held'[i] = held[i]
  BY HandlerAlone
<1>2. alias'[h] \subseteq alias[h]
  BY <1>1, WorkerKeeps, AnsweredTyped DEF Worker, Base
<1>3. ASSUME NEW i \in Handler, pc'[i] # "idle"
      PROVE  req'[i] <= used'.requests
  BY <1>1, <1>3 DEF Numbered
<1>4. ASSUME NEW i \in Handler, NEW j \in Handler, pc'[i] # "idle",
             pc'[j] # "idle", req'[i] = req'[j]
      PROVE  i = j
  BY <1>1, <1>4 DEF Numbered
<1>5. ASSUME NEW i \in Handler, pc'[i] # "idle", NEW r \in rows'
      PROVE  /\ r.alias \in alias'[i] => r.version <= req'[i]
             /\ op'[i] = "add" /\ held'[i] = NoEntry => r.id # req'[i]
  <2>1. CASE i = h
    BY <1>1, <1>2, <1>5, <2>1 DEF Numbered
  <2>2. CASE i # h
    <3>1. req[i] # req[h] /\ pc[i] # "idle"
      BY <1>1, <1>5, <2>2 DEF Numbered
    <3> QED
      BY <1>1, <1>5, <2>2, <3>1 DEF Numbered
  <2> QED
    BY <2>1, <2>2
<1> QED
  BY <1>1, <1>3, <1>4, <1>5 DEF Numbered

\* The row of an addition.
LEMMA CreateCore ==
  ASSUME Core, NEW h \in Handler, Create(h)
  PROVE  Numbered' /\ EntriesHaveRows'
<1> USE DEF Core
<1>0. /\ pc[h] # "idle" /\ req[h] <= used.requests
      /\ req[h] \in Nat /\ used.requests \in Nat
      /\ h \in Worker /\ HandlerInv(h)
  BY HandlerAlone DEF HandlerStep
<1>1. CASE IsGroup(h) /\ Taken(h)
  <2>1. WritesNoRow(h)
    BY <1>1 DEF Create, WritesNoRow
  <2> QED
    BY <2>1, HandlerCoreSame
<1>2. CASE ~(IsGroup(h) /\ Taken(h))
  <2>1. PICK a \in Alias : alias[h] = {a}
    BY <1>0 DEF HandlerInv
  <2> DEFINE n == [id |-> req[h], alias |-> a, version |-> req[h],
                   author |-> author[h]]
  <2>2. /\ rows' = rows \cup {n}
        /\ held' = [held EXCEPT ![h] = [id |-> req[h], version |-> req[h]]]
        /\ AddConsul(h, alias[h])
        /\ UNCHANGED <<request, seen, kv>>
        /\ pc[h] = "create"
    <3>1. {[id |-> req[h], alias |-> b, version |-> req[h],
            author |-> author[h]] : b \in {a}} = {n}
      OBVIOUS
    <3> QED
      BY <1>2, <2>1, <3>1 DEF Create
  <2>3. /\ held'[h] = [id |-> req[h], version |-> req[h]]
        /\ pc'[h] \in {"listget", "put"}
        /\ op[h] = "add" /\ op' = op /\ alias' = alias /\ req' = req
        /\ held[h] = NoEntry
    BY <1>0, <2>2 DEF AddConsul, Goto, HandlerInv, Base, TypeOK, request
  <2>4. \A r \in rows : r.alias # a /\ r.id # req[h]
    BY <1>0, <2>1, <2>2, <2>3 DEF EntriesHaveRows, Taken, Numbered
  <2>5. HandlerStep(h) /\ kv' = kv
    BY <2>2 DEF HandlerStep
  <2>6. Numbered'
    <3>1. n.id = req[h] /\ n.version = req[h] /\ n.alias = a
      OBVIOUS
    <3>2. \A r \in rows' : r.id <= used.requests /\ r.version <= used.requests
      BY <1>0, <2>2, <3>1 DEF Numbered
    <3>3. \A r, s \in rows' : r.id = s.id \/ r.alias = s.alias => r = s
      <4> SUFFICES ASSUME NEW r \in rows', NEW s \in rows',
                          r.id = s.id \/ r.alias = s.alias
                   PROVE  r = s
        OBVIOUS
      <4>1. CASE r \in rows /\ s \in rows
        BY <4>1 DEF Numbered
      <4>2. CASE r = n \/ s = n
        BY <2>2, <2>4, <3>1, <4>2
      <4> QED
        BY <2>2, <4>1, <4>2
    <3>4. held'[h] # NoEntry
      <4>1. req[h] \in Request
        BY <1>0 DEF HandlerInv
      <4> QED
        BY <2>3, <4>1, CatalogConstantsOK DEF Entry
    <3>5. \A r \in rows' :
            \/ r.alias \in alias[h] /\ r.version <= req[h] /\ r.id = req[h]
            \/ r \in rows
      BY <1>0, <2>1, <2>2, <3>1
    <3> QED
      BY <2>3, <2>5, <3>2, <3>3, <3>4, <3>5, NumberedWritten
  <2>7. ASSUME NEW b \in Alias, NEW e \in Entry, HasRow(b, e)
        PROVE  \E r \in rows' : r.alias = b /\ r.id = e.id /\ r.version >= e.version
    BY <2>2, <2>7 DEF HasRow
  <2>8. \E r \in rows' : /\ r.alias = a /\ r.id = held'[h].id
                         /\ r.version >= held'[h].version
    <3> n \in rows' /\ n.alias = a /\ n.id = held'[h].id /\ n.version = held'[h].version
      BY <2>2, <2>3
    <3> QED
      BY <1>0, <2>3
  <2>9. /\ ~ KeyDeleted(h)' /\ pc'[h] # "create"
        /\ \A r \in rows' : r.alias \in alias[h] \/ \E s \in rows : s.alias = r.alias
    <3>1. n.alias = a
      OBVIOUS
    <3> QED
      BY <2>1, <2>2, <2>3, <3>1 DEF KeyDeleted
  <2>10. \A b \in Alias : kv[b] # NoEntry =>
            \E r \in rows' : /\ r.alias = b /\ r.id = kv[b].id
                             /\ r.version >= kv[b].version
    BY <2>7 DEF EntriesHaveRows, Base, TypeOK
  <2> QED
    BY <2>1, <2>3, <2>5, <2>6, <2>7, <2>8, <2>9, <2>10, EntriesWritten
<1> QED
  BY <1>1, <1>2

\* The row of an update.
LEMMA UpdateCore ==
  ASSUME Core, NEW h \in Handler, Update(h)
  PROVE  Numbered' /\ EntriesHaveRows'
<1> USE DEF Core
<1>0. /\ pc[h] # "idle" /\ req[h] <= used.requests
      /\ req[h] \in Nat /\ used.requests \in Nat
      /\ h \in Worker /\ HandlerInv(h)
  BY HandlerAlone DEF HandlerStep
<1> DEFINE new(r) == IF r.id = held[h].id
                     THEN [r EXCEPT !.version = req[h], !.author = author[h]]
                     ELSE r
<1>1. /\ rows' = {new(r) : r \in rows}
      /\ pc'[h] = "put" /\ op'[h] = "update" /\ op[h] = "update"
      /\ alias' = alias /\ req' = req /\ kv' = kv
      /\ held[h] \in Entry
      /\ held'[h] = [held[h] EXCEPT !.version = req[h]]
  BY <1>0 DEF Update, NewVersion, Goto, Base, TypeOK, request, HandlerInv, Holding
<1>2. PICK a \in Alias : alias[h] = {a}
  BY <1>0 DEF HandlerInv
<1>a. PICK q \in rows : q.alias = a /\ q.id = held[h].id
  <2>1. held[h] # NoEntry
    BY <1>1, CatalogConstantsOK
  <2> QED
    BY <1>0, <1>2, <2>1 DEF EntriesHaveRows, HasRow
<1>b. \A r \in rows : r.id = held[h].id => r.alias = a /\ r.version <= req[h]
  BY <1>0, <1>2, <1>a DEF Numbered
<1>3. ASSUME NEW r \in rows
      PROVE  /\ new(r) \in rows' /\ new(r).id = r.id /\ new(r).alias = r.alias
             /\ new(r).version >= r.version /\ new(r).version <= used.requests
             /\ r.id = held[h].id => new(r).version = req[h]
             /\ r.id # held[h].id => new(r) = r
             /\ r.id \in Nat /\ r.version \in Nat /\ r.id <= used.requests
  <2>1. /\ r \in Row /\ r.id \in Nat /\ r.version \in Nat
        /\ r.version <= used.requests /\ r.id <= used.requests
    BY <1>0, RowTyped DEF Base, TypeOK, Numbered
  <2>2. new(r) \in rows'
    BY <1>1
  <2>3. CASE r.id = held[h].id
    <3> DEFINE s == [[r EXCEPT !.version = req[h]] EXCEPT !.author = author[h]]
    <3>1. s.id = r.id /\ s.alias = r.alias /\ s.version = req[h]
      BY <2>1 DEF Row
    <3>2. new(r) = s
      BY <2>3, Zenon
    <3> HIDE DEF s, new
    <3> QED
      BY <1>0, <1>b, <2>1, <2>2, <2>3, <3>1, <3>2
  <2>4. CASE r.id # held[h].id
    <3>1. new(r) = r
      BY <2>4, Zenon
    <3> HIDE DEF new
    <3> QED
      BY <1>0, <2>1, <2>2, <2>4, <3>1
  <2> QED
    BY <2>3, <2>4, Zenon
<1> HIDE DEF new
<1>c. HandlerStep(h) /\ held'[h] # NoEntry
  <2>1. HandlerStep(h)
    BY DEF HandlerStep
  <2>2. held'[h] \in Entry
    BY <1>0, <1>1 DEF Entry, HandlerInv
  <2> QED
    BY <2>1, <2>2, CatalogConstantsOK
<1>4. Numbered'
  <2>1. \A r \in rows' : r.id <= used.requests /\ r.version <= used.requests
    BY <1>1, <1>3
  <2>2. \A r, s \in rows' : r.id = s.id \/ r.alias = s.alias => r = s
    <3> SUFFICES ASSUME NEW r \in rows, NEW s \in rows,
                        new(r).id = new(s).id \/ new(r).alias = new(s).alias
                 PROVE  new(r) = new(s)
      BY <1>1
    <3> QED
      BY <1>3 DEF Numbered
  <2>3. ASSUME NEW s \in rows'
        PROVE  \/ s.alias \in alias[h] /\ s.version <= req[h] /\ \E r \in rows : r.id = s.id
               \/ s \in rows
    <3>1. PICK r \in rows : s = new(r)
      BY <1>1
    <3> QED
      BY <1>0, <1>2, <1>3, <1>b, <3>1
  <2> QED
    BY <1>1, <1>c, <2>1, <2>2, <2>3, NumberedWritten
<1>5. ASSUME NEW b \in Alias, NEW e \in Entry, HasRow(b, e)
      PROVE  \E r \in rows' : r.alias = b /\ r.id = e.id /\ r.version >= e.version
  <2>1. PICK r \in rows : r.alias = b /\ r.id = e.id /\ r.version >= e.version
    BY <1>5 DEF HasRow
  <2>2. e.version \in Nat /\ new(r).version >= e.version
    <3>1. e.version \in Nat
      BY CatalogConstantsOK DEF Entry, Request
    <3>2. new(r).version = req[h] \/ new(r).version = r.version
      BY <1>3
    <3> QED
      BY <1>0, <1>3, <2>1, <3>1, <3>2
  <2> QED
    BY <1>3, <2>1, <2>2
<1>6. \A b \in Alias : kv[b] # NoEntry =>
        \E r \in rows' : /\ r.alias = b /\ r.id = kv[b].id
                         /\ r.version >= kv[b].version
  BY <1>5 DEF EntriesHaveRows, Base, TypeOK
<1>7. \E r \in rows' : /\ r.alias = a /\ r.id = held'[h].id
                       /\ r.version >= held'[h].version
  <2>1. held'[h].id = held[h].id /\ held'[h].version = req[h]
    BY <1>1 DEF Entry
  <2>2. new(q) \in rows' /\ new(q).alias = a /\ new(q).id = held[h].id /\ new(q).version = req[h]
    BY <1>3, <1>a
  <2> QED
    BY <1>0, <2>1, <2>2
<1>8. /\ ~ KeyDeleted(h)' /\ pc'[h] # "create" /\ alias'[h] = {a}
      /\ \A r \in rows' : \E s \in rows : s.alias = r.alias
  BY <1>1, <1>2, <1>3 DEF KeyDeleted
<1>9. /\ \A b \in alias[h] : kv[b] # NoEntry =>
            \E r \in rows' : /\ r.alias = b /\ r.id = kv[b].id
                             /\ r.version >= kv[b].version
      /\ \E b \in Alias : /\ alias'[h] = {b}
                         /\ \E r \in rows' : /\ r.alias = b
                                             /\ r.id = held'[h].id
                                             /\ r.version >= held'[h].version
  BY <1>2, <1>6, <1>7, <1>8
<1>10. kv' = kv
  BY <1>1
<1> QED
  BY <1>c, <1>4, <1>5, <1>8, <1>9, <1>10, EntriesWritten

\* The row of a deletion, whose key is gone.
LEMMA DeleteCore ==
  ASSUME Core, NEW h \in Handler, Delete(h)
  PROVE  Numbered' /\ EntriesHaveRows'
<1> USE DEF Core
<1>0. /\ pc[h] # "idle" /\ h \in Worker /\ HandlerInv(h)
  BY HandlerAlone DEF HandlerStep
<1>1. /\ rows' = {r \in rows : r.id # held[h].id}
      /\ Answered(h) /\ kv' = kv /\ pc[h] = "delrow"
      /\ pc'[h] = "idle" /\ op'[h] = "none" /\ held'[h] = NoEntry
  BY <1>0, AnsweredTyped DEF Delete, AfterDelete, FirstDeleted, Base
<1>2. PICK a \in Alias : alias[h] = {a}
  BY <1>0 DEF HandlerInv
<1>3. /\ kv[a] = NoEntry
      /\ \A r \in rows : r.id = held[h].id => r.alias = a
  <2>1. op[h] = "del" /\ held[h] # NoEntry
    BY <1>0, <1>1, CatalogConstantsOK DEF HandlerInv, Holding
  <2>2. kv[a] = NoEntry
    BY <1>1, <1>2, <2>1 DEF EntriesHaveRows, KeyDeleted
  <2>3. HasRow(a, held[h])
    BY <1>0, <1>2, <2>1 DEF EntriesHaveRows
  <2> QED
    BY <2>2, <2>3 DEF HasRow, Numbered
<1>4. Numbered'
  BY <1>1, NumberedWritten DEF Numbered, HandlerStep
<1>5. ASSUME NEW b \in Alias \ alias[h], NEW e \in Entry, HasRow(b, e)
      PROVE  \E r \in rows' : r.alias = b /\ r.id = e.id /\ r.version >= e.version
  BY <1>1, <1>2, <1>3, <1>5 DEF HasRow
<1>6. ~ KeyDeleted(h)' /\ pc'[h] # "create" /\ HandlerStep(h)
  BY <1>1 DEF KeyDeleted, HandlerStep
<1> QED
  BY <1>1, <1>2, <1>3, <1>4, <1>5, <1>6, EntriesWritten

\* The steps of loaddata and of its goroutine.
LEMMA LoadCore ==
  ASSUME Core, MaxSame = 1, LoadStep \/ WorkerStep(Loader)
  PROVE  Numbered' /\ EntriesHaveRows'
<1> USE DEF Core
<1>0. /\ Loader \in Worker /\ Loader \notin Handler /\ LoaderInv
      /\ \A w \in Worker : w = Loader \/ w \in Handler
  BY CatalogConstantsOK DEF Worker, Base, Places
<1>1. \A h \in Handler : pc[h] = "idle" /\ op[h] = "none" /\ held[h] = NoEntry
  <2>1. CASE Load
    BY <2>1, NobodyBusy DEF Load, Base, Places, HandlerInv
  <2>2. CASE ~Load
    <3>1. load # "off"
      BY <1>0, <2>2, WorkerKeeps DEF LoadStep, DropList, ListKeys, ClearKey, Cleared,
         GetPage, PutRow, PageDone, LoadFails, LoaderInv
    <3> QED
      BY <3>1, LoaderAtWork
  <2> QED
    BY <2>1, <2>2
<1>2. Others(Loader)
  BY <1>0, LoadBase, WorkerBase
<1>3. /\ rows' = rows /\ used'.requests = used.requests
  <2>1. /\ rows' = rows
        /\ used' = used \/ Use("errors", MaxErrors) \/ Use("loads", MaxLoads)
    BY DEF LoadStep, Load, DropList, ListKeys, ClearKey, Cleared, GetPage,
       PutRow, PageDone, LoadFails, WorkerStep, ListGet, ListPut, Put,
       IgnoredFailure, stores
  <2> QED
    BY <2>1, UseTyped DEF Base
<1>4. \A h \in Handler :
        /\ pc'[h] = "idle" /\ held'[h] = NoEntry /\ op'[h] = "none"
        /\ h \in Worker \ {Loader}
  BY <1>0, <1>1, <1>2 DEF Others, Worker
<1>5. Numbered'
  BY <1>3, <1>4 DEF Numbered
<1>6. /\ \A a \in Alias : Stays(a) \/ StoredBy(a)
      /\ Fetched(Loader)
      /\ batch' \subseteq rows
  <2>1. CASE WorkerStep(Loader)
    <3>1. pc[Loader] # "idle" /\ batch' = batch
          /\ (Answered(Loader) \/ UNCHANGED <<op, alias, req>>)
      BY <1>0, <2>1, WorkerKeeps DEF loader
    <3>2. Fetched(Loader)
      <4>1. CASE Answered(Loader)
        BY <1>0, <4>1, AnsweredTyped DEF Fetched, Base
      <4>2. CASE held' = held /\ alias' = alias
        BY <4>2 DEF Fetched
      <4> QED
        BY <2>1, <3>1, <4>1, <4>2
           DEF WorkerStep, ListGet, ListPut, Put, IgnoredFailure, request
    <3>3. \A a \in Alias : Stays(a) \/ StoredBy(a)
      <4>1. CASE Put(Loader)
        BY <1>0, <3>1, <4>1, CatalogConstantsOK DEF Put, Stays, StoredBy, LoaderInv
      <4>2. CASE kv' = kv
        BY <4>2 DEF Stays
      <4> QED
        BY <2>1, <4>1, <4>2
           DEF WorkerStep, ListGet, ListPut, IgnoredFailure, stores
    <3> QED
      BY <3>1, <3>2, <3>3 DEF EntriesHaveRows
  <2>2. CASE PutRow
    <3>1. PICK r \in batch :
            /\ alias' = [alias EXCEPT ![Loader] = {r.alias}]
            /\ held' = [held EXCEPT ![Loader] = [id |-> r.id, version |-> r.version]]
            /\ batch' = batch \ {r}
      BY <2>2 DEF PutRow
    <3>2. r \in rows /\ kv' = kv /\ batch' \subseteq rows
      BY <2>2, <3>1 DEF PutRow, stores, EntriesHaveRows
    <3>3. /\ alias'[Loader] = {r.alias}
          /\ held'[Loader] = [id |-> r.id, version |-> r.version]
      BY <1>0, <3>1 DEF Base, TypeOK
    <3> QED
      BY <3>2, <3>3 DEF Fetched, Stays
  <2>3. CASE ~PutRow /\ LoadStep
    <3>1. /\ UNCHANGED <<held, alias>>
          /\ batch' \subseteq rows
      BY <2>3 DEF LoadStep, Load, DropList, ListKeys, ClearKey, Cleared, GetPage,
         PageDone, LoadFails, workers, request, EntriesHaveRows
    <3>2. kv' = kv \/ \E a \in keys : kv' = [kv EXCEPT ![a] = NoEntry]
      BY <2>3 DEF LoadStep, Load, DropList, ListKeys, ClearKey, Cleared, GetPage,
         PageDone, LoadFails, stores
    <3> QED
      BY <3>1, <3>2 DEF Fetched, Stays, Base, TypeOK
  <2> QED
    BY <2>1, <2>2, <2>3
<1>7. /\ \A w \in Worker : Fetched(w)
      /\ \A h \in Handler : pc'[h] # "create" /\ ~ KeyDeleted(h)'
  BY <1>0, <1>4, <1>6 DEF Fetched, KeyDeleted
<1>8. EntriesHaveRows'
  BY <1>3, <1>6, <1>7, EntriesSame
<1> QED
  BY <1>5, <1>8

\* With nobody at work on the keys of another rows and entries stay together.
LEMMA CoreStep ==
  ASSUME Core, MaxSame = 1, [Next]_vars
  PROVE  Core'
<1>1. Base' /\ Alone'
  BY BaseStep, AloneStep DEF Core
<1>2. Numbered' /\ EntriesHaveRows'
  <2>1. CASE UNCHANGED vars \/ Unauthorized
    <3>1. UNCHANGED <<stores, workers, loader, used>>
      BY <2>1 DEF vars, Unauthorized
    <3> QED
      BY <3>1 DEF Core, Numbered, EntriesHaveRows, HasRow, Taken, KeyDeleted,
         stores, workers, request, loader
  <2>2. ASSUME NEW h \in Handler, HandlerStep(h) \/ WorkerStep(h)
        PROVE  Numbered' /\ EntriesHaveRows'
    BY <2>2, HandlerCoreSame, CreateCore, UpdateCore, DeleteCore
       DEF HandlerStep, WritesNoRow
  <2> QED
    BY <2>1, <2>2, BeginCore, LoadCore DEF Next, Worker
<1> QED
  BY <1>1, <1>2 DEF Core

-----------------------------------------------------------------------------
(***************************************************************************)
(* The owners of the jobs.                                                 *)
(***************************************************************************)
\* Errors are counted and never forgotten.
LEMMA NoErrorYet ==
  ASSUME Base, [Next]_vars, used'.errors = 0
  PROVE  used.errors = 0 /\ ~ Use("errors", MaxErrors)
<1>1. \/ used' = used
      \/ Use("requests", MaxRequests)
      \/ Use("errors", MaxErrors)
      \/ Use("loads", MaxLoads)
  BY DEF Next, Begin, Unauthorized, HandlerStep, User, Exists, Create,
     GetByAlias, Update, Disown, Own, Active, KvDel, Delete, AccessFails,
     WorkerStep, ListGet, ListPut, Put, IgnoredFailure, LoadStep, Load,
     DropList, ListKeys, ClearKey, Cleared, GetPage, PutRow, PageDone,
     LoadFails, vars
<1>2. ~ Use("errors", MaxErrors)
  BY UseTyped DEF Base
<1> QED
  BY <1>1, <1>2, UseTyped DEF Base

\* A row of the alias a request is at work on is owed its owners by nobody else.
LEMMA OnlyOwes ==
  ASSUME Core, NEW h \in Handler, NEW i \in Handler, NEW r,
         OwesOwners(i, r), r.alias \in alias[h]
  PROVE  i = h
<1>1. r.alias \in alias[i]
  BY DEF OwesOwners
<1> QED
  BY <1>1 DEF Core, Alone, SameKey

\* What another request owes it still owes.
LEMMA OwesStays ==
  ASSUME Core, NEW h \in Handler, HandlerStep(h) \/ WorkerStep(h),
         NEW i \in Handler \ {h}, NEW r, OwesOwners(i, r),
         \A a : a \notin alias[h] => OwnersOf(a)' = OwnersOf(a)
  PROVE  OwesOwners(i, r)'
<1>1. /\ alias[i] \cap alias[h] = {}
      /\ pc'[i] = pc[i] /\ op'[i] = op[i] /\ alias'[i] = alias[i]
      /\ req'[i] = req[i]
  BY HandlerAlone
<1>2. OwnersOf(r.alias)' = OwnersOf(r.alias)
  BY <1>1 DEF OwesOwners
<1> QED
  BY <1>1, <1>2 DEF OwesOwners

\* The row of a request is that of its alias, and the request wrote it last.
LEMMA RowOfRequest ==
  ASSUME Core, NEW h \in Handler, pc[h] # "idle", held[h] # NoEntry,
         NEW r \in rows
  PROVE  /\ r.alias \in alias[h] <=> r.id = held[h].id
         /\ r.alias \in alias[h] => alias[h] = {r.alias}
         /\ r.alias \in alias[h] /\ held[h].version = req[h] => r.version = req[h]
<1> USE DEF Core
<1>1. h \in Worker /\ req[h] \in Nat
  BY CatalogConstantsOK DEF Worker, Base, TypeOK
<1>2. PICK a \in Alias : alias[h] = {a}
  BY <1>1 DEF EntriesHaveRows
<1>3. PICK s \in rows : s.alias = a /\ s.id = held[h].id /\ s.version >= held[h].version
  BY <1>1, <1>2 DEF EntriesHaveRows, HasRow
<1>4. s.version \in Nat /\ s.version <= req[h]
  BY <1>2, <1>3, RowTyped DEF Numbered
<1>5. r.alias = a \/ r.id = s.id => r = s
  BY <1>3 DEF Numbered
<1>6. held[h].version = req[h] => s.version = req[h]
  BY <1>1, <1>3, <1>4
<1> QED
  BY <1>2, <1>3, <1>5, <1>6

\* The steps of a request that write neither rows nor owners.
LEMMA OwnersSame ==
  ASSUME Core, OwnersRight, NEW h \in Handler, WritesNoRow(h),
         ~ Disown(h), ~ Own(h), used.errors = 0, ~ Use("errors", MaxErrors)
  PROVE  OwnersRight'
<1> USE DEF Core
<1>0. /\ pc[h] # "idle" /\ h \in Worker /\ HandlerInv(h)
      /\ HandlerStep(h) \/ WorkerStep(h)
  BY HandlerAlone DEF WritesNoRow, HandlerStep
<1>1. rows' = rows /\ owners' = owners
  BY DEF WritesNoRow, User, Exists, GetByAlias, Active, KvDel,
     AccessFails, WorkerStep, ListGet, ListPut, Put, IgnoredFailure, Create,
     stores
<1>2. ASSUME NEW r \in rows, r.alias \in Job
      PROVE  Owned(r)' \/ \E i \in Handler : OwesOwners(i, r)'
  <2>1. CASE Owned(r)
    BY <1>1, <2>1 DEF Owned, OwnersOf
  <2>2. CASE OwesOwners(h, r)
    <3>1. /\ pc[h] \in {"put", "disown", "own"} /\ alias[h] = {r.alias}
          /\ pc[h] = "own" /\ op[h] = "update" => OwnersOf(r.alias) = {}
          /\ op[h] \in {"add", "update"}
          /\ op[h] = "add" => r.id = r.version
          /\ r.version = req[h]
      BY <2>2 DEF OwesOwners
    <3>2. ~ IsGroup(h)
      BY <1>2, <3>1, CatalogConstantsOK DEF IsGroup
    <3>3. Put(h)
      BY <3>1 DEF WritesNoRow, User, Exists, GetByAlias, Active, KvDel,
         AccessFails, WorkerStep, ListGet, ListPut, IgnoredFailure, Create
    <3>4. /\ pc'[h] = IF op[h] = "update" THEN "disown" ELSE "own"
          /\ op' = op /\ alias' = alias /\ req' = req
      BY <1>0, <3>1, <3>2, <3>3 DEF Put, Goto, Base, TypeOK, request
    <3>5. OwesOwners(h, r)'
      BY <2>2, <3>1, <3>4 DEF OwesOwners
    <3> QED
      BY <3>5
  <2>3. ASSUME NEW i \in Handler \ {h}, OwesOwners(i, r)
        PROVE  OwesOwners(i, r)'
    BY <1>0, <1>1, <2>3, OwesStays DEF OwnersOf
  <2> QED
    BY <1>1, <1>2, <2>1, <2>2, <2>3 DEF OwnersRight
<1> QED
  BY <1>1, <1>2 DEF OwnersRight

\* The owners of the request take the place of those before.
LEMMA OwnersWritten ==
  ASSUME Core, OwnersRight, NEW h \in Handler, Disown(h) \/ Own(h),
         used.errors = 0
  PROVE  OwnersRight'
<1> USE DEF Core
<1>0. /\ pc[h] # "idle" /\ h \in Worker /\ HandlerInv(h) /\ rows' = rows
      /\ HandlerStep(h)
  BY HandlerAlone DEF HandlerStep, Disown, Own
<1>1. held[h] # NoEntry /\ held[h].version = req[h]
  BY <1>0, CatalogConstantsOK DEF Disown, Own, HandlerInv, Holding
<1>2. ASSUME NEW a, a \notin alias[h]
      PROVE  OwnersOf(a)' = OwnersOf(a)
  BY <1>2 DEF Disown, OwnersOfOthers, Own, OwnersOf
<1>3. ASSUME NEW r \in rows, r.alias \in Job
      PROVE  Owned(r)' \/ \E i \in Handler : OwesOwners(i, r)'
  <2>1. Owned(r) \/ \E i \in Handler : OwesOwners(i, r)
    BY <1>3 DEF OwnersRight
  <2>2. CASE r.alias \notin alias[h]
    <3>1. Owned(r) => Owned(r)'
      BY <1>2, <2>2 DEF Owned
    <3>2. \A i \in Handler : OwesOwners(i, r) => i # h
      BY <2>2 DEF OwesOwners
    <3>3. \A i \in Handler : OwesOwners(i, r) => OwesOwners(i, r)'
      BY <1>0, <1>2, <3>2, OwesStays
    <3> QED
      BY <2>1, <3>1, <3>3
  <2>3. CASE r.alias \in alias[h]
    <3>0. Owned(r) \/ OwesOwners(h, r)
      BY <2>1, <2>3, OnlyOwes
    <3>1. /\ alias[h] = {r.alias} /\ r.version = req[h] /\ r.id = held[h].id
      BY <1>0, <1>1, <2>3, RowOfRequest
    <3>2. CASE Disown(h)
      <4>1. OwnersOf(r.alias)' = {}
        BY <3>1, <3>2 DEF Disown, OwnersOfOthers, OwnersOf
      <4>2. /\ pc'[h] = "own" /\ op' = op /\ alias' = alias /\ req' = req
            /\ op[h] = "update"
        BY <1>0, <3>2 DEF Disown, Goto, HandlerInv, Base, TypeOK, request
      <4>3. OwesOwners(h, r)'
        BY <3>1, <4>1, <4>2 DEF OwesOwners
      <4> QED
        BY <4>3
    <3>3. CASE Own(h)
      <4>1. owners' = owners \cup {[alias |-> r.alias, by |-> req[h]]}
        <5>1. {[alias |-> a, by |-> req[h]] : a \in {r.alias}} =
                {[alias |-> r.alias, by |-> req[h]]}
          OBVIOUS
        <5> QED
          BY <3>1, <3>3, <5>1 DEF Own
      <4>2. OwnersOf(r.alias)' = OwnersOf(r.alias) \cup {req[h]}
        <5>1. PICK o : o = [alias |-> r.alias, by |-> req[h]]
          OBVIOUS
        <5>2. o.alias = r.alias /\ o.by = req[h] /\ owners' = owners \cup {o}
          BY <4>1, <5>1
        <5>3. \A v : v \in OwnersOf(r.alias)' <=>
                        \E p \in owners' : p.alias = r.alias /\ p.by = v
          BY DEF OwnersOf
        <5>4. \A v : v \in OwnersOf(r.alias) <=>
                        \E p \in owners : p.alias = r.alias /\ p.by = v
          BY DEF OwnersOf
        <5>5. \A v : v \in OwnersOf(r.alias)' <=>
                        v \in OwnersOf(r.alias) \/ v = req[h]
          BY <5>2, <5>3, <5>4
        <5> QED
          BY <5>5
      <4>3. \/ op[h] = "add" /\ r.id = r.version
            \/ op[h] = "update"
        BY <1>0, <1>1, <3>1, <3>3 DEF Own, HandlerInv
      <4>4. op[h] = "update" => OwnersOf(r.alias) \in {{}, {req[h]}} \/ r.id = r.version
        BY <3>0, <3>1, <3>3 DEF Owned, OwesOwners, Own
      <4>5. Owned(r)'
        BY <3>1, <4>2, <4>3, <4>4 DEF Owned
      <4> QED
        BY <4>5
    <3> QED
      BY <3>2, <3>3
  <2> QED
    BY <2>2, <2>3
<1> QED
  BY <1>0, <1>3 DEF OwnersRight

\* A row that is written owes its owners.
LEMMA OwnersOfWritten ==
  ASSUME Core, OwnersRight, NEW h \in Handler,
         Create(h) \/ Update(h) \/ Delete(h), used.errors = 0
  PROVE  OwnersRight'
<1> USE DEF Core
<1>0. /\ pc[h] # "idle" /\ h \in Worker /\ HandlerInv(h) /\ owners' = owners
      /\ HandlerStep(h)
  BY HandlerAlone DEF HandlerStep, Create, Update, Delete
<1>1. ~ \E r : OwesOwners(h, r)
  BY DEF OwesOwners, Create, Update, Delete
<1>2. ASSUME NEW r \in rows, r.alias \in Job
      PROVE  Owned(r)' \/ \E i \in Handler : OwesOwners(i, r)'
  <2>1. Owned(r)' <=> Owned(r)
    BY <1>0 DEF Owned, OwnersOf
  <2>2. \A i \in Handler : OwesOwners(i, r) => OwesOwners(i, r)'
    BY <1>0, <1>1, OwesStays DEF OwnersOf
  <2> QED
    BY <1>2, <2>1, <2>2 DEF OwnersRight
<1>3. PICK a \in Alias : alias[h] = {a}
  BY <1>0 DEF HandlerInv
<1>4. CASE Create(h)
  <2>1. CASE rows' = rows
    BY <1>2, <2>1 DEF OwnersRight
  <2>2. CASE rows' # rows
    <3>0. PICK n : n = [id |-> req[h], alias |-> a, version |-> req[h],
                        author |-> author[h]]
      OBVIOUS
    <3>1. {[id |-> req[h], alias |-> b, version |-> req[h],
            author |-> author[h]] : b \in {a}} = {n}
      BY <3>0
    <3>2. /\ rows' = rows \cup {n}
          /\ AddConsul(h, alias[h])
          /\ UNCHANGED request
      BY <1>3, <1>4, <2>2, <3>1 DEF Create
    <3>3. ASSUME a \in Job PROVE OwesOwners(h, n)'
      <4>1. ~ ({a} \subseteq Group)
        BY <3>3, CatalogConstantsOK
      <4>2. pc'[h] = "put" /\ op'[h] = "add" /\ alias'[h] = {a} /\ req'[h] = req[h]
        BY <1>0, <1>3, <1>4, <3>2, <4>1
           DEF AddConsul, Goto, Base, TypeOK, request, Create, HandlerInv
      <4> QED
        BY <3>0, <4>2 DEF OwesOwners
    <3>4. n.alias = a
      BY <3>0
    <3> QED
      BY <1>2, <3>2, <3>3, <3>4 DEF OwnersRight
  <2> QED
    BY <2>1, <2>2
<1>5. CASE Update(h)
  <2>1. /\ pc'[h] = "put" /\ op'[h] = "update"
        /\ alias'[h] = alias[h] /\ req'[h] = req[h]
        /\ held[h] # NoEntry
    BY <1>0, <1>5, CatalogConstantsOK
       DEF Update, Goto, Base, TypeOK, request, HandlerInv, Holding
  <2>2. ASSUME NEW s \in rows', s.alias \in Job
        PROVE  Owned(s)' \/ \E i \in Handler : OwesOwners(i, s)'
    <3>1. PICK r \in rows : s = IF r.id = held[h].id
                                THEN [[r EXCEPT !.version = req[h]]
                                        EXCEPT !.author = author[h]]
                                ELSE r
      BY <1>5, Zenon DEF Update, NewVersion
    <3>2. CASE r.id # held[h].id
      <4>1. s = r
        BY <3>1, <3>2, Zenon
      <4> QED
        BY <1>2, <2>2, <4>1
    <3>3. CASE r.id = held[h].id
      <4> DEFINE n == [[r EXCEPT !.version = req[h]] EXCEPT !.author = author[h]]
      <4>1. n.alias = r.alias /\ n.version = req[h]
        BY DEF Base, TypeOK, Row
      <4>2. s = n
        BY <3>1, <3>3, Zenon
      <4> HIDE DEF n
      <4>3. alias[h] = {r.alias}
        BY <1>0, <2>1, <3>3, RowOfRequest
      <4>4. OwesOwners(h, s)'
        BY <2>1, <4>1, <4>2, <4>3 DEF OwesOwners
      <4> QED
        BY <4>4
    <3> QED
      BY <3>2, <3>3
  <2> QED
    BY <2>2 DEF OwnersRight
<1>6. CASE Delete(h)
  BY <1>2, <1>6 DEF Delete, OwnersRight
<1> QED
  BY <1>4, <1>5, <1>6

\* With nobody at work on the keys of another and no errors owners follow rows.
LEMMA OwnersStep ==
  ASSUME Core, OwnersRight, MaxSame = 1, [Next]_vars
  PROVE  OwnersRight'
<1> SUFFICES ASSUME used'.errors = 0 PROVE OwnersRight'
  BY DEF OwnersRight
<1>0. used.errors = 0 /\ ~ Use("errors", MaxErrors) /\ Base
  BY NoErrorYet DEF Core
<1>1. CASE UNCHANGED vars \/ Unauthorized
  <2>1. UNCHANGED <<stores, workers, used>>
    BY <1>1 DEF vars, Unauthorized
  <2> QED
    BY <2>1 DEF OwnersRight, Owned, OwesOwners, OwnersOf, stores, workers, request
<1>2. ASSUME NEW h \in Handler, HandlerStep(h) \/ WorkerStep(h)
      PROVE  OwnersRight'
  BY <1>0, <1>2, OwnersSame, OwnersWritten, OwnersOfWritten
     DEF HandlerStep, WritesNoRow
<1>3. CASE LoadStep \/ WorkerStep(Loader)
  <2>1. /\ rows' = rows /\ owners' = owners
        /\ \A h \in Handler : /\ pc'[h] = pc[h] /\ op'[h] = op[h]
                              /\ alias'[h] = alias[h] /\ req'[h] = req[h]
    <3>1. Loader \in Worker /\ Loader \notin Handler
      BY CatalogConstantsOK DEF Worker
    <3>2. Others(Loader)
      BY <1>0, <1>3, <3>1, LoadBase, WorkerBase
    <3>3. rows' = rows /\ owners' = owners
      BY <1>3 DEF LoadStep, Load, DropList, ListKeys, ClearKey, Cleared, GetPage,
         PutRow, PageDone, LoadFails, WorkerStep, ListGet, ListPut, Put,
         IgnoredFailure, stores
    <3> QED
      BY <3>1, <3>2, <3>3 DEF Others, Worker
  <2>2. \A h \in Handler, r \in rows : OwesOwners(h, r) => OwesOwners(h, r)'
    BY <2>1 DEF OwesOwners, OwnersOf
  <2> QED
    BY <1>0, <2>1, <2>2 DEF OwnersRight, Owned, OwnersOf
<1>4. ASSUME NEW h \in Handler, NEW k \in {"add", "update", "del"},
             NEW a \in Alias, Begin(h, k, a)
      PROVE  OwnersRight'
  <2>1. rows' = rows /\ owners' = owners /\ pc[h] = "idle" /\ Others(h)
    BY <1>0, <1>4, BeginBase DEF Begin, stores
  <2>2. \A i \in Handler, r \in rows : OwesOwners(i, r) => i \in Worker \ {h}
    BY <2>1 DEF OwesOwners, Worker
  <2>3. \A i \in Handler, r \in rows : OwesOwners(i, r) => OwesOwners(i, r)'
    BY <2>1, <2>2 DEF OwesOwners, OwnersOf, Others
  <2> QED
    BY <1>0, <2>1, <2>3 DEF OwnersRight, Owned, OwnersOf
<1> QED
  BY <1>1, <1>2, <1>3, <1>4 DEF Next, Worker

-----------------------------------------------------------------------------
(***************************************************************************)
(* The pages of a table.                                                   *)
(***************************************************************************)
\* A set of numbers has a least one, and a bounded one a greatest.
LEMMA LeastNumber ==
  ASSUME NEW T \in SUBSET Nat, T # {}
  PROVE  \E m \in T : \A k \in T : m <= k
<1>1. PICK m \in T : \A k \in T : ~ (<<k, m>> \in OpToRel(<, Nat))
  BY WFMin, NatLessThanWellFounded, Zenon
<1>2. \A k \in T : ~ (k < m)
  BY <1>1 DEF OpToRel
<1> QED
  BY <1>2

LEMMA GreatestNumber ==
  ASSUME NEW n \in Nat, NEW T \in SUBSET (0..n), T # {}
  PROVE  \E m \in T : \A k \in T : k <= m
<1> DEFINE S == {n - k : k \in T}
<1>0. S \in SUBSET Nat /\ S # {}
  <2>1. \A k \in T : n - k \in Nat
    OBVIOUS
  <2>2. PICK k \in T : TRUE
    OBVIOUS
  <2>3. n - k \in S
    OBVIOUS
  <2> QED
    BY <2>1, <2>3
<1>1. PICK d \in S : \A e \in S : d <= e
  <2> HIDE DEF S
  <2> QED
    BY <1>0, LeastNumber
<1>2. PICK m \in T : d = n - m
  OBVIOUS
<1>3. \A k \in T : n - m <= n - k
  BY <1>1, <1>2
<1> QED
  BY <1>3

\* The rows before r in its table.
InTable == {s \in rows : s.alias \in table}
Above(r) == {s \in InTable : s.id > r.id}

\* Rows have numbers of their own, so there are finitely many.
LEMMA RanksAreNumbers ==
  ASSUME Core
  PROVE  /\ IsFiniteSet(rows) /\ IsFiniteSet(InTable)
         /\ \A r \in rows : r.id \in 1..MaxRequests
         /\ \A r : Rank(r) = Cardinality(Above(r)) /\ Rank(r) \in Nat
<1>1. \A r \in rows : r.id \in 1..MaxRequests
  BY DEF Core, Base, TypeOK, Row, Request
<1>2. [r \in rows |-> r.id] \in Injection(rows, 1..MaxRequests)
  BY <1>1 DEF Injection, IsInjective, Core, Numbered
<1>3. IsFiniteSet(1..MaxRequests)
  BY FS_Interval, CatalogConstantsOK
<1>4. IsFiniteSet(rows)
  BY <1>2, <1>3, FS_Injection
<1>5. IsFiniteSet(InTable)
  BY <1>4, FS_Subset DEF InTable
<1>6. ASSUME NEW r PROVE Rank(r) = Cardinality(Above(r)) /\ Rank(r) \in Nat
  <2>1. Above(r) = {s \in rows : s.alias \in table /\ s.id > r.id}
    BY DEF Above, InTable
  <2>2. Cardinality(Above(r)) \in Nat
    <3>1. Above(r) \in SUBSET InTable
      BY DEF Above
    <3>2. IsFiniteSet(Above(r))
      BY <1>5, <3>1, FS_Subset
    <3> QED
      BY <3>2, FS_CardinalityType
  <2> QED
    BY <2>1, <2>2 DEF Rank
<1> QED
  BY <1>1, <1>4, <1>5, <1>6

LEMMA RankTyped ==
  ASSUME Core, NEW T, NEW r
  PROVE  Cardinality({s \in rows : s.alias \in T /\ s.id > r.id}) \in Nat
<1> DEFINE S == {s \in rows : s.alias \in T /\ s.id > r.id}
<1>1. S \in SUBSET rows
  OBVIOUS
<1>2. IsFiniteSet(S)
  BY <1>1, RanksAreNumbers, FS_Subset
<1> QED
  BY <1>2, FS_CardinalityType

\* No rank is left out: a table that has a row of rank n or more has one of
\* rank n.  So a table goes on where a page of it is not empty.
LEMMA RanksAreDense ==
  ASSUME Core, NEW n \in Nat, NEW r \in InTable, Rank(r) >= n
  PROVE  \E s \in InTable : Rank(s) = n
<1>0. /\ MaxRequests \in Nat
      /\ \A s \in InTable : s.id \in 1..MaxRequests
      /\ \A s, t \in InTable : s.id = t.id => s = t
      /\ \A s : Rank(s) = Cardinality(Above(s)) /\ Rank(s) \in Nat
  BY RanksAreNumbers, CatalogConstantsOK DEF InTable, Core, Numbered
<1>1. PICK s \in InTable :
        /\ Rank(s) >= n
        /\ \A t \in InTable : Rank(t) >= n => t.id <= s.id
  <2> DEFINE T == {t.id : t \in {u \in InTable : Rank(u) >= n}}
  <2>1. T \in SUBSET (0..MaxRequests) /\ T # {}
    BY <1>0
  <2>2. PICK m \in T : \A k \in T : k <= m
    BY <1>0, <2>1, GreatestNumber
  <2>3. PICK s \in {u \in InTable : Rank(u) >= n} : s.id = m
    BY <2>2
  <2> QED
    BY <2>2, <2>3
<1>2. CASE Above(s) = {}
  <2>1. Rank(s) = 0
    BY <1>0, <1>2, FS_EmptySet
  <2> QED
    BY <1>1, <2>1
<1>3. CASE Above(s) # {}
  <2>1. PICK t \in Above(s) : \A u \in Above(s) : t.id <= u.id
    <3> DEFINE T == {u.id : u \in Above(s)}
    <3>1. T \in SUBSET Nat /\ T # {}
      BY <1>0, <1>3 DEF Above
    <3>2. PICK m \in T : \A k \in T : m <= k
      BY <3>1, LeastNumber
    <3> QED
      BY <3>2
  <2>2. t \in InTable /\ t.id > s.id
    BY <2>1 DEF Above
  <2>3. Above(s) = Above(t) \cup {t}
    <3>1. ASSUME NEW u \in Above(s) PROVE u \in Above(t) \cup {t}
      <4>1. u \in InTable /\ t.id <= u.id
        BY <2>1 DEF Above
      <4> QED
        BY <1>0, <2>2, <4>1 DEF Above
    <3>2. ASSUME NEW u \in Above(t) PROVE u \in Above(s)
      <4>1. u \in InTable /\ u.id > t.id
        BY DEF Above
      <4> QED
        BY <1>0, <2>2, <4>1 DEF Above
    <3> QED
      BY <2>1, <3>1, <3>2
  <2>4. t \notin Above(t) /\ IsFiniteSet(Above(t))
    <3>1. Above(t) \in SUBSET InTable
      BY DEF Above
    <3>2. t \notin Above(t)
      BY <1>0, <2>2 DEF Above
    <3> QED
      BY <3>1, <3>2, RanksAreNumbers, FS_Subset
  <2>5. Rank(s) = Rank(t) + 1
    BY <1>0, <2>3, <2>4, FS_AddElement
  <2>6. ~ (Rank(t) >= n)
    BY <1>0, <1>1, <2>2
  <2>7. Rank(s) = n
    BY <1>0, <1>1, <2>5, <2>6
  <2> QED
    BY <1>1, <2>7
<1> QED
  BY <1>2, <1>3

-----------------------------------------------------------------------------
(***************************************************************************)
(* The rows, the entries and the list of groups.                           *)
(***************************************************************************)
\* What the invariant says of the request h for the alias a,
Around(h, a) ==
    /\ Ahead(h) => AheadRight(h, a)
    /\ ~ Ahead(h) => Matches(a)
    /\ pc[h] = "listput" => seen[h] = list

\* and that a step leaves the other aliases as they are.
Apart(a) ==
    /\ \A b \in Alias \ {a} : /\ Content(b)' = Content(b)
                              /\ kv'[b] = kv[b]
                              /\ b \in list' <=> b \in list
    /\ list' = list \/ a \in Group

\* It is so before a step of the request,
LEMMA AroundBefore ==
  ASSUME Core, RequestRight, NEW h \in Handler, NEW a \in Alias, alias[h] = {a}
  PROVE  Around(h, a)
<1>1. \A i \in Handler : alias[i] = {a} => i = h
  BY DEF Core, Alone, SameKey
<1>2. \/ Matches(a) /\ \A i \in Handler : a \in alias[i] => ~ Ahead(i)
      \/ \E i \in Handler : alias[i] = {a} /\ Ahead(i) /\ AheadRight(i, a)
  BY DEF RequestRight
<1>3. a \in alias[h]
  OBVIOUS
<1>4. ASSUME Ahead(h) PROVE AheadRight(h, a)
  <2>1. PICK i \in Handler : alias[i] = {a} /\ Ahead(i) /\ AheadRight(i, a)
    BY <1>2, <1>3, <1>4
  <2>2. i = h
    BY <1>1, <2>1
  <2> QED
    BY <2>1, <2>2
<1>5. ASSUME ~ Ahead(h) PROVE Matches(a)
  BY <1>1, <1>2, <1>5
<1>6. pc[h] = "listput" => seen[h] = list
  BY DEF RequestRight
<1> QED
  BY <1>4, <1>5, <1>6 DEF Around

\* and when it is so after it, all are right.
LEMMA AroundAfter ==
  ASSUME Core, RequestRight, NEW h \in Handler, NEW a \in Alias, alias[h] = {a},
         HandlerStep(h) \/ WorkerStep(h), Apart(a),
         Around(h, a)', pc'[h] = "idle" \/ alias'[h] = {a}
  PROVE  RequestRight'
<1> USE DEF Core
<1>1. /\ pc[h] # "idle"
      /\ \A i \in Handler \ {h} :
            /\ a \notin alias[i] /\ i \in Worker
            /\ pc'[i] = pc[i] /\ op'[i] = op[i] /\ alias'[i] = alias[i]
            /\ req'[i] = req[i] /\ held'[i] = held[i] /\ seen'[i] = seen[i]
  BY HandlerAlone
<1>2. /\ \A i \in Handler \ {h} : Ahead(i)' <=> Ahead(i)
      /\ Ahead(h)' => alias'[h] = {a}
  BY <1>1 DEF Ahead
<1>3. ASSUME NEW i \in Handler, pc'[i] = "listput" PROVE seen'[i] = list'
  <2>1. CASE i = h
    BY <1>3, <2>1 DEF Around
  <2>2. CASE i # h
    <3>1. pc[i] = "listput" /\ seen[i] = list
      BY <1>1, <1>3, <2>2 DEF RequestRight
    <3>2. PICK b \in Group : b \in alias[i]
      BY <3>1 DEF Base, Places, HandlerInv
    <3>3. a \notin Group
      BY <1>1, <2>2, <3>2, AtWork
    <3> QED
      BY <1>1, <2>2, <3>1, <3>3 DEF Apart
  <2> QED
    BY <2>1, <2>2
<1>4. ASSUME NEW b \in Alias
      PROVE  \/ Matches(b)' /\ \A i \in Handler : b \in alias'[i] => ~ Ahead(i)'
             \/ \E i \in Handler : alias'[i] = {b} /\ Ahead(i)' /\ AheadRight(i, b)'
  <2>1. CASE b = a /\ Ahead(h)'
    BY <1>2, <2>1 DEF Around
  <2>2. CASE b = a /\ ~ Ahead(h)'
    BY <1>1, <2>2 DEF Around
  <2>3. CASE b # a
    <3>1. Content(b)' = Content(b) /\ kv'[b] = kv[b] /\ (b \in list' <=> b \in list)
      BY <2>3 DEF Apart
    <3>2. Matches(b) => Matches(b)'
      BY <3>1 DEF Matches
    <3>3. \A i \in Handler \ {h} : AheadRight(i, b) => AheadRight(i, b)'
      BY <1>1, <3>1 DEF AheadRight, Listed
    <3>4. \A i \in Handler : b \in alias'[i] /\ Ahead(i)' =>
                i # h /\ b \in alias[i] /\ Ahead(i)
      BY <1>1, <1>2, <2>3
    <3>5. \A i \in Handler : alias[i] = {b} => i # h
      BY <2>3
    <3>6. CASE Matches(b) /\ \A i \in Handler : b \in alias[i] => ~ Ahead(i)
      BY <3>2, <3>4, <3>6
    <3>7. ASSUME NEW i \in Handler, alias[i] = {b}, Ahead(i), AheadRight(i, b)
          PROVE  alias'[i] = {b} /\ Ahead(i)' /\ AheadRight(i, b)'
      BY <1>1, <1>2, <3>3, <3>5, <3>7
    <3> QED
      BY <3>6, <3>7 DEF RequestRight
  <2> QED
    BY <2>1, <2>2, <2>3
<1> QED
  BY <1>3, <1>4 DEF RequestRight

\* What is read off rows.
LEMMA ContentOf ==
  ASSUME Core
  PROVE  /\ \A a \in Alias : Content(a) = {} <=> \A r \in rows : r.alias # a
         /\ \A a \in Alias, r \in rows : r.alias = a =>
                Content(a) = {[id |-> r.id, version |-> r.version]}
<1>1. ASSUME NEW a \in Alias, NEW r \in rows, r.alias = a
      PROVE  Content(a) = {[id |-> r.id, version |-> r.version]}
  <2>1. \A s \in rows : s.alias = a => s = r
    BY <1>1 DEF Core, Numbered
  <2>2. Stored(a) = {r}
    BY <1>1, <2>1 DEF Stored
  <2> QED
    BY <2>2 DEF Content
<1>2. ASSUME NEW a \in Alias, \A r \in rows : r.alias # a
      PROVE  Content(a) = {}
  BY <1>2 DEF Content, Stored
<1> QED
  BY <1>1, <1>2

\* The steps of a request that write no store.
LEMMA StoresSame ==
  ASSUME Core, NEW h \in Handler, NEW a \in Alias, alias[h] = {a}, Around(h, a),
         User(h) \/ Exists(h) \/ GetByAlias(h) \/ Disown(h) \/ Own(h)
            \/ Active(h) \/ ListGet(h) \/ (Create(h) /\ IsGroup(h) /\ Taken(h))
  PROVE  Around(h, a)' /\ Apart(a)
<1> USE DEF Core
<1>0. h \in Worker /\ HandlerInv(h)
  BY DEF Worker, Base, Places
<1>1. UNCHANGED <<rows, kv, list>>
  BY DEF User, Exists, GetByAlias, Disown, Own, Active, ListGet, Create,
     Answered, AddConsul, Goto, stores
<1>2. (Matches(a)' <=> Matches(a)) /\ Apart(a)
  BY <1>1 DEF Matches, Content, Stored, Apart
<1>3. CASE ~ ListGet(h)
  <2>1. pc[h] \in {"user", "exists", "get", "disown", "own", "active", "create"}
    BY <1>3 DEF User, Exists, GetByAlias, Disown, Own, Active, Create
  <2>2. pc'[h] \in {"exists", "update", "create", "idle", "user", "active",
                    "delkey", "own"}
    BY <1>0, <1>3, AnsweredTyped
       DEF User, Exists, GetByAlias, Disown, Own, Active, Create, Goto, Base,
           TypeOK, FirstDeleted
  <2>3. ~ Ahead(h) /\ ~ Ahead(h)'
    BY <2>1, <2>2 DEF Ahead
  <2> QED
    BY <1>2, <2>1, <2>2, <2>3 DEF Around
<1>4. CASE ListGet(h)
  <2>1. /\ pc[h] = "listget" /\ op[h] \in {"add", "del"}
        /\ op' = op /\ alias' = alias /\ held' = held
        /\ a \in Group
    BY <1>0, <1>4 DEF ListGet, HandlerInv, request
  <2>2. Ahead(h) /\ AheadRight(h, a)
    BY <2>1 DEF Ahead, Around
  <2>3. \/ pc'[h] = "put" /\ op[h] = "add" /\ a \in list
        \/ pc'[h] = "listput" /\ seen'[h] = list
    BY <1>0, <1>4, <2>1 DEF ListGet, Goto, Base, TypeOK
  <2>4. Ahead(h)'
    BY <2>1, <2>3 DEF Ahead
  <2>5. Listed(h)' <=> a \in list
    <3>1. Listed(h) <=> a \in list
      BY <2>1, <2>2 DEF AheadRight, Listed
    <3>2. CASE pc'[h] = "put" /\ op[h] = "add" /\ a \in list
      BY <2>1, <3>2 DEF Listed
    <3>3. CASE pc'[h] = "listput"
      BY <2>1, <3>1, <3>3 DEF Listed
    <3> QED
      BY <2>3, <3>2, <3>3
  <2>6. AheadRight(h, a)'
    BY <1>1, <2>1, <2>2, <2>5 DEF AheadRight, Content, Stored
  <2> QED
    BY <1>1, <1>2, <2>3, <2>4, <2>6 DEF Around
<1> QED
  BY <1>3, <1>4

\* The steps that write the KV store.
LEMMA StoresPut ==
  ASSUME Core, NEW h \in Handler, NEW a \in Alias, alias[h] = {a}, Around(h, a),
         Put(h) \/ KvDel(h) \/ ListPut(h)
  PROVE  Around(h, a)' /\ Apart(a)
<1> USE DEF Core
<1>0. h \in Worker /\ HandlerInv(h)
  BY DEF Worker, Base, Places
<1>1. /\ rows' = rows /\ \A b : Content(b)' = Content(b)
      /\ held[h] # NoEntry
  BY <1>0, CatalogConstantsOK
     DEF Put, KvDel, ListPut, Content, Stored, HandlerInv, Holding
<1>2. CASE Put(h)
  <2>1. /\ kv' = [b \in Alias |-> IF b \in alias[h] THEN held[h] ELSE kv[b]]
        /\ list' = list /\ pc[h] = "put" /\ op[h] \in {"add", "update"}
    BY <1>0, <1>2 DEF Put, HandlerInv
  <2>2. pc'[h] \in {"idle", "disown", "own"}
        /\ (pc'[h] = "own" => op'[h] = "add")
    BY <1>0, <1>2, <2>1, AnsweredTyped DEF Put, Goto, Base, TypeOK, request
  <2>3. Ahead(h) /\ ~ Ahead(h)' /\ AheadRight(h, a)
    BY <2>1, <2>2 DEF Ahead, Around
  <2>4. Matches(a)'
    <3>1. kv'[a] = held[h] /\ Content(a)' = {held[h]}
      BY <1>1, <2>1, <2>3 DEF AheadRight
    <3>2. {held[h]} = {held[h]} \ {NoEntry}
      BY <1>1
    <3>3. a \in Group => a \in list
      BY <2>1, <2>3 DEF AheadRight, Listed
    <3> QED
      <4>1. Content(a)' = {kv'[a]} \ {NoEntry}
        BY <3>1, <3>2
      <4>2. a \in Group => a \in list' /\ kv'[a] # NoEntry
        BY <1>1, <2>1, <3>1, <3>3
      <4> QED
        BY <4>1, <4>2 DEF Matches
  <2>5. Apart(a)
    BY <1>1, <2>1 DEF Apart
  <2> QED
    BY <2>2, <2>3, <2>4, <2>5 DEF Around
<1>3. CASE KvDel(h)
  <2>1. /\ kv' = [b \in Alias |-> IF b \in alias[h] THEN NoEntry ELSE kv[b]]
        /\ list' = list /\ pc[h] = "delkey" /\ op[h] = "del" /\ op' = op
        /\ pc'[h] = IF IsGroup(h) THEN "listget" ELSE "delrow"
    BY <1>0, <1>3 DEF KvDel, AfterDelete, FirstDeleted, HandlerInv, Goto, Base,
       TypeOK, request
  <2>2. ~ Ahead(h) /\ Matches(a) /\ Ahead(h)'
    BY <2>1 DEF Ahead, Around
  <2>3. kv[a] # NoEntry
    <3>1. Content(a) # {}
      BY <1>0, <1>1, ContentOf DEF EntriesHaveRows, HasRow
    <3> QED
      BY <2>2, <3>1 DEF Matches
  <2>4. a \in Group => a \in list /\ pc'[h] = "listget"
    BY <2>1, <2>2, <2>3 DEF Matches, IsGroup
  <2>5. AheadRight(h, a)'
    <3>1. kv'[a] = NoEntry /\ op'[h] = "del"
      BY <2>1
    <3> QED
      <4>1. a \in Group => a \in list' /\ pc'[h] = "listget"
        BY <2>1, <2>4
      <4> QED
        BY <3>1, <4>1 DEF AheadRight, Listed
  <2>6. Apart(a)
    BY <1>1, <2>1 DEF Apart
  <2> QED
    BY <2>1, <2>2, <2>5, <2>6 DEF Around
<1>4. CASE ListPut(h)
  <2>1. /\ pc[h] = "listput" /\ op[h] \in {"add", "del"}
        /\ op' = op /\ alias' = alias /\ held' = held /\ kv' = kv
        /\ list' = IF op[h] = "del" THEN list \ {a} ELSE list \cup {a}
        /\ pc'[h] = IF op[h] = "del" THEN "delrow" ELSE "put"
        /\ a \in Group
    BY <1>0, <1>4 DEF ListPut, AfterList, Around, HandlerInv, Goto, Base,
       TypeOK, request
  <2>2. Ahead(h) /\ AheadRight(h, a) /\ Ahead(h)'
    BY <2>1 DEF Ahead, Around
  <2>3. Listed(h)' <=> a \in list'
    BY <2>1 DEF Listed
  <2>4. AheadRight(h, a)'
    BY <1>1, <2>1, <2>2, <2>3 DEF AheadRight
  <2>5. Apart(a)
    BY <1>1, <2>1 DEF Apart
  <2> QED
    BY <2>1, <2>2, <2>4, <2>5 DEF Around
<1> QED
  BY <1>2, <1>3, <1>4

\* The steps that write rows.
LEMMA StoresWritten ==
  ASSUME Core, NEW h \in Handler, NEW a \in Alias, alias[h] = {a}, Around(h, a),
         Create(h) \/ Update(h) \/ Delete(h), ~ Taken(h) \/ ~ Create(h)
  PROVE  Around(h, a)' /\ Apart(a)
<1> USE DEF Core
<1>0. h \in Worker /\ HandlerInv(h) /\ pc[h] # "idle" /\ UNCHANGED <<kv, list>>
  BY DEF Worker, Base, Places, Create, Update, Delete
<1>1. CASE Create(h)
  <2>0. PICK n : n = [id |-> req[h], alias |-> a, version |-> req[h],
                      author |-> author[h]]
    OBVIOUS
  <2>1. {[id |-> req[h], alias |-> b, version |-> req[h],
          author |-> author[h]] : b \in {a}} = {n}
    BY <2>0
  <2>2. /\ rows' = rows \cup {n}
        /\ held' = [held EXCEPT ![h] = [id |-> req[h], version |-> req[h]]]
        /\ AddConsul(h, alias[h])
        /\ UNCHANGED <<request, seen>>
        /\ pc[h] = "create"
    BY <1>1, <2>1 DEF Create
  <2>3. /\ held'[h] = [id |-> req[h], version |-> req[h]]
        /\ op'[h] = "add"
        /\ pc'[h] = IF a \in Group THEN "listget" ELSE "put"
    BY <1>0, <2>2 DEF AddConsul, Goto, HandlerInv, Base, TypeOK, request
  <2>4. \A r \in rows : r.alias # a
    BY <1>1 DEF Taken
  <2>5. ~ Ahead(h) /\ Matches(a) /\ Ahead(h)'
    BY <2>2, <2>3 DEF Ahead, Around
  <2>6. kv[a] = NoEntry
    <3>1. Content(a) = {}
      BY <2>4, ContentOf
    <3> QED
      BY <2>5, <3>1 DEF Matches
  <2>7. Content(a)' = {held'[h]}
    <3>1. n.alias = a /\ [id |-> n.id, version |-> n.version] = held'[h]
      BY <2>0, <2>3
    <3>2. {r \in rows' : r.alias = a} = {n}
      BY <2>2, <2>4, <3>1
    <3> QED
      BY <3>1, <3>2 DEF Content, Stored
  <2>8. AheadRight(h, a)'
    <3>1. kv'[a] = NoEntry /\ (a \in Group => a \notin list' /\ pc'[h] = "listget")
      BY <1>0, <2>3, <2>5, <2>6 DEF Matches
    <3> QED
      BY <2>3, <2>7, <3>1 DEF AheadRight, Listed
  <2>9. ASSUME NEW b \in Alias \ {a} PROVE Content(b)' = Content(b)
    <3>1. {r \in rows' : r.alias = b} = {r \in rows : r.alias = b}
      BY <2>0, <2>2
    <3> QED
      BY <3>1 DEF Content, Stored
  <2> QED
    BY <1>0, <2>3, <2>5, <2>8, <2>9 DEF Around, Apart
<1>2. CASE Update(h)
  <2>1. /\ pc'[h] = "put" /\ op'[h] = "update" /\ op[h] = "update"
        /\ pc[h] = "update"
        /\ held[h] \in Entry /\ held[h] # NoEntry
        /\ held'[h] = [held[h] EXCEPT !.version = req[h]]
    BY <1>0, <1>2, CatalogConstantsOK
       DEF Update, NewVersion, Goto, Base, TypeOK, request, HandlerInv, Holding
  <2>2. PICK r \in rows : r.alias = a /\ r.id = held[h].id
    BY <1>0, <2>1 DEF EntriesHaveRows, HasRow
  <2>3. PICK n : n = [[r EXCEPT !.version = req[h]] EXCEPT !.author = author[h]]
    OBVIOUS
  <2>4. /\ n.alias = a
        /\ [id |-> n.id, version |-> n.version] = held'[h]
    <3>1. n.id = held[h].id /\ n.alias = a /\ n.version = req[h]
      BY <2>2, <2>3 DEF Base, TypeOK, Row
    <3>2. held'[h] = [id |-> held[h].id, version |-> req[h]]
      BY <2>1 DEF Entry
    <3> QED
      BY <3>1, <3>2
  <2>5. \A s \in rows : s.id = held[h].id => s = r
    BY <2>2 DEF Numbered
  <2>6. rows' = (rows \ {r}) \cup {n}
    <3> DEFINE new(s) == IF s.id = held[h].id
                         THEN [[s EXCEPT !.version = req[h]]
                                 EXCEPT !.author = author[h]]
                         ELSE s
               after(s) == IF s = r THEN n ELSE s
    <3>1. rows' = {new(s) : s \in rows}
      BY <1>2, Zenon DEF Update, NewVersion
    <3>2. ASSUME NEW s \in rows PROVE new(s) = after(s)
      <4>1. s.id = held[h].id <=> s = r
        BY <2>2, <2>5
      <4> QED
        BY <2>3, <4>1, Zenon
    <3>3. rows' = {after(s) : s \in rows}
      <4> HIDE DEF new, after
      <4> QED
        BY <3>1, <3>2
    <3>4. r \in rows
      BY <2>2
    <3>5. ASSUME NEW x
          PROVE  x \in rows' <=> (x \in rows /\ x # r) \/ x = n
      BY <3>3, <3>4
    <3> QED
      BY <3>5
  <2>7. \A s \in rows : s.alias = a => s = r
    BY <2>2 DEF Numbered
  <2>8. Content(a)' = {held'[h]}
    <3>1. {s \in rows' : s.alias = a} = {n}
      BY <2>4, <2>6, <2>7
    <3> QED
      BY <2>4, <3>1 DEF Content, Stored
  <2>9. ~ Ahead(h) /\ Matches(a) /\ Ahead(h)'
    BY <2>1 DEF Ahead, Around
  <2>10. kv[a] # NoEntry
    <3>1. Content(a) # {}
      BY <2>2, ContentOf
    <3> QED
      BY <2>9, <3>1 DEF Matches
  <2>11. AheadRight(h, a)'
    <3>1. kv'[a] # NoEntry /\ (a \in Group => a \in list')
      BY <1>0, <2>9, <2>10 DEF Matches
    <3> QED
      BY <2>1, <2>8, <3>1 DEF AheadRight, Listed
  <2>12. ASSUME NEW b \in Alias \ {a} PROVE Content(b)' = Content(b)
    <3>1. {s \in rows' : s.alias = b} = {s \in rows : s.alias = b}
      BY <2>2, <2>4, <2>6
    <3> QED
      BY <3>1 DEF Content, Stored
  <2> QED
    BY <1>0, <2>1, <2>9, <2>11, <2>12 DEF Around, Apart
<1>3. CASE Delete(h)
  <2>1. /\ rows' = {r \in rows : r.id # held[h].id}
        /\ Answered(h) /\ pc[h] = "delrow" /\ op[h] = "del"
        /\ pc'[h] = "idle" /\ op'[h] = "none"
        /\ held[h] # NoEntry
    BY <1>0, <1>3, AnsweredTyped, CatalogConstantsOK
       DEF Delete, AfterDelete, FirstDeleted, Base, HandlerInv, Holding
  <2>2. Ahead(h) /\ AheadRight(h, a) /\ ~ Ahead(h)'
    BY <2>1 DEF Ahead, Around
  <2>3. \A r \in rows : r.alias = a <=> r.id = held[h].id
    BY <1>0, <2>1, RowOfRequest
  <2>4. Matches(a)'
    <3>1. {r \in rows' : r.alias = a} = {}
      BY <2>1, <2>3
    <3>2. Content(a)' = {}
      BY <3>1 DEF Content, Stored
    <3>3. kv'[a] = NoEntry /\ (a \in Group => a \notin list')
      BY <1>0, <2>1, <2>2 DEF AheadRight, Listed
    <3> QED
      BY <3>2, <3>3 DEF Matches
  <2>5. ASSUME NEW b \in Alias \ {a} PROVE Content(b)' = Content(b)
    <3>1. {r \in rows' : r.alias = b} = {r \in rows : r.alias = b}
      BY <2>1, <2>3
    <3> QED
      BY <3>1 DEF Content, Stored
  <2> QED
    BY <1>0, <2>1, <2>2, <2>4, <2>5 DEF Around, Apart
<1> QED
  BY <1>1, <1>2, <1>3

-----------------------------------------------------------------------------
(***************************************************************************)
(* The stores while loaddata rebuilds them.                                *)
(***************************************************************************)
\* A page ends where the next begins.
LEMMA PageEdges ==
  ASSUME NEW p \in Nat \ {0}, NEW k \in Nat \ {0}
  PROVE  /\ p * k \in Nat /\ p * (k - 1) \in Nat
         /\ p * k = p * (k - 1) + p
  OBVIOUS

\* Loads wipe the groups and then the jobs.
LEMMA WipeStep ==
  ASSUME Core, Wiped, page \in Nat \ {0},
         DropList \/ ListKeys \/ ClearKey \/ (Cleared /\ table = Group)
  PROVE  Wiped' /\ Filled'
<1> USE DEF Core
<1>1. CASE DropList
  BY <1>1 DEF DropList, Wiped, Filled
<1>2. CASE ListKeys
  <2>1. /\ load = "list" /\ load' = "clear"
        /\ keys' = {a \in table : kv[a] # NoEntry}
        /\ UNCHANGED <<kv, list, table>>
    BY <1>2 DEF ListKeys, stores
  <2> QED
    BY <2>1 DEF Wiped, Filled
<1>3. CASE ClearKey
  <2>1. PICK a \in keys :
            kv' = [kv EXCEPT ![a] = NoEntry] /\ keys' = keys \ {a}
    BY <1>3 DEF ClearKey
  <2>2. load = "clear" /\ UNCHANGED <<load, list, table>>
    BY <1>3 DEF ClearKey
  <2>3. \A b \in Alias : kv'[b] = IF b = a THEN NoEntry ELSE kv[b]
    BY <2>1 DEF Base, TypeOK
  <2>4. Group \subseteq Alias /\ table \subseteq Alias
    BY DEF Base, TypeOK, Alias
  <2> QED
    BY <2>1, <2>2, <2>3, <2>4 DEF Wiped, Filled
<1>4. CASE Cleared /\ table = Group
  <2>1. /\ load = "clear" /\ keys = {} /\ load' = "list" /\ table' = Job
        /\ UNCHANGED <<kv, list>>
    BY <1>4 DEF Cleared, stores
  <2> QED
    BY <1>4, <2>1 DEF Wiped, Filled
<1> QED
  BY <1>1, <1>2, <1>3, <1>4

\* When nothing is left, everything is yet to be stored.
LEMMA FillBegins ==
  ASSUME Core, Wiped, Cleared, table # Group
  PROVE  Wiped' /\ Filled'
<1> USE DEF Core
<1>1. /\ load = "clear" /\ keys = {} /\ load' = "page" /\ table' = Group
      /\ page' = 1 /\ table = Job
      /\ UNCHANGED <<rows, kv, list, pc, alias, batch>>
  BY DEF Cleared, stores, workers, request, Base, TypeOK
<1>2. pc[Loader] = "idle" /\ batch = {}
  BY <1>1 DEF Base, Places, LoaderInv
<1>3. \A a \in Alias : kv[a] = NoEntry /\ a \notin list
  BY <1>1 DEF Wiped, Alias
<1>4. \A r \in rows : r \in Pending'
  <2> SUFFICES ASSUME NEW r \in rows PROVE r \in Pending'
    OBVIOUS
  <2>1. r.alias \in Job \/ r.alias \in Group
    BY DEF Base, TypeOK, Row, Alias
  <2>2. Rank(r)' >= PageSize * (page' - 1)
    <3>1. Rank(r)' = Cardinality({t \in rows : t.alias \in Group /\ t.id > r.id})
      BY <1>1 DEF Rank
    <3>2. Cardinality({t \in rows : t.alias \in Group /\ t.id > r.id}) \in Nat
      BY RankTyped
    <3>3. PageSize * (page' - 1) = 0
      BY <1>1, CatalogConstantsOK
    <3> QED
      BY <3>1, <3>2, <3>3
  <2> QED
    BY <1>1, <2>1, <2>2 DEF Pending, Through
<1>5. ASSUME NEW a \in Alias
      PROVE  IF \E r \in Pending' : r.alias = a THEN Blank(a)' ELSE Matches(a)'
  <2>1. Blank(a)'
    BY <1>1, <1>3 DEF Blank
  <2>2. CASE \E r \in rows : r.alias = a
    BY <1>4, <2>1, <2>2
  <2>3. CASE \A r \in rows : r.alias # a
    <3>1. Content(a)' = {}
      BY <1>1, <2>3 DEF Content, Stored
    <3> QED
      BY <2>1, <3>1 DEF Blank, Matches
  <2> QED
    BY <2>2, <2>3
<1> QED
  BY <1>1, <1>2, <1>5 DEF Wiped, Filled

\* Reading a page and passing one leave to store what was left.
LEMMA FilledSame ==
  ASSUME Filled, load \in {"page", "put"},
         UNCHANGED <<rows, kv, list, pc, alias, held, seen>>,
         \A r : r \in Pending' <=> r \in Pending,
         \A r \in batch' : r.alias \in table' /\ Rank(r)' < PageSize * page'
  PROVE  Filled'
<1>1. ASSUME NEW a \in Alias
      PROVE  /\ InHand(a)' <=> InHand(a)
             /\ Blank(a)' <=> Blank(a)
             /\ Matches(a)' <=> Matches(a)
  BY DEF InHand, Blank, Matches, Content, Stored
<1> QED
  BY <1>1 DEF Filled

LEMMA FillPage ==
  ASSUME Core, Filled, page \in Nat \ {0}, GetPage
  PROVE  IF load' = "off" THEN RequestRight' ELSE Wiped' /\ Filled'
<1> USE DEF Core
<1>1. /\ load = "page" /\ pc[Loader] = "idle" /\ batch = {}
      /\ batch' = {r \in rows : r.alias \in table /\ OnPage(r)}
      /\ UNCHANGED <<rows, kv, list, pc, alias, held, seen>>
      /\ batch' # {} => load' = "put" /\ UNCHANGED <<table, page>>
      /\ batch' = {} => EndOfTable
  BY DEF GetPage, stores, workers, request, Base, Places, LoaderInv
<1>2. PICK lo \in Nat, hi \in Nat :
        lo = PageSize * (page - 1) /\ hi = PageSize * page /\ lo < hi
  BY PageEdges, CatalogConstantsOK
<1>3. /\ Through = lo
      /\ \A r : OnPage(r) <=> Rank(r) >= lo /\ Rank(r) < hi
  BY <1>1, <1>2, RanksAreNumbers DEF Through, OnPage
<1>4. \A r : r \in Pending <=>
        /\ r \in rows
        /\ \/ r.alias \in Job /\ table = Group
           \/ r.alias \in table /\ Rank(r) >= lo
  BY <1>1, <1>3 DEF Pending
<1>5. CASE batch' # {}
  <2>1. load' = "put" /\ UNCHANGED <<table, page>>
    BY <1>1, <1>5
  <2>2. \A r : Rank(r)' = Rank(r)
    BY <1>1, <2>1 DEF Rank
  <2>3. Through' = hi
    BY <1>2, <2>1 DEF Through
  <2>4. ASSUME NEW r PROVE r \in Pending' <=> r \in Pending
    <3>1. r \in Pending' <=>
            \/ /\ r \in rows
               /\ \/ r.alias \in Job /\ table = Group
                  \/ r.alias \in table /\ Rank(r) >= hi
            \/ r \in rows /\ r.alias \in table /\ Rank(r) >= lo /\ Rank(r) < hi
      BY <1>1, <1>3, <2>1, <2>2, <2>3 DEF Pending
    <3>2. Rank(r) \in Nat
      BY RanksAreNumbers
    <3>3. Rank(r) >= lo <=> Rank(r) >= hi \/ (Rank(r) >= lo /\ Rank(r) < hi)
      BY <1>2, <3>2
    <3> QED
      BY <1>4, <3>1, <3>3
  <2>5. \A r \in batch' : r.alias \in table' /\ Rank(r)' < PageSize * page'
    BY <1>1, <1>2, <1>3, <2>1, <2>2
  <2>6. Filled'
    BY <1>1, <2>4, <2>5, FilledSame
  <2> QED
    BY <2>1, <2>6 DEF Wiped
<1>6. CASE batch' = {}
  <2>1. EndOfTable
    BY <1>1, <1>6
  <2>2. ASSUME NEW r \in rows, r.alias \in table, Rank(r) >= lo PROVE FALSE
    <3>1. r \in InTable
      BY <2>2 DEF InTable
    <3>2. PICK s \in InTable : Rank(s) = lo
      BY <2>2, <3>1, RanksAreDense
    <3>3. s \in batch'
      BY <1>1, <1>2, <1>3, <3>2 DEF InTable
    <3> QED
      BY <1>6, <3>3
  <2>3. \A r : r \in Pending <=> r \in rows /\ r.alias \in Job /\ table = Group
    BY <1>4, <2>2
  <2>4. CASE table = Group
    <3>1. load' = "page" /\ table' = Job /\ page' = 1
      BY <2>1, <2>4 DEF EndOfTable
    <3>2. \A r : r \in Pending' <=> r \in rows /\ r.alias \in Job
      <4>1. \A r : Rank(r)' >= PageSize * (page' - 1)
        <5> SUFFICES ASSUME NEW r PROVE Rank(r)' >= PageSize * (page' - 1)
          OBVIOUS
        <5>1. Rank(r)' = Cardinality({t \in rows : t.alias \in Job /\ t.id > r.id})
          BY <1>1, <3>1 DEF Rank
        <5>2. Cardinality({t \in rows : t.alias \in Job /\ t.id > r.id}) \in Nat
          BY RankTyped
        <5>3. PageSize * (page' - 1) = 0
          BY <3>1, CatalogConstantsOK
        <5> QED
          BY <5>1, <5>2, <5>3
      <4> QED
        BY <1>1, <1>6, <3>1, <4>1 DEF Pending, Through
    <3>3. Filled'
      BY <1>1, <1>6, <2>3, <2>4, <3>2, FilledSame
    <3> QED
      BY <3>1, <3>3 DEF Wiped
  <2>5. CASE table # Group
    <3>1. load' = "off"
      BY <2>1, <2>5 DEF EndOfTable
    <3>2. \A a \in Alias : Matches(a)
      BY <1>1, <2>3, <2>5 DEF Filled
    <3>3. \A a \in Alias : Matches(a)'
      BY <1>1, <3>2 DEF Matches, Content, Stored
    <3>4. \A h \in Handler : pc'[h] = "idle"
      BY <1>1, LoaderAtWork
    <3> QED
      BY <3>1, <3>3, <3>4 DEF RequestRight, Ahead
  <2> QED
    BY <2>4, <2>5
<1> QED
  BY <1>5, <1>6

LEMMA PagePassed ==
  ASSUME Core, Filled, page \in Nat \ {0}, PageDone
  PROVE  Wiped' /\ Filled'
<1>1. /\ load = "put" /\ load' = "page" /\ batch = {} /\ page' = page + 1
      /\ UNCHANGED <<rows, kv, list, pc, alias, held, seen, table, batch>>
  BY DEF PageDone, stores, workers, request
<1>2. Through' = Through
  BY <1>1 DEF Through
<1>3. \A r : Rank(r)' = Rank(r)
  BY <1>1 DEF Rank
<1>4. \A r : r \in Pending' <=> r \in Pending
  BY <1>1, <1>2, <1>3 DEF Pending
<1>5. Filled'
  BY <1>1, <1>4, FilledSame
<1> QED
  BY <1>1, <1>5 DEF Wiped

\* A row of the page is taken in hand: its alias is blank until then.
LEMMA RowTaken ==
  ASSUME Core, Filled, PutRow
  PROVE  Wiped' /\ Filled'
<1> USE DEF Core
<1>0. Loader \in Worker
  BY DEF Worker
<1>1. PICK r \in batch :
        /\ alias' = [alias EXCEPT ![Loader] = {r.alias}]
        /\ held' = [held EXCEPT ![Loader] = [id |-> r.id, version |-> r.version]]
        /\ batch' = batch \ {r}
        /\ AddConsul(Loader, {r.alias})
  BY DEF PutRow
<1>2. /\ load = "put" /\ load' = "put" /\ pc[Loader] = "idle"
      /\ UNCHANGED <<rows, kv, list, seen, table, page>>
  BY DEF PutRow, stores
<1>3. /\ alias'[Loader] = {r.alias}
      /\ held'[Loader] = [id |-> r.id, version |-> r.version]
      /\ pc'[Loader] = IF {r.alias} \subseteq Group THEN "listget" ELSE "put"
  BY <1>0, <1>1 DEF Base, TypeOK, AddConsul, Goto
<1>4. r \in rows /\ r \in Pending /\ r.alias \in Alias
  BY DEF EntriesHaveRows, Pending, Base, TypeOK, Row
<1>5. \A s \in rows : s.alias = r.alias => s = r
  BY <1>4 DEF Numbered
<1>6. \A s : Rank(s)' = Rank(s)
  BY <1>2 DEF Rank
<1>7. Through = PageSize * page /\ Through' = Through
  BY <1>2 DEF Through
<1>8. r.alias \in table /\ ~ (Rank(r) >= Through)
  <2>1. r.alias \in table /\ Rank(r) < PageSize * page
    BY <1>2 DEF Filled
  <2>2. Rank(r) \in Int /\ PageSize * page \in Int
    BY RanksAreNumbers, CatalogConstantsOK DEF Base, TypeOK
  <2> QED
    BY <1>7, <2>1, <2>2
<1>9. ~ (r.alias \in Job /\ table = Group)
  BY <1>8, CatalogConstantsOK
<1>10. \A s : s \in Pending' <=> s \in Pending /\ s # r
  BY <1>1, <1>2, <1>4, <1>6, <1>7, <1>8, <1>9 DEF Pending
<1>11. Pending \subseteq rows
  BY DEF Pending, EntriesHaveRows
<1>12. InHand(r.alias)' /\ \A s \in Pending' : s.alias # r.alias
  <2>1. Blank(r.alias)
    BY <1>2, <1>4 DEF Filled
  <2>2. Content(r.alias)' = {held'[Loader]}
    <3>1. Content(r.alias) = {[id |-> r.id, version |-> r.version]}
      BY <1>4, ContentOf
    <3>2. Content(r.alias)' = Content(r.alias)
      BY <1>2 DEF Content, Stored
    <3> QED
      BY <1>3, <3>1, <3>2
  <2>3. InHand(r.alias)'
    BY <1>2, <1>3, <2>1, <2>2 DEF InHand, Blank
  <2>4. \A s \in Pending' : s.alias # r.alias
    BY <1>5, <1>10, <1>11
  <2> QED
    BY <2>3, <2>4
<1>13. ASSUME NEW a \in Alias, a # r.alias
       PROVE  IF \E s \in Pending' : s.alias = a THEN Blank(a)' ELSE Matches(a)'
  <2>1. IF \E s \in Pending : s.alias = a THEN Blank(a) ELSE Matches(a)
    BY <1>2 DEF Filled
  <2>2. (\E s \in Pending' : s.alias = a) <=> (\E s \in Pending : s.alias = a)
    BY <1>10, <1>13
  <2>3. (Blank(a)' <=> Blank(a)) /\ (Matches(a)' <=> Matches(a))
    BY <1>2 DEF Blank, Matches, Content, Stored
  <2> QED
    BY <2>1, <2>2, <2>3
<1>14. \A s \in batch' : s.alias \in table' /\ Rank(s)' < PageSize * page'
  BY <1>1, <1>2, <1>6 DEF Filled
<1>15. ASSUME NEW a \in Alias
       PROVE  IF pc'[Loader] # "idle" /\ alias'[Loader] = {a}
              THEN InHand(a)' /\ \A s \in Pending' : s.alias # a
              ELSE IF \E s \in Pending' : s.alias = a THEN Blank(a)' ELSE Matches(a)'
  <2>1. CASE a = r.alias
    BY <1>3, <1>12, <2>1
  <2>2. CASE a # r.alias
    <3>1. alias'[Loader] # {a}
      BY <1>3, <2>2
    <3> QED
      BY <1>13, <2>2, <3>1
  <2> QED
    BY <2>1, <2>2
<1> QED
  BY <1>2, <1>14, <1>15 DEF Wiped, Filled

\* The row in hand is listed and stored.
LEMMA RowStored ==
  ASSUME Core, Filled, ListGet(Loader) \/ ListPut(Loader) \/ Put(Loader)
  PROVE  Wiped' /\ Filled'
<1> USE DEF Core
<1>0. Loader \in Worker /\ LoaderInv
  BY DEF Worker, Base, Places
<1>1. /\ pc[Loader] # "idle"
      /\ UNCHANGED <<rows, load, table, page, batch>>
  BY DEF ListGet, ListPut, Put, stores, loader
<1>2. PICK a \in Alias : alias[Loader] = {a}
  BY <1>0, <1>1 DEF LoaderInv
<1>3. /\ load = "put" /\ op[Loader] = "load"
      /\ held[Loader] \in Entry /\ held[Loader] # NoEntry
  BY <1>0, <1>1, CatalogConstantsOK DEF LoaderInv
<1>4. InHand(a) /\ \A r \in Pending : r.alias # a
  BY <1>1, <1>2, <1>3 DEF Filled
<1>5. Pending' = Pending /\ \A r : Rank(r)' = Rank(r)
  <2>1. \A r : Rank(r)' = Rank(r)
    BY <1>1 DEF Rank
  <2>2. Through' = Through
    BY <1>1 DEF Through
  <2> QED
    BY <1>1, <2>1, <2>2 DEF Pending
<1>6. /\ \A b \in Alias \ {a} : /\ kv'[b] = kv[b]
                                /\ b \in list' <=> b \in list
      /\ \/ pc'[Loader] = "idle" /\ Matches(a)'
         \/ alias'[Loader] = {a} /\ pc'[Loader] # "idle" /\ InHand(a)'
  <2>1. CASE ListGet(Loader)
    <3>1. /\ pc[Loader] = "listget" /\ a \in Group
          /\ UNCHANGED <<kv, list, alias, held>>
      BY <1>0, <1>2, <2>1 DEF ListGet, LoaderInv, stores, request
    <3>2. a \notin list
      BY <1>4, <3>1 DEF InHand
    <3>3. pc'[Loader] = "listput" /\ seen'[Loader] = list
      BY <1>0, <1>2, <1>3, <2>1, <3>2 DEF ListGet, Goto, Base, TypeOK
    <3>4. InHand(a)'
      BY <1>1, <1>4, <3>1, <3>2, <3>3 DEF InHand, Content, Stored
    <3> QED
      BY <1>2, <3>1, <3>3, <3>4
  <2>2. CASE ListPut(Loader)
    <3>1. /\ pc[Loader] = "listput" /\ a \in Group /\ seen[Loader] = list
          /\ list' = list \cup {a}
          /\ UNCHANGED <<kv, alias, held>>
      BY <1>0, <1>2, <1>3, <1>4, <2>2 DEF ListPut, LoaderInv, request, InHand
    <3>2. pc'[Loader] = "put"
      BY <1>0, <1>3, <2>2 DEF ListPut, AfterList, Goto, Base, TypeOK
    <3>3. InHand(a)'
      BY <1>1, <1>4, <3>1, <3>2 DEF InHand, Content, Stored
    <3> QED
      BY <1>2, <3>1, <3>2, <3>3
  <2>3. CASE Put(Loader)
    <3>1. /\ pc[Loader] = "put" /\ Answered(Loader)
          /\ kv' = [b \in Alias |-> IF b \in alias[Loader] THEN held[Loader]
                                                           ELSE kv[b]]
          /\ list' = list
      BY <1>3, <2>3 DEF Put
    <3>2. pc'[Loader] = "idle"
      BY <1>0, <3>1, AnsweredTyped DEF Base
    <3>3. kv'[a] = held[Loader] /\ Content(a)' = {held[Loader]}
      BY <1>1, <1>2, <1>4, <3>1 DEF InHand, Content, Stored
    <3>4. a \in Group => a \in list
      BY <1>4, <3>1 DEF InHand
    <3>5. Content(a)' = {kv'[a]} \ {NoEntry}
      BY <1>3, <3>3
    <3>6. Matches(a)'
      BY <1>3, <3>1, <3>3, <3>4, <3>5 DEF Matches
    <3> QED
      BY <1>2, <3>1, <3>2, <3>6
  <2> QED
    BY <2>1, <2>2, <2>3
<1>7. ASSUME NEW b \in Alias, b # a
      PROVE  /\ Blank(b)' <=> Blank(b)
             /\ Matches(b)' <=> Matches(b)
             /\ IF \E r \in Pending : r.alias = b THEN Blank(b) ELSE Matches(b)
             /\ ~ (pc'[Loader] # "idle" /\ alias'[Loader] = {b})
  <2>1. (Blank(b)' <=> Blank(b)) /\ (Matches(b)' <=> Matches(b))
    BY <1>1, <1>6, <1>7 DEF Blank, Matches, Content, Stored
  <2>2. {a} # {b}
    BY <1>7
  <2> QED
    BY <1>2, <1>3, <1>6, <2>1, <2>2 DEF Filled
<1>8. ASSUME NEW b \in Alias
      PROVE  IF pc'[Loader] # "idle" /\ alias'[Loader] = {b}
             THEN InHand(b)' /\ \A s \in Pending' : s.alias # b
             ELSE IF \E s \in Pending' : s.alias = b THEN Blank(b)' ELSE Matches(b)'
  <2>1. CASE b = a
    BY <1>4, <1>5, <1>6, <2>1
  <2>2. CASE b # a
    BY <1>5, <1>7, <2>2
  <2> QED
    BY <2>1, <2>2
<1>9. \A r \in batch' : r.alias \in table' /\ Rank(r)' < PageSize * page'
  BY <1>1, <1>3, <1>5 DEF Filled
<1> QED
  BY <1>1, <1>3, <1>8, <1>9 DEF Wiped, Filled

\* A load that met no error goes on as it should.
LEMMA LoadStores ==
  ASSUME Core, StoresRight, page \in Nat \ {0},
         LoadStep \/ WorkerStep(Loader)
  PROVE  StoresRight' /\ page' \in Nat \ {0}
<1> USE DEF Core
<1>1. page' \in Nat \ {0}
  BY DEF LoadStep, Load, DropList, ListKeys, ClearKey, Cleared, GetPage, PutRow,
     PageDone, LoadFails, EndOfTable, WorkerStep, ListGet, ListPut, Put,
     IgnoredFailure, loader
<1>2. CASE Load
  BY <1>1, <1>2 DEF Load, StoresRight, Wiped, Filled
<1>3. CASE LoadFails \/ IgnoredFailure(Loader)
  BY <1>1, <1>3 DEF LoadFails, IgnoredFailure, StoresRight
<1>4. CASE ~ Load /\ ~ LoadFails /\ ~ IgnoredFailure(Loader) /\ ~ dirty
  <2>1. load # "off"
    BY <1>4, Zenon DEF LoadStep, WorkerStep, DropList, ListKeys, ClearKey, Cleared,
       GetPage, PutRow, PageDone, ListGet, ListPut, Put, Base, Places, LoaderInv
  <2>2. Wiped /\ Filled
    BY <1>4, <2>1 DEF StoresRight
  <2>3. IF load' = "off" THEN RequestRight' ELSE Wiped' /\ Filled'
    <3>1. CASE DropList \/ ListKeys \/ ClearKey \/ Cleared \/ PutRow \/ PageDone
                \/ ListGet(Loader) \/ ListPut(Loader) \/ Put(Loader)
      <4>1. Wiped' /\ Filled'
        BY <2>2, <3>1, WipeStep, FillBegins, PagePassed, RowTaken, RowStored
      <4>2. load' # "off"
        BY <2>1, <3>1 DEF DropList, ListKeys, ClearKey, Cleared, PutRow, PageDone,
           ListGet, ListPut, Put, loader
      <4> QED
        BY <4>1, <4>2
    <3>2. CASE GetPage
      BY <2>2, <3>2, FillPage
    <3> QED
      BY <1>4, <3>1, <3>2 DEF LoadStep, WorkerStep
  <2> QED
    BY <1>1, <2>3 DEF StoresRight
<1>5. ASSUME dirty, ~ Load PROVE dirty'
  BY <1>5 DEF LoadStep, DropList, ListKeys, ClearKey, Cleared, GetPage, PutRow,
     PageDone, LoadFails, WorkerStep, ListGet, ListPut, Put, IgnoredFailure
<1>6. CASE dirty /\ ~ Load
  BY <1>1, <1>5, <1>6 DEF StoresRight
<1> QED
  BY <1>1, <1>2, <1>3, <1>4, <1>6

\* The stores differ by what the requests or the load at work have not done yet,
\* unless an access has failed.
LEMMA StoresStep ==
  ASSUME Core, StoresRight, page \in Nat \ {0}, MaxSame = 1, [Next]_vars
  PROVE  StoresRight' /\ page' \in Nat \ {0}
<1> USE DEF Core
<1>1. CASE UNCHANGED vars \/ Unauthorized
  <2>1. UNCHANGED <<stores, workers, loader, dirty>>
    BY <1>1 DEF vars, Unauthorized
  <2>2. RequestRight' <=> RequestRight
    BY <2>1 DEF RequestRight, Matches, Ahead, AheadRight, Listed, Content, Stored,
       stores, workers, request
  <2>3. (Wiped' <=> Wiped) /\ (Filled' <=> Filled)
    BY <2>1 DEF Wiped, Filled, Pending, Through, Rank, InHand, Blank, Matches,
       Content, Stored, stores, workers, request, loader
  <2> QED
    BY <2>1, <2>2, <2>3 DEF StoresRight, loader
<1>2. ASSUME NEW h \in Handler, HandlerStep(h) \/ WorkerStep(h)
      PROVE  StoresRight' /\ page' \in Nat \ {0}
  <2> SUFFICES ASSUME ~ dirty' PROVE StoresRight' /\ page' \in Nat \ {0}
    <3>1. UNCHANGED loader
      BY <1>2, WorkerKeeps DEF Worker
    <3> QED
      BY <3>1 DEF StoresRight, loader
  <2>1. pc[h] # "idle" /\ h \in Worker /\ HandlerInv(h)
    BY <1>2, HandlerAlone
  <2>2. PICK a \in Alias : alias[h] = {a}
    BY <2>1 DEF HandlerInv
  <2>3. ~ AccessFails(h) /\ ~ IgnoredFailure(h) /\ ~ dirty
    <3>1. AccessFails(h) \/ IgnoredFailure(h) => dirty' = TRUE
      BY DEF AccessFails, IgnoredFailure
    <3>2. AccessFails(h) \/ IgnoredFailure(h) \/ dirty' = dirty
      BY <1>2 DEF HandlerStep, User, Exists, Create, GetByAlias, Update, Disown,
         Own, Active, KvDel, Delete, WorkerStep, ListGet, ListPut, Put
    <3> QED
      BY <3>1, <3>2
  <2>4. load = "off" /\ load' = "off" /\ page' = page
    <3>1. load = "off"
      BY <2>1 DEF Alone
    <3>2. UNCHANGED loader
      BY <1>2, <2>1, WorkerKeeps
    <3> QED
      BY <3>1, <3>2 DEF loader
  <2>5. Around(h, a)
    BY <2>2, <2>3, <2>4, AroundBefore DEF StoresRight
  <2>6. Around(h, a)' /\ Apart(a)
    <3>1. Create(h) => ~ Taken(h)
      BY DEF Create, EntriesHaveRows
    <3> QED
      BY <1>2, <2>2, <2>3, <2>5, <3>1, StoresSame, StoresPut, StoresWritten
         DEF HandlerStep, WorkerStep
  <2>7. pc'[h] = "idle" \/ alias'[h] = {a}
    <3>1. Answered(h) \/ alias' = alias
      BY <1>2, <2>1, WorkerKeeps
    <3> QED
      BY <2>1, <2>2, <3>1, AnsweredTyped DEF Base
  <2>8. RequestRight'
    BY <1>2, <2>2, <2>3, <2>4, <2>6, <2>7, AroundAfter DEF StoresRight
  <2> QED
    BY <2>4, <2>8 DEF StoresRight
<1>3. CASE LoadStep \/ WorkerStep(Loader)
  BY <1>3, LoadStores
<1>4. ASSUME NEW h \in Handler, NEW k \in {"add", "update", "del"},
             NEW a \in Alias, Begin(h, k, a)
      PROVE  StoresRight' /\ page' \in Nat \ {0}
  <2>1. load = "off" /\ \A i \in Handler : a \notin alias[i]
    BY <1>4, NobodyThere DEF Begin, SameKey
  <2>2. UNCHANGED <<rows, kv, list, load, page, dirty, held, seen>>
    BY <1>4 DEF Begin, stores, loader
  <2>3. /\ pc[h] = "idle" /\ alias'[h] = {a}
        /\ pc'[h] \in {"get", "exists", "user"}
        /\ \A i \in Handler \ {h} :
                pc'[i] = pc[i] /\ op'[i] = op[i] /\ alias'[i] = alias[i]
    BY <1>4 DEF Begin, Goto, Base, TypeOK, Worker
  <2>4. ~ Ahead(h) /\ ~ Ahead(h)' /\ \A i \in Handler \ {h} : Ahead(i)' <=> Ahead(i)
    BY <2>3 DEF Ahead
  <2>5. ASSUME RequestRight PROVE RequestRight'
    <3>1. \A i \in Handler : pc'[i] = "listput" => seen'[i] = list'
      BY <2>2, <2>3, <2>5 DEF RequestRight
    <3>2. ASSUME NEW b \in Alias
          PROVE  \/ Matches(b)' /\ \A i \in Handler : b \in alias'[i] => ~ Ahead(i)'
                 \/ \E i \in Handler :
                        alias'[i] = {b} /\ Ahead(i)' /\ AheadRight(i, b)'
      <4>1. Matches(b) => Matches(b)'
        BY <2>2 DEF Matches, Content, Stored
      <4>2. CASE Matches(b) /\ \A i \in Handler : b \in alias[i] => ~ Ahead(i)
        BY <2>3, <2>4, <4>1, <4>2
      <4>3. ASSUME NEW i \in Handler, alias[i] = {b}, Ahead(i), AheadRight(i, b)
            PROVE  alias'[i] = {b} /\ Ahead(i)' /\ AheadRight(i, b)'
        <5>1. i # h
          BY <2>4, <4>3
        <5> QED
          BY <2>2, <2>3, <2>4, <4>3, <5>1
             DEF AheadRight, Listed, Content, Stored
      <4> QED
        BY <2>5, <4>2, <4>3 DEF RequestRight
    <3> QED
      BY <3>1, <3>2 DEF RequestRight
  <2> QED
    BY <2>1, <2>2, <2>5 DEF StoresRight
<1> QED
  BY <1>1, <1>2, <1>3, <1>4 DEF Next, Worker

-----------------------------------------------------------------------------
(***************************************************************************)
(* The user of a request.                                                  *)
(***************************************************************************)
\* Where there is room for one at work and for one only, nobody is.
LEMMA RoomForOne ==
  ASSUME AuthorRight, MaxBusy = 1, Busy < MaxBusy
  PROVE  \A h \in Handler : pc[h] = "idle"
<1> DEFINE S == {h \in Handler : pc[h] # "idle"}
<1>1. Cardinality(S) + (IF load = "off" THEN 0 ELSE 1) < 1
  BY DEF Busy
<1>2. ASSUME NEW h \in S PROVE FALSE
  <2>1. S = {h}
    BY <1>2 DEF AuthorRight
  <2>2. Cardinality(S) = 1
    BY <2>1, FS_Singleton
  <2> QED
    BY <1>1, <2>2
<1> QED
  BY <1>2

\* A request that is by itself keeps its user.
LEMMA AuthorStep ==
  ASSUME Core, AuthorRight, MaxBusy = 1, [Next]_vars
  PROVE  AuthorRight'
<1> USE DEF Core
<1>E. used.errors # 0 => used'.errors # 0
  BY NoErrorYet
<1>R. \A r \in rows : r.alias \in Job =>
        r.author = r.version \/ (r.author = 0 /\ used'.errors # 0)
  BY <1>E DEF AuthorRight, AuthorIsRequester
<1>1. CASE UNCHANGED vars \/ Unauthorized
  <2>1. UNCHANGED <<rows, workers>> /\ userId' \in {userId, 0}
    BY <1>1 DEF vars, Unauthorized, stores
  <2> QED
    BY <1>E, <1>R, <2>1
       DEF AuthorRight, AuthorIsRequester, AuthorOf, workers, request
<1>2. ASSUME NEW h \in Handler, NEW k \in {"add", "update", "del"},
             NEW a \in Alias, Begin(h, k, a)
      PROVE  AuthorRight'
  <2>1. \A i \in Handler : pc[i] = "idle"
    BY <1>2, RoomForOne DEF Begin
  <2>2. Others(h) /\ h \in Worker /\ rows' = rows
    BY <1>2, BeginBase DEF Begin, stores, Worker
  <2>3. \A i \in Handler \ {h} : pc'[i] = "idle"
    BY <2>1, <2>2 DEF Others, Worker
  <2>4. userId' = req'[h] /\ (pc'[h] = "exists" => alias'[h] = {a} /\ a \in Group)
        /\ pc'[h] \in {"get", "exists", "user"}
    BY <1>2, <2>2 DEF Begin, Goto, Base, TypeOK
  <2>5. ~ ({a} \subseteq Job) \/ pc'[h] # "exists"
    BY <2>4, CatalogConstantsOK
  <2> QED
    BY <1>R, <2>2, <2>3, <2>4, <2>5 DEF AuthorRight, AuthorIsRequester
<1>3. ASSUME NEW h \in Handler, HandlerStep(h) \/ WorkerStep(h)
      PROVE  AuthorRight'
  <2>1. /\ h \in Worker /\ Others(h) /\ pc[h] # "idle"
        /\ Answered(h) \/ UNCHANGED <<op, alias, req>>
        /\ HandlerInv(h)
    BY <1>3, HandlerBase, WorkerBase, WorkerKeeps DEF Worker, Base, Places
  <2>2. \A i \in Handler \ {h} : pc'[i] = "idle"
    BY <2>1 DEF AuthorRight, Others, Worker
  <2>3. Answered(h) => pc'[h] = "idle"
    BY <2>1, AnsweredTyped DEF Base
  <2>4. pc'[h] # "idle" =>
            /\ userId' \in {0, req'[h]}
            /\ pc'[h] \in {"exists", "create", "update"} /\ alias'[h] \subseteq Job =>
                    AuthorOf(author[h], h)'
    <3> SUFFICES ASSUME pc'[h] # "idle", alias' = alias, req' = req
                 PROVE  /\ userId' \in {0, req[h]}
                        /\ pc'[h] \in {"exists", "create", "update"}
                                /\ alias[h] \subseteq Job =>
                            AuthorOf(author[h], h)'
      BY <2>1, <2>3
    <3>1. CASE User(h)
      <4>1. author'[h] = userId'
        BY <2>1, <3>1 DEF User, Base, TypeOK
      <4>2. userId' = req[h] \/ (userId' = 0 /\ Use("errors", MaxErrors))
        BY <2>1, <3>1 DEF User, UserAsked, AuthorRight
      <4>3. userId' = req[h] \/ (userId' = 0 /\ used'.errors # 0)
        BY <4>2, UseTyped DEF Base
      <4> QED
        BY <4>1, <4>3 DEF AuthorOf
    <3>2. CASE ~ User(h)
      <4>1. userId' = userId
        BY <1>3, <3>2 DEF HandlerStep, Exists, Create, GetByAlias, Update,
           Disown, Own, Active, KvDel, Delete, AccessFails, WorkerStep, ListGet,
           ListPut, Put, IgnoredFailure
      <4>2. ASSUME pc'[h] \in {"exists", "create", "update"}, alias[h] \subseteq Job
            PROVE  pc[h] \in {"exists", "create", "update"} /\ author' = author
        <5>1. CASE GetByAlias(h)
          <6>1. PICK a \in Alias : alias[h] = {a}
            BY <2>1 DEF HandlerInv
          <6>2. ~ IsGroup(h)
            BY <4>2, <6>1, CatalogConstantsOK DEF IsGroup
          <6> QED
            BY <2>1, <2>3, <4>2, <5>1, <6>2
               DEF GetByAlias, Goto, FirstDeleted, Base, TypeOK
        <5>2. CASE ~ GetByAlias(h)
          BY <1>3, <2>1, <2>3, <3>2, <4>2, <5>2
             DEF HandlerStep, Exists, Create, Update, Disown, Own, Active, KvDel,
                 Delete, AccessFails, WorkerStep, ListGet, ListPut, Put,
                 IgnoredFailure, AfterDelete, AfterList, AddConsul, FirstDeleted,
                 Goto, Base, TypeOK, request
        <5> QED
          BY <5>1, <5>2
      <4> QED
        BY <1>E, <2>1, <4>1, <4>2 DEF AuthorRight, AuthorOf
    <3> QED
      BY <3>1, <3>2
  <2>5. AuthorIsRequester'
    <3>1. CASE rows' = rows
      BY <1>R, <3>1 DEF AuthorIsRequester
    <3>2. CASE Create(h) /\ rows' # rows
      <4>1. /\ rows' = rows \cup
                  {[id |-> req[h], alias |-> a, version |-> req[h],
                    author |-> author[h]] : a \in alias[h]}
            /\ pc[h] = "create"
        BY <3>2 DEF Create
      <4>2. PICK a \in Alias : alias[h] = {a}
        BY <2>1 DEF HandlerInv
      <4>3. a \in Job => author[h] = req[h] \/ (author[h] = 0 /\ used'.errors # 0)
        BY <1>E, <2>1, <4>1, <4>2 DEF AuthorRight, AuthorOf
      <4> QED
        BY <1>R, <4>1, <4>2, <4>3 DEF AuthorIsRequester
    <3>3. CASE Update(h)
      <4>1. /\ pc[h] = "update" /\ held[h] # NoEntry
            /\ rows' = {IF r.id = held[h].id
                        THEN [[r EXCEPT !.version = req[h]] EXCEPT !.author = author[h]]
                        ELSE r : r \in rows}
        BY <2>1, <3>3, CatalogConstantsOK
           DEF Update, NewVersion, HandlerInv, Holding
      <4>2. ASSUME NEW r \in rows, r.id = held[h].id, r.alias \in Job
            PROVE  author[h] = req[h] \/ (author[h] = 0 /\ used'.errors # 0)
        <5>1. alias[h] = {r.alias}
          BY <2>1, <4>1, <4>2, RowOfRequest
        <5> QED
          BY <1>E, <2>1, <4>1, <4>2, <5>1 DEF AuthorRight, AuthorOf
      <4>3. ASSUME NEW s \in rows', s.alias \in Job
            PROVE  s.author = s.version \/ (s.author = 0 /\ used'.errors # 0)
        <5>1. PICK r \in rows :
                s = IF r.id = held[h].id
                    THEN [[r EXCEPT !.version = req[h]] EXCEPT !.author = author[h]]
                    ELSE r
          BY <4>1
        <5>2. r \in Row
          BY DEF Base, TypeOK
        <5>3. CASE r.id = held[h].id
          <6>1. s.alias = r.alias /\ s.version = req[h] /\ s.author = author[h]
            BY <5>1, <5>2, <5>3 DEF Row
          <6> QED
            BY <4>2, <4>3, <5>3, <6>1
        <5>4. CASE r.id # held[h].id
          BY <1>R, <4>3, <5>1, <5>4
        <5> QED
          BY <5>3, <5>4
      <4> QED
        BY <4>3 DEF AuthorIsRequester
    <3>4. CASE Delete(h)
      BY <1>R, <3>4 DEF Delete, AuthorIsRequester
    <3> QED
      BY <1>3, <3>1, <3>2, <3>3, <3>4
         DEF HandlerStep, User, Exists, GetByAlias, Disown, Own, Active, KvDel,
             AccessFails, WorkerStep, ListGet, ListPut, Put, IgnoredFailure, stores
  <2> QED
    BY <2>2, <2>4, <2>5 DEF AuthorRight
<1>4. CASE LoadStep \/ WorkerStep(Loader)
  <2>1. rows' = rows /\ userId' = userId
    BY <1>4 DEF LoadStep, Load, DropList, ListKeys, ClearKey, Cleared, GetPage,
       PutRow, PageDone, LoadFails, WorkerStep, ListGet, ListPut, Put,
       IgnoredFailure, stores
  <2>2. \A h \in Handler : /\ pc'[h] = pc[h] /\ alias'[h] = alias[h]
                           /\ req'[h] = req[h] /\ author'[h] = author[h]
    <3>1. \A h \in Handler : h \in Worker \ {Loader}
      BY CatalogConstantsOK DEF Worker
    <3>2. CASE LoadStep
      BY <3>1, <3>2, LoadBase DEF Others
    <3>3. CASE WorkerStep(Loader)
      <4>1. Others(Loader) /\ Loader \in Worker
        BY <3>3, WorkerBase DEF Worker
      <4>2. Answered(Loader) \/ author' = author
        BY <3>3 DEF WorkerStep, ListGet, ListPut, Put, IgnoredFailure, request
      <4>3. \A h \in Handler : author'[h] = author[h]
        BY <3>1, <4>1, <4>2, AnsweredTyped DEF Base, TypeOK
      <4> QED
        BY <3>1, <4>1, <4>3 DEF Others
    <3> QED
      BY <1>4, <3>2, <3>3
  <2> QED
    BY <1>E, <1>R, <2>1, <2>2 DEF AuthorRight, AuthorIsRequester, AuthorOf
<1> QED
  BY <1>1, <1>2, <1>3, <1>4 DEF Next, Worker

-----------------------------------------------------------------------------
(***************************************************************************)
(* The invariant and what it says of the catalogue.                        *)
(***************************************************************************)
\* Every step keeps the invariant.
LEMMA InvStep == Inv /\ [Next]_vars => Inv'
<1> SUFFICES ASSUME Inv, [Next]_vars PROVE Inv'
  OBVIOUS
<1>1. Base'
  BY BaseStep DEF Inv
<1>2. ASSUME MaxSame = 1
      PROVE  /\ Alone' /\ Numbered' /\ EntriesHaveRows' /\ OwnersRight'
             /\ StoresRight' /\ page' \in Nat \ {0}
  BY <1>2, CoreStep, OwnersStep, StoresStep DEF Inv, Core
<1>3. ASSUME MaxBusy = 1, MaxSame = 1 PROVE AuthorRight'
  BY <1>3, AuthorStep DEF Inv, Core
<1> QED
  BY <1>1, <1>2, <1>3 DEF Inv

\* Rows and entries are as the invariant says in every reachable state.
THEOREM InvCorrect == Spec => []Inv
<1> QED
  BY InitInv, InvStep, PTL DEF Spec

\* Whatever the requests, loads and failures, stores and handlers keep to their
\* types.
THEOREM TypeCorrect == Spec => []TypeOK
<1>1. Inv => TypeOK
  BY DEF Inv, Base
<1> QED
  BY <1>1, InvCorrect, PTL

\* However many requests are at work on keys of their own, and whatever fails,
\* an entry of the KV store has its row at every moment (register/job.go,
\* register/node_group.go, load_data.go).
THEOREM EntryHasRowCorrect == ASSUME MaxSame = 1 PROVE Spec => []EntryHasRow
<1>1. Inv => EntryHasRow
  BY DEF Inv, EntriesHaveRows, HasRow, EntryHasRow, Stored
<1> QED
  BY <1>1, InvCorrect, PTL

\* Requests on keys of their own never give two rows one alias, though the table
\* of jobs has no unique index (Exists and Create of register/job.go).
THEOREM UniqueAliasCorrect == ASSUME MaxSame = 1 PROVE Spec => []UniqueAlias
<1>1. Inv => UniqueAlias
  BY DEF Inv, Numbered, UniqueAlias
<1> QED
  BY <1>1, InvCorrect, PTL

\* Without failures the owners of a job nobody is at work on are those of the
\* form that wrote it (addJob, updateJob).
THEOREM OwnersFollowFormCorrect ==
  ASSUME MaxSame = 1 PROVE Spec => []OwnersFollowForm
<1>1. ASSUME Inv PROVE OwnersFollowForm
  <2> SUFFICES ASSUME used.errors = 0, NEW a \in Job, Free(a), NEW r \in Stored(a)
               PROVE  Owned(r) /\ r.alias = a
    BY DEF OwnersFollowForm, Owned
  <2>1. r \in rows /\ r.alias = a
    BY DEF Stored
  <2>2. ~ \E h \in Handler : OwesOwners(h, r)
    BY <2>1 DEF Free, OwesOwners
  <2> QED
    BY <1>1, <2>1, <2>2 DEF Inv, OwnersRight
<1> QED
  BY <1>1, InvCorrect, PTL

\* However many requests are at work on keys of their own, the two stores and the
\* list of groups agree on every alias that nobody is at work on, as long as no
\* access fails; a load that meets no failure makes them agree again whatever it
\* found, however its pages cut the tables (load_data.go).
THEOREM StoresAgreeCorrect ==
  ASSUME MaxSame = 1 PROVE Spec => []StoresAgree
<1>1. ASSUME Inv PROVE StoresAgree
  <2> SUFFICES ASSUME ~ dirty, NEW a \in Alias, Free(a) PROVE Matches(a)
    BY DEF StoresAgree, Matches, Content
  <2>1. \A h \in Handler : ~ (alias[h] = {a})
    BY DEF Free
  <2> QED
    BY <1>1, <2>1 DEF Inv, StoresRight, RequestRight, Free
<1> QED
  BY <1>1, InvCorrect, PTL

\* One request at a time is taken for the user who sent it, though the user is
\* kept in a variable of the package that refused requests reset (user/user.go).
THEOREM AuthorIsRequesterCorrect ==
  ASSUME MaxBusy = 1, MaxSame = 1 PROVE Spec => []AuthorIsRequester
<1>1. Inv => AuthorIsRequester
  BY DEF Inv, AuthorRight
<1> QED
  BY <1>1, InvCorrect, PTL
=============================================================================
