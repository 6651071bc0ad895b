-------------------------- MODULE NodeHealthProofs --------------------------
(***************************************************************************)
(* What holds of the rows of the node table for every number of slaves,    *)
(* watch goroutines and requests of the node API.                          *)
(*                                                                         *)
(* An old slave's watch may end long after its successor of the same       *)
(* address is up.  It takes no live row offline because an offline notice  *)
(* is addressed by node id, and a node id never comes back.                *)
(***************************************************************************)
EXTENDS NodeHealth, TLAPS

\* A slave that has served and that consul no longer knows: for ever so.
GoneForGood(s) == s \in Slave /\ node[s] # "new" /\ s \notin services

\* Only started slaves are watched, and an offline notice, like a row it has
\* touched, is about one that is gone for good.
OfflineIsGone ==
    /\ \A w \in Watcher :
        /\ \A s \in watching[w] : node[s] # "new"
        /\ \A d \in data[w] : d.health = "offline" => GoneForGood(d.id)
    /\ \A r \in db : r.health = "offline" => GoneForGood(r.id)

Inv == TypeOK /\ OfflineIsGone

-----------------------------------------------------------------------------
\* The initial state satisfies the invariant.
LEMMA InitInv == Init => Inv
BY DEF Init, Inv, TypeOK, OfflineIsGone, Events

\* Counting an event keeps the counters numbers.
LEMMA SpendCounts ==
  ASSUME spent \in Events, NEW E, Spend(E)
  PROVE  spent' \in Events
<1>1. DOMAIN spent = {"polls", "errors", "lookups", "requests"}
  BY DEF Events
<1>2. spent' = [e \in DOMAIN spent |->
                  IF e \in E THEN spent[e] + 1 ELSE spent[e]]
  BY DEF Spend
<1>3. \A e \in DOMAIN spent : spent'[e] \in Nat
  BY <1>1, <1>2 DEF Events
<1>4. spent' = [polls |-> spent'.polls, errors |-> spent'.errors,
                lookups |-> spent'.lookups, requests |-> spent'.requests]
  BY <1>1, <1>2
<1> QED
  BY <1>1, <1>3, <1>4 DEF Events

\* The slaves and consul: no step brings a slave that is gone back.
LEMMA SlaveInv ==
  ASSUME Inv, NEW s \in Slave, Register(s) \/ Leave(s) \/ Crash(s) \/ Reap(s)
  PROVE  Inv'
<1> USE DEF Inv
<1>1. TypeOK'
  BY DEF Register, Leave, Crash, Reap, watchVars, apiVars, TypeOK
<1>2. UNCHANGED <<watching, data, db>>
  BY DEF Register, Leave, Crash, Reap, watchVars
<1>3. \A t \in Slave : node[t] # "new" => node'[t] # "new"
  BY DEF Register, Leave, Crash, Reap, TypeOK
<1>4. \A t \in Slave : GoneForGood(t) => GoneForGood(t)'
  BY <1>3 DEF Register, Leave, Crash, Reap, GoneForGood
<1>5. \A w \in Watcher : watching[w] \subseteq Slave
  BY DEF TypeOK
<1>6. OfflineIsGone'
  BY <1>2, <1>3, <1>4, <1>5 DEF OfflineIsGone, GoneForGood
<1> QED
  BY <1>1, <1>6

\* What the end of a goroutine, or its return to polling, leaves.
LEMMA ReturnTyped ==
  ASSUME TypeOK, NEW w \in Watcher, NEW d, Ended(w) \/ Return(w, d)
  PROVE  /\ watching' \in [Watcher -> SUBSET Slave]
         /\ last' \in [Watcher -> {"none", "passing", "critical"}]
         /\ step' \in [Watcher ->
                {"off", "poll", "group", "exists", "update", "create"}]
         /\ data' \in [Watcher -> SUBSET Notice]
         /\ \A v \in Watcher : /\ watching'[v] \subseteq watching[v]
                               /\ data'[v] \subseteq data[v]
BY DEF Ended, Return, TypeOK

\* What a step of a callback that writes nothing leaves.
LEMMA GoOnTyped ==
  ASSUME TypeOK, NEW w \in Watcher, NEW st \in {"exists", "update", "create"},
         GoOn(w, st)
  PROVE  /\ UNCHANGED <<watching, last, data>>
         /\ step' \in [Watcher ->
                {"off", "poll", "group", "exists", "update", "create"}]
BY DEF GoOn, TypeOK

\* A goroutine that starts, polls, looks for group or row, or is lost.
LEMMA PollInv ==
  ASSUME Inv, NEW w \in Watcher,
         \/ \E s \in Slave : StartWatch(w, s)
         \/ PollChange(w) \/ PollOffline(w) \/ CallbackGroup(w)
         \/ CallbackExists(w) \/ CallbackFails(w) \/ WatchError(w)
  PROVE  Inv'
<1> USE DEF Inv
<1>1. CASE \E s \in Slave : StartWatch(w, s)
  <2>1. TypeOK'
    BY <1>1 DEF StartWatch, apiVars, TypeOK
  <2>2. OfflineIsGone'
    BY <1>1 DEF StartWatch, apiVars, TypeOK, OfflineIsGone, GoneForGood
  <2> QED
    BY <2>1, <2>2
<1>2. CASE PollChange(w)
  <2>1. PICK s \in watching[w] :
          /\ last' = [last EXCEPT ![w] = Health(s)]
          /\ data' = [data EXCEPT ![w] =
                {[id |-> s, addr |-> AddrOf[s], health |-> Health(s)]}]
    BY <1>2 DEF PollChange
  <2>2. s \in Slave /\ Health(s) \in {"passing", "critical"}
    BY DEF TypeOK, Health
  <2>3. [id |-> s, addr |-> AddrOf[s], health |-> Health(s)] \in Notice
    BY <2>2, HealthConstantsOK DEF Notice, HealthValue
  <2>4. TypeOK'
    BY <1>2, <2>1, <2>2, <2>3 DEF PollChange, apiVars, TypeOK
  <2>5. \A v \in Watcher : data'[v] = IF v = w
            THEN {[id |-> s, addr |-> AddrOf[s], health |-> Health(s)]}
            ELSE data[v]
    BY <2>1 DEF TypeOK
  <2>6. OfflineIsGone'
    BY <1>2, <2>2, <2>5 DEF PollChange, OfflineIsGone, GoneForGood
  <2> QED
    BY <2>4, <2>6
<1>3. CASE PollOffline(w)
  <2>1. PICK s \in watching[w] :
          /\ s \notin services
          /\ data' = [data EXCEPT ![w] =
                {[id |-> s, addr |-> NoAddress, health |-> "offline"]}]
    BY <1>3 DEF PollOffline
  <2>2. [id |-> s, addr |-> NoAddress, health |-> "offline"] \in Notice
    BY <2>1 DEF Notice, HealthValue, TypeOK
  <2>3. TypeOK'
    BY <1>3, <2>1, <2>2 DEF PollOffline, apiVars, TypeOK
  <2>4. \A v \in Watcher : data'[v] = IF v = w
            THEN {[id |-> s, addr |-> NoAddress, health |-> "offline"]}
            ELSE data[v]
    BY <2>1 DEF TypeOK
  <2>5. GoneForGood(s)
    BY <2>1 DEF OfflineIsGone, GoneForGood, TypeOK
  <2>6. OfflineIsGone'
    BY <1>3, <2>4, <2>5 DEF PollOffline, OfflineIsGone, GoneForGood
  <2> QED
    BY <2>3, <2>6
<1>4. CASE CallbackGroup(w) \/ CallbackExists(w)
  <2>1. PICK st \in {"exists", "update", "create"} : GoOn(w, st)
    BY <1>4 DEF CallbackGroup, CallbackExists
  <2>2. TypeOK'
    BY <1>4, <2>1, GoOnTyped DEF CallbackGroup, CallbackExists, apiVars, TypeOK
  <2>3. OfflineIsGone'
    BY <1>4, <2>1, GoOnTyped
       DEF CallbackGroup, CallbackExists, OfflineIsGone, GoneForGood
  <2> QED
    BY <2>2, <2>3
<1>5. CASE WatchError(w)
  <2>1. spent' \in Events
    BY <1>5, SpendCounts DEF WatchError, TypeOK
  <2>2. TypeOK'
    BY <1>5, <2>1, ReturnTyped DEF WatchError, apiVars, TypeOK
  <2>3. OfflineIsGone'
    BY <1>5, ReturnTyped DEF WatchError, OfflineIsGone, GoneForGood
  <2> QED
    BY <2>2, <2>3
<1>6. CASE CallbackFails(w)
  <2>1. PICK d \in data[w] :
          /\ Return(w, d)
          /\ lost' = IF d.health = "offline" THEN lost \cup {d.id} ELSE lost
    BY <1>6 DEF CallbackFails
  <2>2. d.id \in Slave
    BY DEF TypeOK, Notice
  <2>3. spent' \in Events
    BY <1>6, SpendCounts DEF CallbackFails, TypeOK
  <2>4. TypeOK'
    BY <1>6, <2>1, <2>2, <2>3, ReturnTyped DEF CallbackFails, apiVars, TypeOK
  <2>5. OfflineIsGone'
    BY <1>6, <2>1, ReturnTyped DEF CallbackFails, OfflineIsGone, GoneForGood
  <2> QED
    BY <2>4, <2>5
<1> QED
  BY <1>1, <1>2, <1>3, <1>4, <1>5, <1>6

\* An update takes a row offline only for the slave the notice names.
LEMMA UpdatedGone ==
  ASSUME NEW r \in Row, NEW d \in Notice,
         d.health = "offline" => GoneForGood(d.id),
         r.health = "offline" => GoneForGood(r.id)
  PROVE  /\ Updated(r, d) \in Row
         /\ Updated(r, d).health = "offline" => GoneForGood(Updated(r, d).id)
<1>1. CASE d.health = "offline"
  <2>1. CASE r.id = d.id
    <3>1. Updated(r, d) = [r EXCEPT !.health = "offline"]
      BY <1>1, <2>1 DEF Updated
    <3>2. Updated(r, d) \in Row /\ Updated(r, d).id = r.id
      BY <3>1 DEF Row, HealthValue
    <3> QED
      BY <1>1, <2>1, <3>2
  <2>2. CASE r.id # d.id
    BY <1>1, <2>2 DEF Updated
  <2> QED
    BY <2>1, <2>2
<1>2. CASE d.health # "offline" /\ r.addr = d.addr
  <2>1. Updated(r, d) = [r EXCEPT !.id = d.id, !.health = d.health]
    BY <1>2 DEF Updated
  <2>2. Updated(r, d) \in Row /\ Updated(r, d).health = d.health
    BY <2>1 DEF Row, Notice
  <2> QED
    BY <1>2, <2>2
<1>3. CASE d.health # "offline" /\ r.addr # d.addr
  BY <1>3 DEF Updated
<1> QED
  BY <1>1, <1>2, <1>3

\* A callback writes the rows.
LEMMA CallbackInv ==
  ASSUME Inv, NEW w \in Watcher, CallbackUpdate(w) \/ CallbackCreate(w)
  PROVE  Inv'
<1> USE DEF Inv
<1>1. CASE CallbackUpdate(w)
  <2>1. PICK d \in data[w] : db' = {Updated(r, d) : r \in db} /\ Return(w, d)
    BY <1>1 DEF CallbackUpdate
  <2>2. d \in Notice /\ (d.health = "offline" => GoneForGood(d.id))
    BY DEF OfflineIsGone, TypeOK
  <2>3. \A r \in db : /\ r \in Row
                      /\ Updated(r, d) \in Row
                      /\ Updated(r, d).health = "offline" =>
                            GoneForGood(Updated(r, d).id)
    BY <2>2, UpdatedGone DEF OfflineIsGone, TypeOK
  <2>4. \A r \in db' : r \in Row /\ (r.health = "offline" => GoneForGood(r.id))
    BY <2>1, <2>3
  <2>5. TypeOK'
    BY <1>1, <2>1, <2>4, ReturnTyped DEF CallbackUpdate, apiVars, TypeOK
  <2>6. OfflineIsGone'
    BY <1>1, <2>1, <2>4, ReturnTyped
       DEF CallbackUpdate, OfflineIsGone, GoneForGood
  <2> QED
    BY <2>5, <2>6
<1>2. CASE CallbackCreate(w)
  <2>1. PICK d \in data[w] :
          db' = db \cup {NewRow(d)} /\ rows' = rows + 1 /\ Return(w, d)
    BY <1>2 DEF CallbackCreate
  <2>2. d \in Notice /\ (d.health = "offline" => GoneForGood(d.id))
    BY DEF OfflineIsGone, TypeOK
  <2>3. /\ NewRow(d) \in Row
        /\ NewRow(d).health = "offline" => GoneForGood(NewRow(d).id)
    BY <2>2 DEF NewRow, Notice, Row, TypeOK
  <2>4. TypeOK'
    BY <1>2, <2>1, <2>3, ReturnTyped DEF CallbackCreate, apiVars, TypeOK
  <2>5. OfflineIsGone'
    BY <1>2, <2>1, <2>3, ReturnTyped
       DEF CallbackCreate, OfflineIsGone, GoneForGood
  <2> QED
    BY <2>4, <2>5
<1> QED
  BY <1>1, <1>2

\* The requests of the API.
LEMMA ApiInv ==
  ASSUME Inv, NEW h \in Handler,
         \/ \E a \in Address : NodeAdd(h, a)
         \/ NodeAddCreate(h) \/ NodeDel(h) \/ NodeDelRow(h)
  PROVE  Inv'
<1> USE DEF Inv
<1>1. CASE \E a \in Address : NodeAdd(h, a)
  <2>1. spent' \in Events
    BY <1>1, SpendCounts DEF NodeAdd, TypeOK
  <2>2. TypeOK'
    BY <1>1, <2>1 DEF NodeAdd, watchVars, TypeOK
  <2>3. OfflineIsGone'
    BY <1>1 DEF NodeAdd, watchVars, OfflineIsGone, GoneForGood
  <2> QED
    BY <2>2, <2>3
<1>2. CASE NodeAddCreate(h)
  <2>1. CASE UNCHANGED <<db, rows>> /\ Spend({"errors"})
    <3>1. spent' \in Events
      BY <2>1, SpendCounts DEF TypeOK
    <3>2. TypeOK'
      BY <1>2, <2>1, <3>1 DEF NodeAddCreate, watchVars, TypeOK
    <3>3. OfflineIsGone'
      BY <1>2, <2>1 DEF NodeAddCreate, watchVars, OfflineIsGone, GoneForGood
    <3> QED
      BY <3>2, <3>3
  <2>2. CASE ~(UNCHANGED <<db, rows>> /\ Spend({"errors"}))
    <3>1. PICK a \in adding[h] :
            db' = db \cup {[key |-> rows, id |-> NoName, addr |-> a,
                            health |-> "maintenance"]}
      BY <1>2, <2>2 DEF NodeAddCreate
    <3>2. rows' = rows + 1 /\ UNCHANGED spent
      BY <1>2, <2>2 DEF NodeAddCreate
    <3>3. [key |-> rows, id |-> NoName, addr |-> a, health |-> "maintenance"]
              \in Row
      BY DEF Row, HealthValue, TypeOK
    <3>4. TypeOK'
      BY <1>2, <3>1, <3>2, <3>3 DEF NodeAddCreate, watchVars, TypeOK
    <3>5. OfflineIsGone'
      BY <1>2, <3>1 DEF NodeAddCreate, watchVars, OfflineIsGone, GoneForGood
    <3> QED
      BY <3>4, <3>5
  <2> QED
    BY <2>1, <2>2
<1>3. CASE NodeDel(h)
  <2>1. spent' \in Events
    BY <1>3, SpendCounts DEF NodeDel, TypeOK
  <2>2. TypeOK'
    BY <1>3, <2>1 DEF NodeDel, watchVars, TypeOK
  <2>3. OfflineIsGone'
    BY <1>3 DEF NodeDel, watchVars, OfflineIsGone, GoneForGood
  <2> QED
    BY <2>2, <2>3
<1>4. CASE NodeDelRow(h)
  <2>1. TypeOK'
    BY <1>4 DEF NodeDelRow, watchVars, TypeOK
  <2>2. OfflineIsGone'
    BY <1>4 DEF NodeDelRow, watchVars, OfflineIsGone, GoneForGood
  <2> QED
    BY <2>1, <2>2
<1> QED
  BY <1>1, <1>2, <1>3, <1>4

\* A step that changes nothing.
LEMMA StutterInv ==
  ASSUME Inv, UNCHANGED vars
  PROVE  Inv'
BY DEF Inv, TypeOK, OfflineIsGone, GoneForGood, vars, watchVars, apiVars

-----------------------------------------------------------------------------
\* The invariant holds whatever goroutines, nodes and requests interleave.
THEOREM InvCorrect == Spec => []Inv
<1>1. Inv /\ [Next]_vars => Inv'
  BY SlaveInv, PollInv, CallbackInv, ApiInv, StutterInv DEF Next, WatchStep
<1> QED
  BY InitInv, <1>1, PTL DEF Spec

\* Types of the rows and of the state of every goroutine.
THEOREM TypeCorrect == Spec => []TypeOK
<1>1. Inv => TypeOK
  BY DEF Inv
<1> QED
  BY InvCorrect, <1>1, PTL

\* The late end of an old slave's watch never takes a live successor's row
\* offline, however many goroutines watch however many slaves of an address.
THEOREM OfflineRowsAreGoneCorrect == Spec => []OfflineRowsAreGone
<1>1. Inv => OfflineRowsAreGone
  BY DEF Inv, OfflineIsGone, GoneForGood, OfflineRowsAreGone
<1> QED
  BY InvCorrect, <1>1, PTL
=============================================================================
