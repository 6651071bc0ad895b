------------------------- MODULE NodeRegistryProofs -------------------------
(***************************************************************************)
(* What holds of the node list for every number of slaves, addresses and   *)
(* managers and every mix of faults, signals and requests.                 *)
(*                                                                         *)
(* The list is read and written back without a lock, so what is true of it *)
(* must be true of every copy somebody may still write: the invariant says *)
(* the same of the list and of all its copies.                             *)
(***************************************************************************)
EXTENDS NodeRegistry, TLAPS

\* A slave is recorded only after its service has been registered.
Registered(s) == node[s] \notin {"new", "reg"}

\* What a claim promises while its manager runs.
ClaimHeld(r) ==
    r.watch # NoManager =>
        /\ manager[r.watch] # "new"
        /\ manager[r.watch] # "gone" => r.name \in local[r.watch]
        /\ spent.polls = 0 /\ manager[r.watch] # "gone" /\ r.name \in services
             => [mgr |-> r.watch, name |-> r.name] \in watches

\* A list the registry may safely go back to.
Sound(list) ==
    /\ UniqueAddr(list)
    /\ \A r \in list : Registered(r.name) /\ ClaimHeld(r)

\* The list and every copy of it are sound, and a slave about to append read
\* a list without its address.
CopiesSound ==
    /\ Sound(nodeList)
    /\ \A s \in Slave :
        /\ Sound(copy[s])
        /\ node[s] = "append" => ~HasAddress(copy[s], AddrOf[s])
    /\ \A m \in Manager : Sound(scanned[m]) /\ Sound(unwatched[m])
    /\ \A d \in deletes : Sound(d.list)

Inv == TypeOK /\ CopiesSound

\* What no step takes away: a slave stays registered but for the end of its
\* service, a manager that has started does not become new again nor comes
\* back, keeps its notes and, unless a poll fails, its watches of services.
Kept ==
    /\ \A s \in Slave : Registered(s) => Registered(s)'
    /\ \A m \in Manager : manager[m] # "new" => manager'[m] # "new"
    /\ \A m \in Manager : manager'[m] # "gone" =>
        manager[m] # "gone" /\ local[m] \subseteq local'[m]
    /\ \A s \in Slave : Registered(s) /\ s \in services' => s \in services
    /\ spent'.polls = 0 => spent.polls = 0
    /\ \A w \in watches :
        spent'.polls = 0 /\ manager'[w.mgr] # "gone" /\ w.name \in services'
            => w \in watches'

-----------------------------------------------------------------------------
\* The initial state satisfies the invariant.
LEMMA InitInv == Init => Inv
<1> SUFFICES ASSUME Init PROVE Inv
  OBVIOUS
<1>1. TypeOK
  BY DEF Init, TypeOK, Budget
<1>2. CopiesSound
  BY DEF Init, CopiesSound, Sound, UniqueAddr
<1> QED
  BY <1>1, <1>2 DEF Inv

\* Counting an event keeps the counters numbers, and they never go down.
LEMMA SpendCounts ==
  ASSUME spent \in Budget, NEW E, Spend(E)
  PROVE  /\ spent' \in Budget
         /\ spent'.polls = 0 => spent.polls = 0
<1>1. DOMAIN spent = {"errors", "polls", "crashes", "signals", "deletes"}
  BY DEF Budget
<1>2. spent' = [e \in DOMAIN spent |->
                  IF e \in E THEN spent[e] + 1 ELSE spent[e]]
  BY DEF Spend
<1>3. \A e \in DOMAIN spent : spent[e] \in Nat
  BY DEF Budget
<1>4. \A e \in DOMAIN spent : spent'[e] \in Nat /\ (spent'[e] = 0 => spent[e] = 0)
  BY <1>2, <1>3
<1>5. spent' = [errors |-> spent'.errors, polls |-> spent'.polls,
                crashes |-> spent'.crashes, signals |-> spent'.signals,
                deletes |-> spent'.deletes]
  BY <1>1, <1>2
<1> QED
  BY <1>1, <1>4, <1>5 DEF Budget

\* A read yields a sound list and counts.
LEMMA GetSound ==
  ASSUME Inv, NEW list \in {nodeList, {}}, Get(list)
  PROVE  /\ list \in SUBSET Record
         /\ Sound(list)
         /\ spent' \in Budget
         /\ spent'.polls = 0 => spent.polls = 0
<1>1. Sound({})
  BY DEF Sound, UniqueAddr
<1>2. list \in SUBSET Record /\ Sound(list)
  BY <1>1 DEF Inv, TypeOK, CopiesSound
<1>3. spent' \in Budget /\ (spent'.polls = 0 => spent.polls = 0)
  <2>1. CASE UNCHANGED spent
    BY <2>1 DEF Inv, TypeOK
  <2>2. CASE Spend({"errors"})
    BY <2>2, SpendCounts DEF Inv, TypeOK
  <2> QED
    BY <2>1, <2>2 DEF Get
<1> QED
  BY <1>2, <1>3

\* A write leaves the new list or the old one.
LEMMA PutCounts ==
  ASSUME TypeOK, NEW list, Put(list)
  PROVE  /\ nodeList' \in {list, nodeList}
         /\ spent' \in Budget
         /\ spent'.polls = 0 => spent.polls = 0
<1>1. CASE nodeList' = list /\ UNCHANGED spent
  BY <1>1 DEF TypeOK
<1>2. CASE UNCHANGED nodeList /\ Spend({"errors"})
  BY <1>2, SpendCounts DEF TypeOK
<1> QED
  BY <1>1, <1>2 DEF Put

\* What is kept keeps a list sound.
LEMMA KeptSound ==
  ASSUME TypeOK, Kept, NEW list \in SUBSET Record, Sound(list)
  PROVE  Sound(list)'
<1>1. UniqueAddr(list)'
  BY DEF Sound, UniqueAddr
<1>2. ASSUME NEW r \in list
      PROVE  Registered(r.name)' /\ ClaimHeld(r)'
  <2>1. r.name \in Slave /\ r.watch \in Manager \cup {NoManager}
    BY DEF Record
  <2>2. Registered(r.name) /\ ClaimHeld(r)
    BY DEF Sound
  <2>3. Registered(r.name)'
    BY <2>1, <2>2 DEF Kept
  <2>4. ASSUME r.watch # NoManager PROVE ClaimHeld(r)'
    <3>1. r.watch \in Manager
      BY <2>1, <2>4
    <3>2. manager'[r.watch] # "new"
      BY <2>2, <2>4, <3>1 DEF ClaimHeld, Kept
    <3>3. manager'[r.watch] # "gone" => r.name \in local'[r.watch]
      BY <2>2, <2>4, <3>1 DEF ClaimHeld, Kept
    <3>4. ASSUME spent'.polls = 0, manager'[r.watch] # "gone",
                 r.name \in services'
          PROVE  [mgr |-> r.watch, name |-> r.name] \in watches'
      <4> DEFINE w == [mgr |-> r.watch, name |-> r.name]
      <4>1. r.name \in services /\ spent.polls = 0 /\ manager[r.watch] # "gone"
        BY <2>1, <2>2, <3>1, <3>4 DEF Kept
      <4>2. w \in watches
        BY <2>2, <2>4, <4>1 DEF ClaimHeld
      <4>3. w.mgr = r.watch /\ w.name = r.name
        OBVIOUS
      <4> HIDE DEF w
      <4>4. w \in watches'
        BY <3>4, <4>2, <4>3 DEF Kept
      <4> QED
        BY <4>4 DEF w
    <3> QED
      BY <3>2, <3>3, <3>4 DEF ClaimHeld
  <2>5. r.watch = NoManager => ClaimHeld(r)'
    BY DEF ClaimHeld
  <2> QED
    BY <2>3, <2>4, <2>5
<1> QED
  BY <1>1, <1>2 DEF Sound
\* The same for every list at once.
LEMMA AllKept ==
  ASSUME Inv, Kept
  PROVE  \A list \in SUBSET Record : Sound(list) => Sound(list)'
BY KeptSound DEF Inv

\* A part of a sound list is sound.
LEMMA PartSound ==
  ASSUME NEW list, Sound(list), NEW part \in SUBSET list
  PROVE  Sound(part)
BY DEF Sound, UniqueAddr

\* Nothing touches the lists: they stay sound.
LEMMA SameLists ==
  ASSUME Inv, Kept,
         UNCHANGED <<nodeList, copy, scanned, unwatched, deletes>>,
         \A s \in Slave : node'[s] = "append" => node[s] = "append"
  PROVE  CopiesSound'
<1> USE DEF Inv, CopiesSound
<1>1. \A list \in SUBSET Record : Sound(list) => Sound(list)'
  BY AllKept
<1>2. Sound(nodeList)'
  BY <1>1 DEF TypeOK
<1>3. ASSUME NEW s \in Slave
      PROVE  /\ Sound(copy[s])'
             /\ (node[s] = "append" => ~HasAddress(copy[s], AddrOf[s]))'
  <2>1. copy[s] \in SUBSET Record
    BY DEF TypeOK
  <2> QED
    BY <1>1, <2>1
<1>4. ASSUME NEW m \in Manager PROVE Sound(scanned[m])' /\ Sound(unwatched[m])'
  <2>1. scanned[m] \in SUBSET Record /\ unwatched[m] \in SUBSET Record
    BY DEF TypeOK
  <2> QED
    BY <1>1, <2>1
<1>5. ASSUME NEW d \in deletes' PROVE Sound(d.list)'
  <2>1. d.list \in SUBSET Record
    BY DEF TypeOK, Delete
  <2> QED
    BY <1>1, <2>1
<1> QED
  BY <1>2, <1>3, <1>4, <1>5

\* The empty list is sound.
LEMMA EmptySound == {} \in SUBSET Record /\ Sound({})
BY DEF Sound, UniqueAddr

\* A step that writes a sound list, and gives one slave a sound copy, keeps
\* every list sound.
LEMMA CopyWritten ==
  ASSUME Inv, Kept, UNCHANGED <<scanned, unwatched, deletes>>,
         nodeList' \in SUBSET Record, Sound(nodeList'),
         NEW s \in Slave, NEW list \in SUBSET Record, Sound(list),
         copy' = [copy EXCEPT ![s] = list],
         \A t \in Slave : node'[t] = "append" =>
            \/ t # s /\ node[t] = "append"
            \/ t = s /\ ~HasAddress(list, AddrOf[s])
  PROVE  CopiesSound'
<1> USE DEF Inv, CopiesSound
<1>1. \A l \in SUBSET Record : Sound(l) => Sound(l)'
  BY AllKept
<1>2. Sound(nodeList)'
  BY <1>1
<1>3. ASSUME NEW t \in Slave
      PROVE  /\ Sound(copy[t])'
             /\ (node[t] = "append" => ~HasAddress(copy[t], AddrOf[t]))'
  <2>1. copy[t] \in SUBSET Record /\ Sound(copy[t])
    BY DEF TypeOK
  <2>2. copy'[t] = IF t = s THEN list ELSE copy[t]
    BY DEF TypeOK
  <2> QED
    BY <1>1, <2>1, <2>2
<1>4. ASSUME NEW m \in Manager PROVE Sound(scanned[m])' /\ Sound(unwatched[m])'
  <2>1. scanned[m] \in SUBSET Record /\ unwatched[m] \in SUBSET Record
    BY DEF TypeOK
  <2> QED
    BY <1>1, <2>1
<1>5. ASSUME NEW d \in deletes' PROVE Sound(d.list)'
  <2>1. d.list \in SUBSET Record
    BY DEF TypeOK, Delete
  <2> QED
    BY <1>1, <2>1
<1> QED
  BY <1>2, <1>3, <1>4, <1>5

\* The same when the list is left alone.
LEMMA CopyChanged ==
  ASSUME Inv, Kept, UNCHANGED <<nodeList, scanned, unwatched, deletes>>,
         NEW s \in Slave, NEW list \in SUBSET Record, Sound(list),
         copy' = [copy EXCEPT ![s] = list],
         \A t \in Slave : node'[t] = "append" =>
            \/ t # s /\ node[t] = "append"
            \/ t = s /\ ~HasAddress(list, AddrOf[s])
  PROVE  CopiesSound'
<1>1. nodeList' \in SUBSET Record /\ Sound(nodeList')
  BY DEF Inv, TypeOK, CopiesSound
<1> QED
  BY <1>1, CopyWritten

-----------------------------------------------------------------------------
(***************************************************************************)
(* The steps of a node slave.                                              *)
(***************************************************************************)
LEMMA NodeTyped ==
  ASSUME TypeOK, NEW s \in Slave,
         NodeBoot(s) \/ Reg(s) \/ Append(s) \/ Pop(s) \/ DelReg(s) \/ Reap(s)
  PROVE  TypeOK'
<1> USE DEF TypeOK
<1>1. CASE NodeBoot(s)
  BY <1>1 DEF NodeBoot, managerVars
<1>2. CASE Reg(s)
  BY <1>2 DEF Reg, managerVars
<1>3. CASE Append(s)
  <2>1. AddrOf[s] \in Address
    BY ConstantsOK
  <2>2. copy[s] \cup {[name |-> s, addr |-> AddrOf[s], watch |-> NoManager]}
            \in SUBSET Record
    BY <2>1 DEF Record
  <2>3. nodeList' \in SUBSET Record /\ spent' \in Budget
    BY <1>3, <2>2, PutCounts DEF Append
  <2> QED
    BY <1>3, <2>3 DEF Append, managerVars
<1>4. CASE Pop(s)
  <2>1. nodeList' \in SUBSET Record /\ spent' \in Budget
    BY <1>4, PutCounts DEF Pop
  <2> QED
    BY <1>4, <2>1 DEF Pop, managerVars
<1>5. CASE DelReg(s)
  BY <1>5 DEF DelReg, managerVars
<1>6. CASE Reap(s)
  BY <1>6 DEF Reap, managerVars
<1> QED
  BY <1>1, <1>2, <1>3, <1>4, <1>5, <1>6

\* A step that leaves managers and watches alone keeps what must be kept if
\* services only end, or begin for a slave not yet registered.
LEMMA NodeKept ==
  ASSUME TypeOK, UNCHANGED <<manager, local, watches>>,
         spent'.polls = 0 => spent.polls = 0,
         \A s \in Slave : Registered(s) => Registered(s)',
         \A s \in Slave : Registered(s) /\ s \in services' => s \in services
  PROVE  Kept
BY DEF Kept

\* What a node slave does keeps the invariant.
LEMMA NodeInv ==
  ASSUME Inv, NEW s \in Slave,
         \/ NodeBoot(s) \/ NodeStep(s) \/ NodeStop(s) \/ NodeCrash(s) \/ Reap(s)
         \/ \E t \in Slave : NodeReload(s, t)
  PROVE  Inv'
<1> USE DEF Inv
<1>1. CASE NodeBoot(s) \/ Reg(s) \/ DelReg(s) \/ Reap(s)
  <2>1. TypeOK'
    BY <1>1, NodeTyped
  <2>2. Kept
    BY <1>1, NodeKept
       DEF NodeBoot, Reg, DelReg, Reap, managerVars, Registered, TypeOK
  <2>3. CopiesSound'
    BY <1>1, <2>2, SameLists
       DEF NodeBoot, Reg, DelReg, Reap, managerVars, nodeVars, TypeOK
  <2> QED
    BY <2>1, <2>3
<1>2. CASE NodeStop(s) \/ \E t \in Slave : NodeReload(s, t)
  <2>1. spent' \in Budget /\ (spent'.polls = 0 => spent.polls = 0)
    BY <1>2, SpendCounts DEF NodeStop, NodeReload, TypeOK
  <2>2. TypeOK'
    BY <1>2, <2>1 DEF NodeStop, NodeReload, managerVars, TypeOK
  <2>3. Kept
    BY <1>2, <2>1, NodeKept
       DEF NodeStop, NodeReload, managerVars, Registered, TypeOK
  <2>4. CopiesSound'
    BY <1>2, <2>3, SameLists DEF NodeStop, NodeReload, managerVars, TypeOK
  <2> QED
    BY <2>2, <2>4
<1>3. CASE NodeCrash(s)
  <2>1. spent' \in Budget /\ (spent'.polls = 0 => spent.polls = 0)
    BY <1>3, SpendCounts DEF NodeCrash, TypeOK
  <2>2. TypeOK'
    BY <1>3, <2>1 DEF NodeCrash, managerVars, TypeOK
  <2>3. Kept
    BY <1>3, <2>1, NodeKept DEF NodeCrash, managerVars, Registered, NodeRuns, TypeOK
  <2>4. copy' = [copy EXCEPT ![s] = {}]
    BY <1>3 DEF NodeCrash
  <2>5. \A t \in Slave : node'[t] = "append" => t # s /\ node[t] = "append"
    BY <1>3 DEF NodeCrash, TypeOK
  <2>6. UNCHANGED <<nodeList, scanned, unwatched, deletes>>
    BY <1>3 DEF NodeCrash, managerVars
  <2> QED
    BY <2>2, <2>3, <2>4, <2>5, <2>6, CopyChanged, EmptySound
<1>4. CASE Find(s)
  <2>1. PICK list \in {nodeList, {}} :
          /\ Get(list)
          /\ IF HasAddress(list, AddrOf[s])
             THEN /\ node' = [node EXCEPT ![s] = "serving"]
                  /\ UNCHANGED copy
             ELSE /\ node' = [node EXCEPT ![s] = "append"]
                  /\ copy' = [copy EXCEPT ![s] = list]
    BY <1>4 DEF Find
  <2>2. /\ list \in SUBSET Record /\ Sound(list)
        /\ spent' \in Budget /\ (spent'.polls = 0 => spent.polls = 0)
    BY <2>1, GetSound
  <2>3. UNCHANGED <<nodeList, services, managerVars>> /\ node[s] = "find"
    BY <1>4 DEF Find
  <2>4. TypeOK'
    BY <2>1, <2>2, <2>3 DEF managerVars, TypeOK
  <2>5. Kept
    BY <2>1, <2>2, <2>3, NodeKept DEF managerVars, Registered, TypeOK
  <2>6. CASE HasAddress(list, AddrOf[s])
    BY <2>1, <2>3, <2>4, <2>5, <2>6, SameLists DEF managerVars, TypeOK
  <2>7. CASE ~HasAddress(list, AddrOf[s])
    <3>1. \A t \in Slave : node'[t] = "append" =>
                t = s \/ (t # s /\ node[t] = "append")
      BY <2>1, <2>7 DEF TypeOK
    <3> QED
      BY <2>1, <2>2, <2>3, <2>4, <2>5, <2>7, <3>1, CopyChanged DEF managerVars
  <2> QED
    BY <2>6, <2>7
<1>5. CASE PopRead(s)
  <2>1. PICK list \in {nodeList, {}} :
          Get(list) /\ copy' = [copy EXCEPT ![s] = list]
    BY <1>5 DEF PopRead
  <2>2. /\ list \in SUBSET Record /\ Sound(list)
        /\ spent' \in Budget /\ (spent'.polls = 0 => spent.polls = 0)
    BY <2>1, GetSound
  <2>3. /\ UNCHANGED <<nodeList, services, managerVars>>
        /\ node[s] = "leave"
        /\ node' = [node EXCEPT ![s] = "pop"]
    BY <1>5 DEF PopRead
  <2>4. TypeOK'
    BY <2>1, <2>2, <2>3 DEF managerVars, TypeOK
  <2>5. Kept
    BY <2>2, <2>3, NodeKept DEF managerVars, Registered, TypeOK
  <2>6. \A t \in Slave : node'[t] = "append" => t # s /\ node[t] = "append"
    BY <2>3 DEF TypeOK
  <2> QED
    BY <2>1, <2>2, <2>3, <2>4, <2>5, <2>6, CopyChanged DEF managerVars
<1>6. CASE Append(s)
  <2>1. TypeOK'
    BY <1>6, NodeTyped
  <2> DEFINE own == [name |-> s, addr |-> AddrOf[s], watch |-> NoManager]
  <2>2. /\ nodeList' \in {copy[s] \cup {own}, nodeList}
        /\ spent'.polls = 0 => spent.polls = 0
    BY <1>6, PutCounts DEF Append
  <2>3. Kept
    BY <1>6, <2>2, NodeKept DEF Append, managerVars, Registered, TypeOK
  <2>4. Sound(copy[s]) /\ Sound(nodeList) /\ nodeList' \in SUBSET Record
    BY <2>1 DEF TypeOK, CopiesSound
  <2>5. UniqueAddr(copy[s] \cup {own})
    <3>1. \A r \in copy[s] : r.addr # own.addr
      BY <1>6 DEF Append, CopiesSound, HasAddress
    <3> QED
      BY <2>4, <3>1 DEF Sound, UniqueAddr
  <2>6. Registered(own.name) /\ ClaimHeld(own)
    BY <1>6 DEF Append, Registered, ClaimHeld
  <2>7. Sound(copy[s] \cup {own})
    BY <2>4, <2>5, <2>6 DEF Sound
  <2>8. \A t \in Slave : node'[t] = "append" => t # s /\ node[t] = "append"
    BY <1>6 DEF Append, TypeOK
  <2>9. Sound(nodeList')
    BY <2>2, <2>4, <2>7
  <2> HIDE DEF own
  <2> QED
    BY <1>6, <2>1, <2>3, <2>4, <2>8, <2>9, CopyWritten, EmptySound
       DEF Append, managerVars
<1>7. CASE Pop(s)
  <2>1. TypeOK'
    BY <1>7, NodeTyped
  <2> DEFINE rest == {r \in copy[s] : r.addr # AddrOf[s]}
  <2>2. /\ nodeList' \in {rest, nodeList}
        /\ spent'.polls = 0 => spent.polls = 0
    BY <1>7, PutCounts DEF Pop
  <2>3. Kept
    BY <1>7, <2>2, NodeKept DEF Pop, managerVars, Registered, TypeOK
  <2>4. rest \in SUBSET copy[s] /\ nodeList' \in SUBSET Record
        /\ Sound(copy[s]) /\ Sound(nodeList)
    BY <2>1 DEF TypeOK, CopiesSound
  <2>5. Sound(nodeList')
    BY <2>2, <2>4, PartSound
  <2>6. \A t \in Slave : node'[t] = "append" => t # s /\ node[t] = "append"
    BY <1>7 DEF Pop, TypeOK
  <2> HIDE DEF rest
  <2> QED
    BY <1>7, <2>1, <2>3, <2>4, <2>5, <2>6, CopyWritten, EmptySound
       DEF Pop, managerVars
<1> QED
  BY <1>1, <1>2, <1>3, <1>4, <1>5, <1>6, <1>7 DEF NodeStep
-----------------------------------------------------------------------------
(***************************************************************************)
(* The steps of a manager slave, of the watches and of the API.            *)
(***************************************************************************)

\* A step that leaves the slaves alone writes lists: every one is sound.
LEMMA ListsWritten ==
  ASSUME Inv, Kept, UNCHANGED <<node, copy>>, TypeOK',
         Sound(nodeList'),
         \A m \in Manager : Sound(scanned'[m]) /\ Sound(unwatched'[m]),
         \A d \in deletes' : Sound(d.list)
  PROVE  CopiesSound'
<1> USE DEF Inv
<1>1. \A l \in SUBSET Record : Sound(l) => Sound(l)'
  BY AllKept
<1>2. Sound(nodeList)'
  BY <1>1 DEF TypeOK
<1>3. ASSUME NEW t \in Slave
      PROVE  /\ Sound(copy[t])'
             /\ (node[t] = "append" => ~HasAddress(copy[t], AddrOf[t]))'
  <2>1. copy[t] \in SUBSET Record /\ Sound(copy[t])
    BY DEF TypeOK, CopiesSound
  <2> QED
    BY <1>1, <2>1 DEF CopiesSound
<1>4. ASSUME NEW m \in Manager PROVE Sound(scanned[m])' /\ Sound(unwatched[m])'
  <2>1. scanned'[m] \in SUBSET Record /\ unwatched'[m] \in SUBSET Record
    BY DEF TypeOK
  <2> QED
    BY <1>1, <2>1
<1>5. ASSUME NEW d \in deletes' PROVE Sound(d.list)'
  <2>1. d.list \in SUBSET Record
    BY DEF TypeOK, Delete
  <2> QED
    BY <1>1, <2>1
<1> QED
  BY <1>2, <1>3, <1>4, <1>5 DEF CopiesSound

\* The claims of a scan leave addresses as they are, and each has its note
\* and its goroutine.  A claim takes one step with its notes, so the list of
\* the scan is sound only after the step.
LEMMA ClaimInv ==
  ASSUME Inv, NEW m \in Manager, Claim(m)
  PROVE  Inv'
<1> USE DEF Inv
<1>1. PICK mistaken, old, claimed, marked :
        /\ mistaken \in SUBSET Mistakable(m)
        /\ IF mistaken = {} THEN UNCHANGED spent ELSE Spend({"errors"})
        /\ watches' = watches \cup Started(m, claimed)
        /\ local' = [local EXCEPT ![m] = Noted(m, claimed)]
        /\ \/ scan' = [scan EXCEPT ![m] = "idle"]
              /\ scanned' = [scanned EXCEPT ![m] = {}]
           \/ scan' = [scan EXCEPT ![m] = "save"]
              /\ scanned' = [scanned EXCEPT ![m] = marked]
        /\ old = scanned[m]
        /\ claimed = {r \in old : Unclaimed(m, r)} \cup mistaken
        /\ marked = (old \ claimed) \cup {[r EXCEPT !.watch = m] : r \in claimed}
  BY DEF Claim
<1>2. /\ watches' = watches \cup {[mgr |-> m, name |-> r.name] : r \in claimed}
      /\ local' = [local EXCEPT ![m] = local[m] \cup {r.name : r \in claimed}]
      /\ \/ scan' = [scan EXCEPT ![m] = "idle"] /\ scanned' = [scanned EXCEPT ![m] = {}]
         \/ scan' = [scan EXCEPT ![m] = "save"] /\ scanned' = [scanned EXCEPT ![m] = marked]
      /\ UNCHANGED <<nodeList, services, node, copy, manager, unwatched, alive,
                     deletes>>
      /\ ManagerRuns(m)
      /\ spent' \in Budget /\ (spent'.polls = 0 => spent.polls = 0)
  BY <1>1, SpendCounts DEF Claim, Started, Noted, nodeVars, TypeOK
<1>3. old \in SUBSET Record /\ claimed \in SUBSET old /\ Sound(old)
  BY <1>1 DEF Mistakable, TypeOK, CopiesSound
<1>4. marked \in SUBSET Record
  <2>1. \A r \in claimed : [r EXCEPT !.watch = m] \in Record
    BY <1>3 DEF Record
  <2> QED
    BY <1>1, <1>3, <2>1
<1>5. Kept
  <2>1. \A n \in Manager : local[n] \subseteq local'[n]
    BY <1>2 DEF TypeOK
  <2>2. watches \subseteq watches'
    BY <1>2
  <2> QED
    BY <1>2, <2>1, <2>2 DEF Kept, Registered
<1>6. TypeOK'
  <2>1. \A r \in claimed : r.name \in Slave
    BY <1>3 DEF Record
  <2>2. watches' \in SUBSET Watch
    BY <1>2, <2>1 DEF TypeOK, Watch
  <2>3. local' \in [Manager -> SUBSET Slave]
    BY <1>2, <2>1 DEF TypeOK
  <2>4. /\ scanned' \in [Manager -> SUBSET Record]
        /\ scan' \in [Manager -> {"idle", "claim", "save"}]
    BY <1>2, <1>4 DEF TypeOK
  <2> QED
    BY <1>2, <2>2, <2>3, <2>4 DEF TypeOK
<1>7. \A l \in SUBSET Record : Sound(l) => Sound(l)'
  BY <1>5, AllKept
<1>8. Sound(marked)'
  <2>1. UniqueAddr(old) /\ Sound(old)'
    BY <1>3, <1>7 DEF Sound
  <2>2. ASSUME NEW q \in marked
        PROVE  \E r \in old :
                 /\ q.addr = r.addr /\ q.name = r.name
                 /\ \/ r \in claimed /\ q = [r EXCEPT !.watch = m]
                    \/ r \notin claimed /\ q = r
    BY <1>1, <1>3 DEF Record
  <2>3. UniqueAddr(marked)
    BY <2>1, <2>2 DEF UniqueAddr
  <2>4. ASSUME NEW q \in marked PROVE Registered(q.name)' /\ ClaimHeld(q)'
    <3>1. PICK r \in old :
            /\ q.name = r.name
            /\ \/ r \in claimed /\ q = [r EXCEPT !.watch = m]
               \/ r \notin claimed /\ q = r
      BY <2>2
    <3>2. Registered(r.name)' /\ ClaimHeld(r)'
      BY <2>1 DEF Sound
    <3>3. CASE q = r
      BY <3>2, <3>3
    <3>4. CASE r \in claimed /\ q = [r EXCEPT !.watch = m]
      <4>1. q.watch = m /\ m # NoManager
        BY <1>3, <3>4, ConstantsOK DEF Record
      <4>2. q.name \in local'[m]
        BY <1>2, <3>1, <3>4 DEF TypeOK
      <4>3. [mgr |-> m, name |-> q.name] \in watches'
        BY <1>2, <3>1, <3>4
      <4>4. manager'[m] # "new"
        BY <1>2 DEF ManagerRuns
      <4>5. ClaimHeld(q)'
        BY <4>1, <4>2, <4>3, <4>4 DEF ClaimHeld
      <4> QED
        BY <3>1, <3>2, <4>5
    <3> QED
      BY <3>1, <3>3, <3>4
  <2> QED
    BY <2>3, <2>4 DEF Sound, UniqueAddr
<1>9. CopiesSound'
  <2>1. ASSUME NEW n \in Manager PROVE Sound(scanned[n])' /\ Sound(unwatched[n])'
    <3>1. PICK a, b : a = scanned[n] /\ b = unwatched[n]
      OBVIOUS
    <3>2. /\ a \in SUBSET Record /\ Sound(a)
          /\ b \in SUBSET Record /\ Sound(b)
      BY <3>1 DEF TypeOK, CopiesSound
    <3>3. Sound({})' /\ Sound(a)' /\ Sound(b)'
      BY <1>7, <3>2, EmptySound
    <3>4. scanned'[n] \in {a, {}, marked} /\ unwatched'[n] = b
      BY <1>2, <3>1 DEF TypeOK
    <3> QED
      BY <1>8, <3>3, <3>4
  <2>2. Sound(nodeList)'
    BY <1>2, <1>7 DEF TypeOK, CopiesSound
  <2>3. ASSUME NEW s \in Slave
        PROVE  /\ Sound(copy[s])'
               /\ (node[s] = "append" => ~HasAddress(copy[s], AddrOf[s]))'
    <3>1. copy[s] \in SUBSET Record /\ Sound(copy[s])
      BY DEF TypeOK, CopiesSound
    <3> QED
      BY <1>2, <1>7, <3>1 DEF CopiesSound
  <2>4. \A d \in deletes' : Sound(d.list)'
    <3>1. \A d \in deletes : d.list \in SUBSET Record /\ Sound(d.list)
      BY DEF TypeOK, CopiesSound, Delete
    <3> QED
      BY <1>2, <1>7, <3>1
  <2> QED
    BY <2>1, <2>2, <2>3, <2>4 DEF CopiesSound
<1> QED
  BY <1>6, <1>9
\* A manager that starts, is signalled or is forgotten, and a watch that
\* ends, touch no list.
LEMMA QuietInv ==
  ASSUME Inv,
         \/ \E m \in Manager : ManagerBoot(m) \/ Expire(m)
         \/ \E m, n \in Manager : ManagerReload(m, n)
         \/ \E w \in watches : WatchOffline(w) \/ WatchError(w)
  PROVE  Inv'
<1> USE DEF Inv
<1>1. ASSUME NEW m \in Manager, ManagerBoot(m) \/ Expire(m) PROVE Inv'
  <2>1. TypeOK'
    BY <1>1 DEF ManagerBoot, Expire, nodeVars, TypeOK
  <2>2. Kept
    BY <1>1 DEF ManagerBoot, Expire, nodeVars, Kept, Registered, TypeOK
  <2>3. CopiesSound'
    BY <1>1, <2>2, SameLists DEF ManagerBoot, Expire, nodeVars
  <2> QED
    BY <2>1, <2>3
<1>2. ASSUME NEW m \in Manager, NEW n \in Manager, ManagerReload(m, n) PROVE Inv'
  <2>1. spent' \in Budget /\ (spent'.polls = 0 => spent.polls = 0)
    BY <1>2, SpendCounts DEF ManagerReload, TypeOK
  <2>2. TypeOK'
    BY <1>2, <2>1 DEF ManagerReload, nodeVars, TypeOK
  <2>3. Kept
    BY <1>2, <2>1 DEF ManagerReload, nodeVars, Kept, Registered, TypeOK
  <2>4. CopiesSound'
    BY <1>2, <2>3, SameLists DEF ManagerReload, nodeVars
  <2> QED
    BY <2>2, <2>4
<1>3. ASSUME NEW w \in watches, WatchOffline(w) PROVE Inv'
  <2>1. TypeOK'
    BY <1>3 DEF WatchOffline, nodeVars, TypeOK
  <2>2. Kept
    BY <1>3 DEF WatchOffline, nodeVars, Kept, Registered
  <2>3. CopiesSound'
    BY <1>3, <2>2, SameLists DEF WatchOffline, nodeVars
  <2> QED
    BY <2>1, <2>3
<1>4. ASSUME NEW w \in watches, WatchError(w) PROVE Inv'
  <2>1. spent' \in Budget /\ spent'.polls # 0
    <3>1. spent' \in Budget
      BY <1>4, SpendCounts DEF WatchError, TypeOK
    <3>2. spent'.polls = spent.polls + 1
      BY <1>4 DEF WatchError, Spend, TypeOK, Budget
    <3> QED
      BY <3>1, <3>2 DEF TypeOK, Budget
  <2>2. TypeOK'
    BY <1>4, <2>1 DEF WatchError, nodeVars, TypeOK
  <2>3. Kept
    BY <1>4, <2>1 DEF WatchError, nodeVars, Kept, Registered
  <2>4. CopiesSound'
    BY <1>4, <2>3, SameLists DEF WatchError, nodeVars
  <2> QED
    BY <2>2, <2>4
<1> QED
  BY <1>1, <1>2, <1>3, <1>4

\* A released record keeps its address and claims less.
LEMMA ReleasedSound ==
  ASSUME Inv, NEW m \in Manager, NEW list \in SUBSET Record, Sound(list)
  PROVE  LET released == {Released(m, r) : r \in list}
         IN  released \in SUBSET Record /\ Sound(released)
<1> DEFINE released == {Released(m, r) : r \in list}
<1>1. ASSUME NEW r \in list
      PROVE  /\ Released(m, r) \in Record
             /\ Released(m, r).addr = r.addr
             /\ Released(m, r).name = r.name
             /\ Released(m, r).watch \in {r.watch, NoManager}
  BY <1>1 DEF Released, Record
<1>2. released \in SUBSET Record
  BY <1>1
<1>3. UniqueAddr(released)
  BY <1>1 DEF Sound, UniqueAddr
<1>4. ASSUME NEW r \in list
      PROVE  Registered(Released(m, r).name) /\ ClaimHeld(Released(m, r))
  <2>1. Registered(r.name) /\ ClaimHeld(r)
    BY DEF Sound
  <2> QED
    BY <1>1, <2>1 DEF ClaimHeld
<1> QED
  BY <1>2, <1>3, <1>4 DEF Sound

\* A manager that signs, reads and writes the list, or exits.
LEMMA ManagerInv ==
  ASSUME Inv, NEW m \in Manager,
         \/ ScanRead(m) \/ ScanSave(m) \/ ManagerExitStep(m) \/ ManagerCrash(m)
  PROVE  Inv'
<1> USE DEF Inv
<1>0. /\ Sound(nodeList)
      /\ \A n \in Manager :
            /\ scanned[n] \in SUBSET Record /\ Sound(scanned[n])
            /\ unwatched[n] \in SUBSET Record /\ Sound(unwatched[n])
      /\ \A d \in deletes : Sound(d.list)
  BY DEF CopiesSound, TypeOK
<1>1. CASE ScanRead(m)
  <2>1. PICK list \in {nodeList, {}} :
          Get(list) /\ scanned' = [scanned EXCEPT ![m] = list]
    BY <1>1 DEF ScanRead
  <2>2. /\ list \in SUBSET Record /\ Sound(list)
        /\ spent' \in Budget /\ (spent'.polls = 0 => spent.polls = 0)
    BY <2>1, GetSound
  <2>3. TypeOK'
    BY <1>1, <2>1, <2>2 DEF ScanRead, nodeVars, TypeOK
  <2>4. Kept
    BY <1>1, <2>2 DEF ScanRead, nodeVars, Kept, Registered
  <2>5. \A n \in Manager : Sound(scanned'[n])
    BY <1>0, <2>1, <2>2 DEF TypeOK
  <2> QED
    BY <1>0, <1>1, <2>3, <2>4, <2>5, ListsWritten DEF ScanRead, nodeVars
<1>2. CASE ScanSave(m)
  <2>0. /\ nodeList' \in {scanned[m], nodeList}
        /\ spent' \in Budget /\ (spent'.polls = 0 => spent.polls = 0)
    BY <1>2, PutCounts DEF ScanSave
  <2>1. TypeOK'
    BY <1>2, <2>0 DEF ScanSave, nodeVars, TypeOK
  <2>2. Kept
    BY <1>2, <2>0 DEF ScanSave, nodeVars, Kept, Registered
  <2>3. \A n \in Manager : Sound(scanned'[n])
    BY <1>0, <1>2, EmptySound DEF ScanSave, TypeOK
  <2>4. Sound(nodeList')
    BY <1>0, <2>0
  <2> QED
    BY <1>0, <1>2, <2>1, <2>2, <2>3, <2>4, ListsWritten DEF ScanSave, nodeVars
<1>3. CASE UnwatchRead(m)
  <2>1. PICK list \in {nodeList, {}} :
          /\ Get(list)
          /\ \/ /\ manager' = [manager EXCEPT ![m] = "unsave"]
                /\ unwatched' = [unwatched EXCEPT ![m] =
                                    {Released(m, r) : r \in list}]
             \/ /\ manager' = [manager EXCEPT ![m] = "drain"]
                /\ UNCHANGED unwatched
    BY <1>3 DEF UnwatchRead
  <2>2. /\ list \in SUBSET Record /\ Sound(list)
        /\ spent' \in Budget /\ (spent'.polls = 0 => spent.polls = 0)
    BY <2>1, GetSound
  <2>3. PICK released : /\ released = {Released(m, r) : r \in list}
                        /\ released \in SUBSET Record /\ Sound(released)
    BY <2>2, ReleasedSound
  <2>4. unwatched' \in {unwatched, [unwatched EXCEPT ![m] = released]}
    BY <2>1, <2>3
  <2>5. /\ UNCHANGED <<nodeList, nodeVars, scan, scanned, local, alive, watches,
                       deletes>>
        /\ manager[m] = "leave"
    BY <1>3 DEF UnwatchRead
  <2>6. unwatched' \in [Manager -> SUBSET Record]
    BY <2>3, <2>4 DEF TypeOK
  <2>7. TypeOK'
    BY <2>1, <2>2, <2>5, <2>6 DEF nodeVars, TypeOK
  <2>8. Kept
    BY <2>1, <2>2, <2>5 DEF nodeVars, Kept, Registered, TypeOK
  <2>9. \A n \in Manager : Sound(unwatched'[n])
    BY <1>0, <2>3, <2>4 DEF TypeOK
  <2> QED
    BY <1>0, <2>5, <2>7, <2>8, <2>9, ListsWritten DEF nodeVars
<1>4. CASE UnwatchSave(m)
  <2>0. /\ nodeList' \in {unwatched[m], nodeList}
        /\ spent' \in Budget /\ (spent'.polls = 0 => spent.polls = 0)
    BY <1>4, PutCounts DEF UnwatchSave
  <2>1. TypeOK'
    BY <1>4, <2>0 DEF UnwatchSave, nodeVars, TypeOK
  <2>2. Kept
    BY <1>4, <2>0 DEF UnwatchSave, nodeVars, Kept, Registered, TypeOK
  <2>3. \A n \in Manager : Sound(unwatched'[n])
    BY <1>0, <1>4, EmptySound DEF UnwatchSave, TypeOK
  <2>4. Sound(nodeList')
    BY <1>0, <2>0
  <2> QED
    BY <1>0, <1>4, <2>1, <2>2, <2>3, <2>4, ListsWritten DEF UnwatchSave, nodeVars
<1>5. CASE ManagerExit(m) \/ ManagerCrash(m)
  <2>1. spent' \in Budget /\ (spent'.polls = 0 => spent.polls = 0)
    BY <1>5, SpendCounts DEF ManagerExit, ManagerCrash, TypeOK
  <2>2. Vanish(m)
    BY <1>5 DEF ManagerExit, ManagerCrash
  <2>3. TypeOK'
    BY <2>1, <2>2 DEF Vanish, nodeVars, TypeOK
  <2>4. Kept
    BY <2>1, <2>2 DEF Vanish, nodeVars, Kept, Registered, TypeOK
  <2>5. \A n \in Manager : Sound(scanned'[n]) /\ Sound(unwatched'[n])
    BY <1>0, <2>2, EmptySound DEF Vanish, TypeOK
  <2> QED
    BY <1>0, <2>2, <2>3, <2>4, <2>5, ListsWritten DEF Vanish, nodeVars
<1> QED
  BY <1>1, <1>2, <1>3, <1>4, <1>5 DEF ManagerExitStep

\* NodeDel reads and pops as a slave does.
LEMMA DeleteInv ==
  ASSUME Inv,
         \/ \E a \in Address : NodeDelRead(a)
         \/ \E d \in deletes : NodeDelPop(d)
  PROVE  Inv'
<1> USE DEF Inv
<1>0. /\ Sound(nodeList)
      /\ \A m \in Manager : Sound(scanned[m]) /\ Sound(unwatched[m])
      /\ \A d \in deletes : Sound(d.list)
  BY DEF CopiesSound
<1>1. ASSUME NEW a \in Address, NodeDelRead(a) PROVE Inv'
  <2>1. PICK list \in {nodeList, {}} :
          /\ deletes' = deletes \cup {[addr |-> a, list |-> list]}
          /\ \/ Spend({"deletes"})
             \/ Spend({"deletes", "errors"})
    BY <1>1 DEF NodeDelRead
  <2>2. list \in SUBSET Record /\ Sound(list)
    BY <1>0, EmptySound DEF TypeOK
  <2>3. spent' \in Budget /\ (spent'.polls = 0 => spent.polls = 0)
    BY <2>1, SpendCounts DEF TypeOK
  <2>4. deletes' \in SUBSET Delete
    BY <2>1, <2>2 DEF TypeOK, Delete
  <2>5. TypeOK'
    BY <1>1, <2>3, <2>4 DEF NodeDelRead, nodeVars, TypeOK
  <2>6. Kept
    BY <1>1, <2>3 DEF NodeDelRead, nodeVars, Kept, Registered
  <2>7. \A d \in deletes' : Sound(d.list)
    BY <1>0, <2>1, <2>2
  <2> QED
    BY <1>0, <1>1, <2>5, <2>6, <2>7, ListsWritten DEF NodeDelRead, nodeVars
<1>2. ASSUME NEW d \in deletes, NodeDelPop(d) PROVE Inv'
  <2>0. /\ nodeList' \in {{r \in d.list : r.addr # d.addr}, nodeList}
        /\ spent' \in Budget /\ (spent'.polls = 0 => spent.polls = 0)
    BY <1>2, PutCounts DEF NodeDelPop
  <2>1. d.list \in SUBSET Record
    BY <1>2 DEF TypeOK, Delete
  <2>2. Sound(nodeList')
    BY <1>0, <2>0, PartSound
  <2>3. TypeOK'
    BY <1>2, <2>0, <2>1 DEF NodeDelPop, nodeVars, TypeOK
  <2>4. Kept
    BY <1>2, <2>0 DEF NodeDelPop, nodeVars, Kept, Registered
  <2> QED
    BY <1>0, <1>2, <2>2, <2>3, <2>4, ListsWritten DEF NodeDelPop, nodeVars
<1> QED
  BY <1>1, <1>2

\* A step that changes nothing.
LEMMA StutterInv ==
  ASSUME Inv, UNCHANGED vars
  PROVE  Inv'
<1>1. TypeOK'
  BY DEF Inv, TypeOK, vars, nodeVars, managerVars
<1>2. Kept
  BY DEF Kept, Registered, vars, nodeVars, managerVars
<1>3. CopiesSound'
  BY <1>2, SameLists DEF vars, nodeVars, managerVars
<1> QED
  BY <1>1, <1>3 DEF Inv

-----------------------------------------------------------------------------
(***************************************************************************)
(* The theorems.                                                           *)
(***************************************************************************)

\* The list and every copy of it somebody holds are sound at all times.
THEOREM InvCorrect == Spec => []Inv
<1>1. Inv /\ [Next]_vars => Inv'
  <2> SUFFICES ASSUME Inv, [Next]_vars PROVE Inv'
    OBVIOUS
  <2>1. CASE \E s \in Slave : \/ NodeBoot(s) \/ NodeStep(s) \/ NodeStop(s)
                              \/ NodeCrash(s) \/ Reap(s)
    BY <2>1, NodeInv
  <2>2. CASE \E s, t \in Slave : NodeReload(s, t)
    BY <2>2, NodeInv
  <2>3. CASE \E m \in Manager : \/ ManagerBoot(m) \/ ManagerStep(m)
                                \/ ManagerExitStep(m) \/ ManagerCrash(m)
                                \/ Expire(m)
    BY <2>3, QuietInv, ClaimInv, ManagerInv DEF ManagerStep
  <2>4. CASE \/ \E m, n \in Manager : ManagerReload(m, n)
             \/ \E w \in watches : WatchOffline(w) \/ WatchError(w)
    BY <2>4, QuietInv
  <2>5. CASE \/ \E a \in Address : NodeDelRead(a)
             \/ \E d \in deletes : NodeDelPop(d)
    BY <2>5, DeleteInv
  <2>6. CASE UNCHANGED vars
    BY <2>6, StutterInv
  <2> QED
    BY <2>1, <2>2, <2>3, <2>4, <2>5, <2>6 DEF Next
<1> QED
  BY InitInv, <1>1, PTL DEF Spec

\* Types of the list, its copies, the processes and the goroutines.
THEOREM TypeCorrect == Spec => []TypeOK
<1>1. Inv => TypeOK
  BY DEF Inv
<1> QED
  BY InvCorrect, <1>1, PTL

\* The list never holds two records of one address, whatever slaves of that
\* address overlap and however stale a list is when it is written back: the
\* pop that ranges over the slice it shortens meets at most one.
THEOREM ListUniqueAddrCorrect == Spec => []ListUniqueAddr
<1>1. Inv => ListUniqueAddr
  BY DEF Inv, CopiesSound, Sound, ListUniqueAddr
<1> QED
  BY InvCorrect, <1>1, PTL

\* A running manager knows locally every claim the list holds for it.
THEOREM ClaimsAreLocalCorrect == Spec => []ClaimsAreLocal
<1>1. Inv => ClaimsAreLocal
  BY DEF Inv, CopiesSound, Sound, ClaimHeld, ManagerRuns, ClaimsAreLocal
<1> QED
  BY InvCorrect, <1>1, PTL

\* As long as no poll has failed, the service of a claimed record is watched
\* by the manager that claims it.
THEOREM ClaimedIsWatchedCorrect == Spec => []ClaimedIsWatched
<1>1. Inv => ClaimedIsWatched
  <2> SUFFICES ASSUME Inv, spent.polls = 0, NEW r \in nodeList,
                      r.watch # NoManager, ManagerRuns(r.watch),
                      r.name \in services
               PROVE  \E w \in watches : w.mgr = r.watch /\ w.name = r.name
    BY DEF ClaimedIsWatched
  <2>1. ClaimHeld(r)
    BY DEF Inv, CopiesSound, Sound
  <2>2. [mgr |-> r.watch, name |-> r.name] \in watches
    BY <2>1 DEF ClaimHeld, ManagerRuns
  <2> QED
    BY <2>2
<1> QED
  BY InvCorrect, <1>1, PTL
=============================================================================
