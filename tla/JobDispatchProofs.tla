-------------------------- MODULE JobDispatchProofs --------------------------
(***************************************************************************)
(* What holds of dispatches, of the job log and of the count of running    *)
(* jobs for every catalogue, every number of slaves and nodes and every    *)
(* bound on dispatches, failures, crashes and reloads.                     *)
(*                                                                         *)
(* Nearly all of the invariant is about one dispatch at a time (Sound): a  *)
(* step moves one dispatch and leaves the others alone, which Moves, Same  *)
(* and Passed say once for all actions.  What relates dispatches is that   *)
(* waiting messages are distinct (Waiting), that whoever asked had         *)
(* succeeded (Asked) and that a slave counts what it should (CountIsTrue). *)
(***************************************************************************)
EXTENDS JobDispatch, FiniteSetTheorems, WellFoundedInduction, TLAPS

PcValue == {"none", "start", "route", "run", "after", "insert", "send",
            "update", "topic", "held", "notify", "done", "lost"}
RowValue == {"dispatched", "success", "failed"}

\* The shape of the state; the count of a slave may still be any integer.
Typed ==
    /\ status \in [Proc -> {"new", "up", "exiting", "leaving", "gone"}]
    /\ count \in [Proc -> Int]
    /\ job \in [Id -> Job \cup {None}]
    /\ host \in [Id -> Proc \cup {None}]
    /\ parent \in [Id -> 0..MaxId]
    /\ weak \in [Id -> Seq(Job)]
    /\ pc \in [Act -> PcValue]
    /\ left \in [Id -> Seq(Job)]
    /\ node \in [Id -> {0} \cup Node]
    /\ outcome \in [Id -> {"none", "ok", "error"}]
    /\ rows \in [Id -> Seq(RowValue)]
    /\ keyed \subseteq Id
    /\ found \subseteq Id
    /\ topic \in [Node -> Seq(Id)]
    /\ turns \in [Job -> Seq(Node)]
    /\ budget \in [fires : 0..MaxFires, errors : 0..MaxErrors,
                   crashes : 0..MaxCrashes, reloads : 0..MaxReloads]

OnManager(d) == pc[Manager(d)]
OnNode(d) == pc[AtNode(d)]
KindOf(d) == Kind[job[d]]

\* How far the two sides of a dispatch can be, by the way it is dispatched.
Course(d) ==
    /\ job[d] = None <=> OnManager(d) = "none"
    /\ job[d] # None <=> host[d] \in Proc
    /\ OnManager(d) \notin {"topic", "held"}
    /\ OnManager(d) = "route" => KindOf(d) \in {"rpc", "mq"}
    /\ OnManager(d) \in {"run", "after"} => KindOf(d) \in {"rpc", "http"}
    /\ OnManager(d) \in {"insert", "send", "update"} => KindOf(d) = "mq"
    /\ OnNode(d) \in {"none", "topic", "held", "run", "after", "done", "lost"}
    /\ OnNode(d) # "none" =>
        KindOf(d) = "mq" /\ OnManager(d) \in {"update", "done", "lost"}
    /\ OnNode(d) \in {"run", "after"} => job[d] \in Valid
    /\ weak[d] # <<>> => job[d] # None /\ Depend[job[d]] = 1

\* A run ends once, on one side, and leaves children only after a success.
Ran(d) ==
    /\ OnManager(d) \in {"none", "start", "route", "insert", "send", "run"}
        => outcome[d] = "none"
    /\ OnNode(d) \in {"topic", "held", "run"} => outcome[d] = "none"
    /\ KindOf(d) = "mq" /\ OnNode(d) = "none" => outcome[d] = "none"
    /\ "after" \in {OnManager(d), OnNode(d)} => outcome[d] # "none"
    /\ left[d] # <<>> =>
        /\ outcome[d] = "ok" /\ Depend[job[d]] = 2
        /\ \/ OnManager(d) \in {"after", "lost"}
           \/ OnNode(d) \in {"after", "lost"}

\* What the job log holds of the dispatch meanwhile.
Written(d) ==
    /\ d \in keyed => KindOf(d) = "mq" /\ rows[d] # <<>>
    /\ d \in found => d \in keyed
    /\ OnManager(d) \in {"none", "start", "route", "run", "insert", "after"}
        => rows[d] = <<>> /\ d \notin keyed
    /\ OnNode(d) \in {"none", "topic", "held", "run", "after"}
        /\ (OnManager(d) \in {"send", "update"} \/ OnNode(d) # "none")
        => rows[d] = IF d \in keyed THEN <<"dispatched">> ELSE <<>>
    /\ \A i \in DOMAIN rows[d] :
        /\ rows[d][i] = "success" => outcome[d] = "ok"
        /\ rows[d][i] = "failed" => outcome[d] # "ok"
    /\ job[d] \in Valid \/ KindOf(d) # "mq" => FewRows(d)
    /\ OnNode(d) # "done" => Len(rows[d]) <= 1

\* As long as nothing has failed, every dispatch leaves its row.
Logged(d) ==
    budget.errors = MaxErrors =>
        /\ KindOf(d) # "mq" /\ OnManager(d) \in {"notify", "done"}
            => rows[d] # <<>>
        /\ KindOf(d) = "mq" /\ OnManager(d) \in {"send", "update", "notify", "done"}
            => d \in keyed
        /\ OnNode(d) \in {"run", "after", "done"} /\ d \in keyed
            => d \in found

\* Only a slave that has ended loses the dispatches it hosts.
LostWithHost(d) == OnManager(d) = "lost" => status[host[d]] = "gone"

Sound(d) == Course(d) /\ Ran(d) /\ Written(d) /\ Logged(d) /\ LostWithHost(d)

\* A message that waits belongs to one dispatch, and is one message.
Waiting ==
    /\ \A n \in Node : \A i \in DOMAIN topic[n] : OnNode(topic[n][i]) = "topic"
    /\ \A m, n \in Node : \A i \in DOMAIN topic[m], k \in DOMAIN topic[n] :
        topic[m][i] = topic[n][k] => m = n /\ i = k

\* Whoever asked for a dispatch exists, and as a strong parent succeeded.
Asked ==
    \A k \in Id : parent[k] # 0 =>
        /\ job[parent[k]] # None
        /\ Depend[job[parent[k]]] = 2 /\ job[k] # MailJob
            => outcome[parent[k]] = "ok"

\* The dispatches a slave counts: RPC dispatches from their first line to
\* their last, HTTP dispatches while their request is out.
Counts(d) ==
    \/ KindOf(d) = "rpc" /\ OnManager(d) \in {"route", "run", "after"}
    \/ KindOf(d) = "http" /\ OnManager(d) = "run"
Counted(p) == {d \in Id : host[d] = p /\ Counts(d)}
CountIsTrue == \A p \in Proc : count[p] = Cardinality(Counted(p))

Inv ==
    /\ Typed
    /\ \A d \in Id : Sound(d)
    /\ Waiting
    /\ Asked
    /\ CountIsTrue

-----------------------------------------------------------------------------
(***************************************************************************)
(* Facts about activities, identifiers and budgets.                        *)
(***************************************************************************)

\* The two activities of a dispatch are its own.
LEMMA Acts ==
    /\ \A d \in Id : Manager(d) \in Act /\ AtNode(d) \in Act
    /\ \A d, e \in Id : /\ Manager(d) # AtNode(e)
                        /\ Manager(d) = Manager(e) => d = e
                        /\ AtNode(d) = AtNode(e) => d = e
    /\ \A d \in Id : Manager(d)[1] = d /\ Manager(d)[2] = "manager"
    /\ \A d \in Id : AtNode(d)[1] = d /\ AtNode(d)[2] = "node"
    /\ \A a \in Act : a[1] \in Id /\ (a = Manager(a[1]) \/ a = AtNode(a[1]))
BY DEF Manager, AtNode, Act, Side

\* A set of numbers has a least one.
LEMMA Least ==
  ASSUME NEW S \in SUBSET Nat, S # {}
  PROVE  \E d \in S : \A e \in S : d <= e
<1> DEFINE R == OpToRel(<, Nat)
<1>1. IsWellFoundedOn(R, Nat)
  BY NatLessThanWellFounded
<1>2. \A x, y \in Nat : x < y => <<x, y>> \in R
  BY DEF OpToRel
<1> HIDE DEF R
<1>3. S \subseteq Nat
  OBVIOUS
<1>4. \E d \in S : \A e \in S : ~ (<<e, d>> \in R)
  BY <1>1, <1>3, WFMin, Zenon
<1>5. PICK d \in S : \A e \in S : ~ (<<e, d>> \in R)
  BY <1>4
<1>6. ASSUME NEW e \in S PROVE d <= e
  <2>1. d \in Nat /\ e \in Nat /\ ~ (e < d)
    BY <1>2, <1>5
  <2> QED
    BY <2>1
<1> QED
  BY <1>6

\* A free dispatch is found if there is one.
LEMMA FreshIsFree == Free # {} => Fresh \in Free
<1> SUFFICES ASSUME Free # {} PROVE Fresh \in Free
  OBVIOUS
<1>1. Free \in SUBSET Nat
  BY DispatchConstantsOK DEF Free, Id
<1>2. \E d \in Free : \A e \in Free : d <= e
  BY <1>1, Least
<1> QED
  BY <1>2 DEF Fresh

\* The dispatches a slave counts are finitely many.
LEMMA CountedFinite ==
  ASSUME NEW p
  PROVE  IsFiniteSet(Counted(p)) /\ Cardinality(Counted(p)) \in Nat
<1>1. IsFiniteSet(Id)
  BY DispatchConstantsOK, FS_Interval DEF Id
<1>2. Counted(p) \subseteq Id
  BY DEF Counted
<1> QED
  BY <1>1, <1>2, FS_Subset, FS_CardinalityType

\* Using up a bound leaves a budget, and one without an error only if it was.
LEMMA SpendTyped ==
  ASSUME Typed, NEW b \in {"fires", "errors", "crashes", "reloads"}, Spend(b)
  PROVE  /\ budget' \in [fires : 0..MaxFires, errors : 0..MaxErrors,
                         crashes : 0..MaxCrashes, reloads : 0..MaxReloads]
         /\ budget'.errors = MaxErrors => b # "errors" /\ budget.errors = MaxErrors
<1>1. budget[b] > 0 /\ budget' = [budget EXCEPT ![b] = budget[b] - 1]
  BY DEF Spend
<1>2. /\ MaxFires \in Nat /\ MaxErrors \in Nat
      /\ MaxCrashes \in Nat /\ MaxReloads \in Nat
  BY DispatchConstantsOK
<1>3. budget \in [fires : 0..MaxFires, errors : 0..MaxErrors,
                  crashes : 0..MaxCrashes, reloads : 0..MaxReloads]
  BY DEF Typed
<1>4. CASE b = "fires"
  <2>1. budget.fires - 1 \in 0..MaxFires
    BY <1>1, <1>2, <1>3, <1>4
  <2> QED
    BY <1>1, <1>3, <1>4, <2>1
<1>5. CASE b = "errors"
  <2>1. budget.errors - 1 \in 0..MaxErrors /\ budget.errors - 1 # MaxErrors
    BY <1>1, <1>2, <1>3, <1>5
  <2> QED
    BY <1>1, <1>3, <1>5, <2>1
<1>6. CASE b = "crashes"
  <2>1. budget.crashes - 1 \in 0..MaxCrashes
    BY <1>1, <1>2, <1>3, <1>6
  <2> QED
    BY <1>1, <1>3, <1>6, <2>1
<1>7. CASE b = "reloads"
  <2>1. budget.reloads - 1 \in 0..MaxReloads
    BY <1>1, <1>2, <1>3, <1>7
  <2> QED
    BY <1>1, <1>3, <1>7, <2>1
<1> QED
  BY <1>4, <1>5, <1>6, <1>7
-----------------------------------------------------------------------------
(***************************************************************************)
(* What a step leaves alone.                                               *)
(***************************************************************************)

\* Nothing that matters to dispatch d changes.
Same(d) ==
    /\ job'[d] = job[d] /\ host'[d] = host[d]
    /\ weak'[d] # <<>> => weak[d] # <<>>
    /\ OnManager(d)' = OnManager(d) /\ OnNode(d)' = OnNode(d)
    /\ left'[d] = left[d] /\ outcome'[d] = outcome[d] /\ rows'[d] = rows[d]
    /\ d \in keyed' <=> d \in keyed
    /\ d \in found' <=> d \in found

\* No step gives errors back or brings a slave back.
Calm ==
    /\ budget'.errors = MaxErrors => budget.errors = MaxErrors
    /\ \A p \in Proc : status[p] = "gone" => status'[p] = "gone"

\* A dispatch nothing happens to stays in order.
LEMMA SameKeeps ==
  ASSUME NEW d \in Id, Typed, Sound(d), Same(d), Calm
  PROVE  Sound(d)'
<1> USE DEF Sound, Same, KindOf
<1>1. Course(d)'
  BY DEF Course
<1>2. Ran(d)'
  BY DEF Ran
<1>3. Written(d)'
  BY DEF Written, FewRows
<1>4. Logged(d)'
  BY DEF Logged, Calm
<1>5. LostWithHost(d)'
  BY DEF LostWithHost, Calm, Course
<1> QED
  BY <1>1, <1>2, <1>3, <1>4, <1>5

\* The messages that wait keep waiting.
LEMMA WaitingSame ==
  ASSUME Typed, Waiting, topic' = topic,
         \A d \in Id : OnNode(d) = "topic" => OnNode(d)' = "topic"
  PROVE  Waiting'
<1>1. \A n \in Node : \A i \in DOMAIN topic[n] : topic[n][i] \in Id
  BY DEF Typed
<1> QED
  BY <1>1 DEF Waiting

\* Nobody who asked loses the job or the success.
LEMMA AskedSame ==
  ASSUME Typed, Typed', Asked,
         \A d \in Id : job[d] # None => job'[d] = job[d],
         \A d \in Id : outcome[d] = "ok" => outcome'[d] = "ok",
         \A k \in Id :
            \/ parent'[k] = parent[k] /\ job'[k] = job[k]
            \/ parent'[k] = 0
            \/ /\ job[parent'[k]] # None
               /\ Depend[job[parent'[k]]] = 2 /\ job'[k] # MailJob
                    => outcome[parent'[k]] = "ok"
  PROVE  Asked'
<1> SUFFICES ASSUME NEW k \in Id, parent'[k] # 0
             PROVE  /\ job'[parent'[k]] # None
                    /\ Depend[job'[parent'[k]]] = 2 /\ job'[k] # MailJob
                        => outcome'[parent'[k]] = "ok"
  BY DEF Asked
<1>1. parent'[k] \in Id
  <2>1. MaxId \in Nat /\ parent'[k] \in 0..MaxId
    BY DispatchConstantsOK DEF Typed
  <2> QED
    BY <2>1 DEF Id
<1>2. /\ job[parent'[k]] # None
      /\ Depend[job[parent'[k]]] = 2 /\ job'[k] # MailJob
            => outcome[parent'[k]] = "ok"
  BY DEF Asked
<1> QED
  BY <1>1, <1>2

\* Dispatch e is counted as before.
CountsAlike(e) ==
    \/ host'[e] = host[e] /\ (Counts(e)' <=> Counts(e))
    \/ ~ Counts(e) /\ ~ Counts(e)'

\* The count stays true if nobody begins or ends to be counted.
LEMMA CountSame ==
  ASSUME CountIsTrue, count' = count, \A e \in Id : CountsAlike(e)
  PROVE  CountIsTrue'
<1>1. \A p \in Proc : Counted(p)' = Counted(p)
  BY DEF Counted, CountsAlike
<1> QED
  BY <1>1 DEF CountIsTrue

\* The count stays true if one dispatch begins or ends to be counted with it.
LEMMA CountFollows ==
  ASSUME Typed, CountIsTrue, NEW d \in Id, host[d] \in Proc, host'[d] = host[d],
         \A e \in Id \ {d} : CountsAlike(e),
         \/ ~ Counts(d) /\ Counts(d)' /\ AddJob(host[d])
         \/ Counts(d) /\ ~ Counts(d)' /\ FinishJob(host[d])
  PROVE  CountIsTrue'
<1>1. ASSUME NEW p \in Proc, p # host[d] PROVE count'[p] = Cardinality(Counted(p)')
  <2>1. Counted(p)' = Counted(p)
    BY <1>1 DEF Counted, CountsAlike
  <2> QED
    BY <1>1, <2>1 DEF CountIsTrue, AddJob, FinishJob, Typed
<1>2. CASE ~ Counts(d) /\ Counts(d)' /\ AddJob(host[d])
  <2>1. Counted(host[d])' = Counted(host[d]) \cup {d} /\ d \notin Counted(host[d])
    BY <1>2 DEF Counted, CountsAlike
  <2>2. Cardinality(Counted(host[d]) \cup {d}) = Cardinality(Counted(host[d])) + 1
    BY <2>1, CountedFinite, FS_AddElement
  <2>3. count'[host[d]] = count[host[d]] + 1
    BY <1>2 DEF AddJob, Typed
  <2>4. count'[host[d]] = Cardinality(Counted(host[d])')
    BY <2>1, <2>2, <2>3 DEF CountIsTrue
  <2> QED
    BY <1>1, <2>4 DEF CountIsTrue
<1>3. CASE Counts(d) /\ ~ Counts(d)' /\ FinishJob(host[d])
  <2>1. Counted(host[d])' = Counted(host[d]) \ {d} /\ d \in Counted(host[d])
    BY <1>3 DEF Counted, CountsAlike
  <2>2. Cardinality(Counted(host[d]) \ {d}) = Cardinality(Counted(host[d])) - 1
    BY <2>1, CountedFinite, FS_RemoveElement
  <2>3. count'[host[d]] = count[host[d]] - 1
    BY <1>3 DEF FinishJob, Typed
  <2>4. count'[host[d]] = Cardinality(Counted(host[d])')
    BY <2>1, <2>2, <2>3 DEF CountIsTrue
  <2> QED
    BY <1>1, <2>4 DEF CountIsTrue
<1> QED
  BY <1>2, <1>3

\* The initial state satisfies the invariant.
LEMMA InitInv == Init => Inv
<1> SUFFICES ASSUME Init PROVE Inv
  OBVIOUS
<1>1. Typed
  BY DispatchConstantsOK DEF Init, Typed, Id, Node, PcValue
<1>2. ASSUME NEW d \in Id PROVE Sound(d)
  <2>1. /\ job[d] = None /\ OnManager(d) = "none" /\ OnNode(d) = "none"
        /\ weak[d] = <<>> /\ left[d] = <<>> /\ outcome[d] = "none"
        /\ rows[d] = <<>> /\ keyed = {} /\ found = {} /\ host[d] \notin Proc
    BY Acts, DispatchConstantsOK DEF Init, OnManager, OnNode
  <2>2. Course(d)
    BY <2>1 DEF Course
  <2>3. Ran(d)
    BY <2>1 DEF Ran
  <2>4. Written(d)
    BY <2>1 DEF Written, FewRows
  <2>5. Logged(d) /\ LostWithHost(d)
    BY <2>1 DEF Logged, LostWithHost
  <2> QED
    BY <2>2, <2>3, <2>4, <2>5 DEF Sound
<1>3. Waiting /\ Asked
  BY DEF Init, Waiting, Asked
<1>4. CountIsTrue
  <2>1. \A d \in Id : ~ Counts(d)
    BY Acts DEF Init, Counts, OnManager
  <2>2. \A p \in Proc : Counted(p) = {}
    BY <2>1 DEF Counted
  <2> QED
    BY <2>2, FS_EmptySet DEF Init, CountIsTrue
<1> QED
  BY <1>1, <1>2, <1>3, <1>4 DEF Inv
-----------------------------------------------------------------------------
(***************************************************************************)
(* Dispatches begin.                                                       *)
(***************************************************************************)

\* Dispatch d is begun as job j, asked for by dispatch from.
Born(d, j, from) ==
    /\ job[d] = None
    /\ job'[d] = j /\ j \in Job
    /\ host'[d] \in Proc
    /\ parent'[d] = from
    /\ weak'[d] # <<>> => Depend[j] = 1
    /\ OnManager(d)' = "start" /\ OnNode(d)' = OnNode(d)

BirthSame(d) ==
    /\ job'[d] = job[d] /\ host'[d] = host[d] /\ parent'[d] = parent[d]
    /\ weak'[d] # <<>> => weak[d] # <<>>

\* A dispatch that was free has done nothing yet.
LEMMA BornSound ==
  ASSUME NEW d \in Id, NEW j, NEW from, Typed, Sound(d), Born(d, j, from),
         left'[d] = left[d], outcome'[d] = outcome[d], rows'[d] = rows[d],
         keyed' = keyed, found' = found
  PROVE  Sound(d)' /\ ~ Counts(d) /\ ~ Counts(d)'
<1> USE DEF Born
<1>1. /\ OnManager(d) = "none" /\ OnNode(d) = "none"
      /\ rows[d] = <<>> /\ d \notin keyed /\ d \notin found
      /\ outcome[d] = "none" /\ left[d] = <<>>
  BY DEF Sound, Course, Ran, Written
<1>2. j # None
  BY DispatchConstantsOK
<1>3. Course(d)'
  BY <1>1, <1>2 DEF Course
<1>4. Ran(d)'
  BY <1>1 DEF Ran
<1>5. Written(d)'
  <2>1. Len(rows'[d]) = 0 /\ DOMAIN rows'[d] = {}
    BY <1>1
  <2> QED
    BY <1>1, <2>1 DEF Written, FewRows
<1>6. Logged(d)' /\ LostWithHost(d)'
  BY <1>1 DEF Logged, LostWithHost
<1>7. ~ Counts(d) /\ ~ Counts(d)'
  BY <1>1 DEF Counts
<1> QED
  BY <1>3, <1>4, <1>5, <1>6, <1>7 DEF Sound

\* A request to the API: at most the fresh dispatch begins, and the activity
\* that asks goes on.
LEMMA AsksIs ==
  ASSUME Typed, NEW j, NEW from \in Id, NEW a \in Act, NEW step,
         pc[a] # "none", Asks(j, from, a, step), \A d \in Id : Course(d)
  PROVE  /\ pc'[a] = step
         /\ \A d \in Id :
            \/ /\ BirthSame(d)
               /\ Manager(d) = a \/ OnManager(d)' = OnManager(d)
               /\ AtNode(d) = a \/ OnNode(d)' = OnNode(d)
            \/ Born(d, j, from) /\ Manager(d) # a /\ AtNode(d) # a
<1>1. CASE ~ (j \in Enabled /\ Free # {} /\ \E p \in Proc : Up(p))
  <2>1. pc' = [pc EXCEPT ![a] = step] /\ UNCHANGED birth
    BY <1>1 DEF Asks, Goto
  <2> QED
    BY <2>1, Acts DEF birth, BirthSame, OnManager, OnNode, Typed
<1>2. CASE j \in Enabled /\ Free # {} /\ \E p \in Proc : Up(p)
  <2>1. PICK p \in Proc : Up(p) /\ Begins(j, p, from, WeakChildren(j))
    BY <1>2 DEF Asks
  <2>2. pc' = [pc EXCEPT ![a] = step, ![Manager(Fresh)] = "start"]
    BY <1>2 DEF Asks
  <2>3. Fresh \in Id /\ job[Fresh] = None
    BY <1>2, FreshIsFree DEF Free
  <2>4. PICK f \in Id : f = Fresh
    BY <2>3
  <2>5. pc[Manager(f)] = "none" /\ pc[AtNode(f)] = "none"
    BY <2>3, <2>4 DEF Course, OnManager, OnNode
  <2>6. Manager(f) # a /\ AtNode(f) # a
    BY <2>5
  <2>7. pc'[a] = step
    BY <2>2, <2>4, <2>6, Acts DEF Typed
  <2>8. Born(f, j, from)
    <3>1. job'[f] = j /\ host'[f] = p /\ parent'[f] = from
          /\ weak'[f] = WeakChildren(j)
      BY <2>1, <2>4 DEF Begins, Typed
    <3>2. pc'[Manager(f)] = "start" /\ pc'[AtNode(f)] = pc[AtNode(f)]
      BY <2>2, <2>4, <2>6, Acts DEF Typed
    <3> QED
      BY <1>2, <2>1, <2>3, <2>4, <3>1, <3>2, DispatchConstantsOK
         DEF Born, OnManager, OnNode, WeakChildren
  <2>9. ASSUME NEW d \in Id, d # f
        PROVE  /\ BirthSame(d)
               /\ Manager(d) = a \/ OnManager(d)' = OnManager(d)
               /\ AtNode(d) = a \/ OnNode(d)' = OnNode(d)
    <3>1. BirthSame(d)
      BY <2>1, <2>4, <2>9 DEF Begins, BirthSame, Typed
    <3>2. Manager(d) # Manager(f) /\ AtNode(d) # Manager(f)
      BY <2>9, Acts
    <3>3. \A b \in Act : b # a /\ b # Manager(f) => pc'[b] = pc[b]
      BY <2>2, <2>4 DEF Typed
    <3>4. Manager(d) \in Act /\ AtNode(d) \in Act
      BY Acts
    <3> QED
      BY <3>1, <3>2, <3>3, <3>4 DEF OnManager, OnNode
  <2> QED
    BY <2>6, <2>7, <2>8, <2>9
<1> QED
  BY <1>1, <1>2

\* Asking keeps the types.
LEMMA AsksTyped ==
  ASSUME Typed, NEW j, NEW from \in Id, NEW a \in Act,
         NEW step \in {"after", "done"}, Asks(j, from, a, step)
  PROVE  /\ job' \in [Id -> Job \cup {None}]
         /\ host' \in [Id -> Proc \cup {None}]
         /\ parent' \in [Id -> 0..MaxId]
         /\ weak' \in [Id -> Seq(Job)]
         /\ turns' \in [Job -> Seq(Node)]
         /\ pc' \in [Act -> PcValue]
<1>1. j \in Enabled => j \in Job /\ WeakChildren(j) \in Seq(Job)
  BY DispatchConstantsOK DEF WeakChildren
<1>2. from \in 0..MaxId
  BY DispatchConstantsOK DEF Id
<1>3. CASE ~ (j \in Enabled /\ Free # {} /\ \E p \in Proc : Up(p))
  BY <1>3 DEF Asks, Goto, birth, Typed, PcValue
<1>4. CASE j \in Enabled /\ Free # {} /\ \E p \in Proc : Up(p)
  <2>1. PICK p \in Proc : Begins(j, p, from, WeakChildren(j))
    BY <1>4 DEF Asks
  <2>2. /\ pc' = [pc EXCEPT ![a] = step, ![Manager(Fresh)] = "start"]
        /\ UNCHANGED turns
    BY <1>4 DEF Asks
  <2> QED
    BY <1>1, <1>2, <1>4, <2>1, <2>2 DEF Begins, Typed, PcValue
<1> QED
  BY <1>3, <1>4
-----------------------------------------------------------------------------
(***************************************************************************)
(* One dispatch goes on, on one of its sides, and nothing begins.          *)
(***************************************************************************)
\* Only the data of dispatch d may change.
OnlyData(d) ==
    /\ UNCHANGED <<job, host, parent, weak>>
    /\ \A e \in Id \ {d} :
        /\ left'[e] = left[e] /\ outcome'[e] = outcome[e] /\ rows'[e] = rows[e]
        /\ e \in keyed' <=> e \in keyed
        /\ e \in found' <=> e \in found

\* Where the two sides of a dispatch are after a step of one of them.
LEMMA GotoManager ==
  ASSUME Typed, NEW d \in Id, NEW step, Goto(Manager(d), step)
  PROVE  /\ OnManager(d)' = step /\ OnNode(d)' = OnNode(d)
         /\ \A e \in Id \ {d} : OnManager(e)' = OnManager(e)
                                /\ OnNode(e)' = OnNode(e)
<1>1. pc'[Manager(d)] = step
      /\ \A b \in Act : b # Manager(d) => pc'[b] = pc[b]
  BY Acts DEF Goto, Typed
<1> QED
  BY <1>1, Acts DEF OnManager, OnNode

\* The same of the side of the node.
LEMMA GotoNode ==
  ASSUME Typed, NEW d \in Id, NEW step, Goto(AtNode(d), step)
  PROVE  /\ OnNode(d)' = step /\ OnManager(d)' = OnManager(d)
         /\ \A e \in Id \ {d} : OnManager(e)' = OnManager(e)
                                /\ OnNode(e)' = OnNode(e)
<1>1. pc'[AtNode(d)] = step
      /\ \A b \in Act : b # AtNode(d) => pc'[b] = pc[b]
  BY Acts DEF Goto, Typed
<1> QED
  BY <1>1, Acts DEF OnManager, OnNode

\* The invariant after a step of one dispatch that is in order again and that
\* changed the count as it should.
LEMMA Moves ==
  ASSUME Inv, NEW d \in Id, NEW step,
         Goto(Manager(d), step) \/ (Goto(AtNode(d), step) /\ OnNode(d) # "topic"),
         OnlyData(d), Typed', Calm, topic' = topic, Sound(d)',
         outcome[d] = "ok" => outcome'[d] = "ok",
         \/ count' = count /\ (Counts(d)' <=> Counts(d))
         \/ AddJob(host[d]) /\ ~ Counts(d) /\ Counts(d)'
         \/ FinishJob(host[d]) /\ Counts(d) /\ ~ Counts(d)'
  PROVE  Inv'
<1> USE DEF Inv
<1>1. \A e \in Id \ {d} : OnManager(e)' = OnManager(e) /\ OnNode(e)' = OnNode(e)
  BY GotoManager, GotoNode
<1>2. \A e \in Id \ {d} : Same(e)
  BY <1>1 DEF Same, OnlyData
<1>3. \A e \in Id : Sound(e)'
  BY <1>2, SameKeeps
<1>4. Waiting'
  <2>1. OnNode(d) = "topic" => OnNode(d)' = "topic"
    BY GotoManager
  <2> QED
    BY <1>1, <2>1, WaitingSame
<1>5. Asked'
  <2>1. \A e \in Id : outcome[e] = "ok" => outcome'[e] = "ok"
    BY DEF OnlyData
  <2> QED
    BY <2>1, AskedSame DEF OnlyData
<1>6. CountIsTrue'
  <2>1. \A e \in Id \ {d} : CountsAlike(e)
    BY <1>1 DEF OnlyData, CountsAlike, Counts, KindOf
  <2>2. CASE count' = count /\ (Counts(d)' <=> Counts(d))
    BY <2>1, <2>2, CountSame DEF CountsAlike, OnlyData
  <2>3. CASE ~ (Counts(d)' <=> Counts(d))
    <3>1. job[d] # None
      BY <2>3, GotoManager, GotoNode
         DEF Sound, Course, Counts, KindOf, OnlyData
    <3>2. host[d] \in Proc
      BY <3>1 DEF Sound, Course
    <3> QED
      BY <2>1, <2>3, <3>2, CountFollows DEF OnlyData
  <2> QED
    BY <2>2, <2>3
<1> QED
  BY <1>3, <1>4, <1>5, <1>6

\* A dispatch that failed mails or is done.
LEMMA FailedIs == \A d \in Id : Failed(d) \in {"done", "notify"}
BY DEF Failed

\* One more row of the job log.
LEMMA AddRowIs ==
  ASSUME Typed, NEW d \in Id, NEW st \in RowValue, AddRow(d, st)
  PROVE  /\ rows' \in [Id -> Seq(RowValue)]
         /\ rows'[d] = Append(rows[d], st)
         /\ \A e \in Id \ {d} : rows'[e] = rows[e]
         /\ rows[d] = <<>> =>
                /\ rows'[d] = <<st>> /\ rows'[d] # <<>>
                /\ Len(rows'[d]) = 1 /\ DOMAIN rows'[d] = {1}
                /\ rows'[d][1] = st
<1>1. /\ rows[d] \in Seq(RowValue)
      /\ rows' = [rows EXCEPT ![d] = Append(rows[d], st)]
  BY DEF AddRow, Typed
<1>2. Append(rows[d], st) \in Seq(RowValue)
  BY <1>1
<1>3. rows'[d] = Append(rows[d], st) /\ \A e \in Id \ {d} : rows'[e] = rows[e]
  BY <1>1 DEF Typed
<1>4. rows' \in [Id -> Seq(RowValue)]
  BY <1>1, <1>2 DEF Typed
<1>5. ASSUME rows[d] = <<>> PROVE rows'[d] = <<st>>
  BY <1>3, <1>5
<1> QED
  BY <1>3, <1>4, <1>5

\* Going on to another step keeps the shape of pc.
LEMMA PcTyped ==
  ASSUME Typed, NEW d \in Id, NEW step \in PcValue,
         Goto(Manager(d), step) \/ Goto(AtNode(d), step)
  PROVE  pc' \in [Act -> PcValue]
BY DEF Goto, Typed

\* Counting keeps the shape of the counts.
LEMMA CountTyped ==
  ASSUME Typed, NEW p, count' = count \/ AddJob(p) \/ FinishJob(p)
  PROVE  count' \in [Proc -> Int]
BY DEF AddJob, FinishJob, Typed

\* The switch of Dispatch.
LEMMA BeginInv ==
  ASSUME Inv, NEW d \in Id,
         RefuseType(d) \/ BeginRpc(d) \/ BeginHttp(d) \/ BeginMq(d)
  PROVE  Inv'
<1> USE DEF Inv
<1>1. /\ OnManager(d) = "start"
      /\ UNCHANGED <<job, host, parent, weak, turns, left, node, outcome,
                     keyed, found, topic, budget, status>>
  BY DEF RefuseType, BeginRpc, BeginHttp, BeginMq, At, OnManager, slaves, birth
<1>2. /\ Course(d) /\ Ran(d) /\ Written(d) /\ Logged(d)
      /\ OnNode(d) = "none" /\ outcome[d] = "none" /\ left[d] = <<>>
      /\ rows[d] = <<>> /\ d \notin keyed /\ job[d] # None
  BY <1>1 DEF Sound, Course, Ran, Written
<1>3. Calm
  BY <1>1 DEF Calm
<1>4. CASE RefuseType(d) \/ (BeginHttp(d) /\ job[d] \notin Valid)
  <2>1. PICK step \in {"done", "notify"} :
          /\ Goto(Manager(d), step) /\ AddRow(d, "failed") /\ count' = count
          /\ KindOf(d) \in {"other", "http"}
    BY <1>4, FailedIs DEF RefuseType, BeginHttp, slaves, KindOf
  <2>2. Typed'
    <3>1. rows' \in [Id -> Seq(RowValue)]
      BY <2>1, AddRowIs DEF RowValue
    <3>2. pc' \in [Act -> PcValue]
      BY <2>1, PcTyped DEF PcValue
    <3> QED
      BY <1>1, <2>1, <3>1, <3>2 DEF Typed
  <2>3. /\ rows'[d] # <<>> /\ Len(rows'[d]) = 1 /\ DOMAIN rows'[d] = {1}
        /\ rows'[d][1] = "failed"
    BY <1>2, <2>1, AddRowIs DEF RowValue
  <2>4. OnManager(d)' = step /\ OnNode(d)' = "none"
    BY <1>2, <2>1, GotoManager
  <2>5. Sound(d)'
    <3>1. Course(d)'
      BY <1>1, <1>2, <2>1, <2>4 DEF Course, KindOf
    <3>2. Ran(d)'
      BY <1>1, <1>2, <2>1, <2>4 DEF Ran, KindOf
    <3>3. Written(d)'
      BY <1>1, <1>2, <2>1, <2>3, <2>4 DEF Written, FewRows, KindOf
    <3>4. Logged(d)' /\ LostWithHost(d)'
      BY <1>1, <1>2, <2>1, <2>3, <2>4 DEF Logged, LostWithHost, KindOf
    <3> QED
      BY <3>1, <3>2, <3>3, <3>4 DEF Sound
  <2>6. ~ Counts(d) /\ ~ Counts(d)'
    BY <1>1, <2>1, <2>4 DEF Counts, KindOf
  <2>7. OnlyData(d)
    BY <1>1, <2>1, AddRowIs DEF OnlyData, RowValue
  <2> QED
    BY <1>1, <1>3, <2>1, <2>2, <2>5, <2>6, <2>7, Moves
<1>5. CASE BeginRpc(d) \/ BeginMq(d) \/ (BeginHttp(d) /\ job[d] \in Valid)
  <2>1. PICK step \in {"route", "run"} :
          /\ Goto(Manager(d), step) /\ rows' = rows
          /\ \/ step = "route" /\ KindOf(d) = "rpc" /\ AddJob(host[d])
             \/ step = "route" /\ KindOf(d) = "mq" /\ count' = count
             \/ /\ step = "run" /\ KindOf(d) = "http" /\ AddJob(host[d])
                /\ job[d] \in Valid
    BY <1>5 DEF BeginRpc, BeginMq, BeginHttp, slaves, KindOf
  <2>2. Typed'
    <3>1. pc' \in [Act -> PcValue]
      BY <2>1, PcTyped DEF PcValue
    <3>2. count' \in [Proc -> Int]
      BY <2>1, CountTyped
    <3> QED
      BY <1>1, <2>1, <3>1, <3>2 DEF Typed
  <2>3. OnManager(d)' = step /\ OnNode(d)' = "none"
    BY <1>2, <2>1, GotoManager
  <2>4. Sound(d)'
    <3>1. Course(d)'
      BY <1>1, <1>2, <2>1, <2>3 DEF Course, KindOf
    <3>2. Ran(d)'
      BY <1>1, <1>2, <2>1, <2>3 DEF Ran, KindOf
    <3>3. Written(d)'
      BY <1>1, <1>2, <2>1, <2>3 DEF Written, FewRows, KindOf
    <3>4. Logged(d)' /\ LostWithHost(d)'
      BY <1>1, <1>2, <2>1, <2>3 DEF Logged, LostWithHost, KindOf
    <3> QED
      BY <3>1, <3>2, <3>3, <3>4 DEF Sound
  <2>5. ~ Counts(d) /\ (Counts(d)' <=> KindOf(d) # "mq")
    BY <1>1, <2>1, <2>3 DEF Counts, KindOf
  <2>6. OnlyData(d)
    BY <1>1, <2>1 DEF OnlyData
  <2> QED
    BY <1>1, <1>3, <2>1, <2>2, <2>4, <2>5, <2>6, Moves
<1> QED
  BY <1>4, <1>5

\* Using up an error: what was owed while nothing failed is owed no more.
LEMMA ErrorSpent ==
  ASSUME Typed, Spend("errors")
  PROVE  /\ budget' \in [fires : 0..MaxFires, errors : 0..MaxErrors,
                         crashes : 0..MaxCrashes, reloads : 0..MaxReloads]
         /\ budget'.errors # MaxErrors
BY SpendTyped

\* handleRouter chooses a node of the list.
LEMMA Routed ==
  ASSUME Typed, NEW d \in Id, job[d] \in Job, RouteJob(d)
  PROVE  node' \in [Id -> {0} \cup Node] /\ turns' \in [Job -> Seq(Node)]
<1>1. NumNodes \in Nat \ {0} /\ Route[job[d]] \in 1..4
  BY DispatchConstantsOK
<1>2. Positions(Route[job[d]]) \subseteq Node
  BY <1>1 DEF Positions, Node
<1>3. PICK i \in Positions(Route[job[d]]), list \in Listings :
        /\ node' = [node EXCEPT ![d] = list[i]]
        /\ turns' = [turns EXCEPT ![job[d]] = Append(turns[job[d]], list[i])]
  BY DEF RouteJob
<1>4. list[i] \in Node
  BY <1>2, <1>3 DEF Listings
<1>5. Append(turns[job[d]], list[i]) \in Seq(Node)
  BY <1>4 DEF Typed
<1> QED
  BY <1>3, <1>4, <1>5 DEF Typed

\* The choice of a node, and no node to choose.
LEMMA RouteInv ==
  ASSUME Inv, NEW d \in Id, RouteJob(d) \/ NoNodes(d)
  PROVE  Inv'
<1> USE DEF Inv
<1>1. /\ OnManager(d) = "route"
      /\ UNCHANGED <<job, host, parent, weak, left, outcome, keyed, found,
                     topic, status>>
  BY DEF RouteJob, NoNodes, At, OnManager, birth
<1>2. /\ Course(d) /\ Ran(d) /\ Written(d) /\ Logged(d)
      /\ OnNode(d) = "none" /\ outcome[d] = "none" /\ left[d] = <<>>
      /\ rows[d] = <<>> /\ d \notin keyed /\ job[d] \in Job
      /\ KindOf(d) \in {"rpc", "mq"}
  BY <1>1 DEF Sound, Course, Ran, Written, Typed
<1>3. CASE NoNodes(d) \/ (RouteJob(d) /\ KindOf(d) = "rpc" /\ job[d] \notin Valid)
  <2>1. PICK step \in {"done", "notify"} :
          /\ Goto(Manager(d), step) /\ AddRow(d, "failed")
          /\ \/ KindOf(d) = "rpc" /\ FinishJob(host[d])
             \/ KindOf(d) = "mq" /\ count' = count
          /\ \/ Spend("errors")
             \/ budget' = budget /\ KindOf(d) = "rpc"
    BY <1>2, <1>3, FailedIs DEF RouteJob, NoNodes, KindOf
  <2>2. /\ rows' \in [Id -> Seq(RowValue)]
        /\ rows'[d] # <<>> /\ Len(rows'[d]) = 1 /\ DOMAIN rows'[d] = {1}
        /\ rows'[d][1] = "failed"
        /\ \A e \in Id \ {d} : rows'[e] = rows[e]
    BY <1>2, <2>1, AddRowIs DEF RowValue
  <2>3. node' \in [Id -> {0} \cup Node] /\ turns' \in [Job -> Seq(Node)]
    BY <1>2, <1>3, Routed DEF NoNodes, birth, Typed
  <2>4. /\ budget' \in [fires : 0..MaxFires, errors : 0..MaxErrors,
                        crashes : 0..MaxCrashes, reloads : 0..MaxReloads]
        /\ budget'.errors = MaxErrors => budget.errors = MaxErrors /\ KindOf(d) = "rpc"
    BY <2>1, ErrorSpent DEF Typed
  <2>5. Typed'
    <3>1. pc' \in [Act -> PcValue]
      BY <2>1, PcTyped DEF PcValue
    <3>2. count' \in [Proc -> Int]
      BY <2>1, CountTyped
    <3> QED
      BY <1>1, <2>2, <2>3, <2>4, <3>1, <3>2 DEF Typed
  <2>6. OnManager(d)' = step /\ OnNode(d)' = "none"
    BY <1>2, <2>1, GotoManager
  <2>7. Sound(d)'
    <3>1. Course(d)'
      BY <1>1, <1>2, <2>1, <2>2, <2>4, <2>6 DEF Course, KindOf
    <3>2. Ran(d)'
      BY <1>1, <1>2, <2>1, <2>2, <2>4, <2>6 DEF Ran, KindOf
    <3>3. Written(d)'
      BY <1>1, <1>2, <2>1, <2>2, <2>4, <2>6 DEF Written, FewRows, KindOf
    <3>4. Logged(d)' /\ LostWithHost(d)'
      BY <1>1, <1>2, <2>1, <2>2, <2>4, <2>6 DEF Logged, LostWithHost, KindOf
    <3> QED
      BY <3>1, <3>2, <3>3, <3>4 DEF Sound
  <2>8. (Counts(d) <=> KindOf(d) = "rpc") /\ ~ Counts(d)'
    BY <1>1, <1>2, <2>1, <2>6 DEF Counts, KindOf
  <2>9. OnlyData(d) /\ Calm
    BY <1>1, <2>2, <2>4 DEF OnlyData, Calm
  <2> QED
    BY <1>1, <2>1, <2>5, <2>7, <2>8, <2>9, Moves
<1>4. CASE RouteJob(d) /\ ~ (KindOf(d) = "rpc" /\ job[d] \notin Valid)
  <2>1. PICK step \in {"run", "insert"} :
          /\ Goto(Manager(d), step) /\ rows' = rows /\ count' = count
          /\ budget' = budget
          /\ step = "run" => KindOf(d) = "rpc"
          /\ step = "insert" => KindOf(d) = "mq"
    BY <1>2, <1>4 DEF RouteJob, KindOf
  <2>2. node' \in [Id -> {0} \cup Node] /\ turns' \in [Job -> Seq(Node)]
    BY <1>2, <1>4, Routed
  <2>3. Typed'
    <3>1. pc' \in [Act -> PcValue]
      BY <2>1, PcTyped DEF PcValue
    <3> QED
      BY <1>1, <2>1, <2>2, <3>1 DEF Typed
  <2>4. OnManager(d)' = step /\ OnNode(d)' = "none"
    BY <1>2, <2>1, GotoManager
  <2>5. Sound(d)'
    <3>1. Course(d)'
      BY <1>1, <1>2, <2>1, <2>4 DEF Course, KindOf
    <3>2. Ran(d)'
      BY <1>1, <1>2, <2>1, <2>4 DEF Ran, KindOf
    <3>3. Written(d)'
      BY <1>1, <1>2, <2>1, <2>4 DEF Written, FewRows, KindOf
    <3>4. Logged(d)' /\ LostWithHost(d)'
      BY <1>1, <1>2, <2>1, <2>4 DEF Logged, LostWithHost, KindOf
    <3> QED
      BY <3>1, <3>2, <3>3, <3>4 DEF Sound
  <2>6. Counts(d)' <=> Counts(d)
    BY <1>1, <1>2, <2>1, <2>4 DEF Counts, KindOf
  <2>7. OnlyData(d) /\ Calm
    BY <1>1, <2>1 DEF OnlyData, Calm
  <2> QED
    BY <1>1, <2>1, <2>3, <2>5, <2>6, <2>7, Moves
<1> QED
  BY <1>3, <1>4

\* The insertion of the row of a message, and a message that is not sent.
LEMMA InsertInv ==
  ASSUME Inv, NEW d \in Id, InsertRow(d) \/ InsertFails(d) \/ SendFails(d)
  PROVE  Inv'
<1> USE DEF Inv
<1>1. /\ OnManager(d) \in {"insert", "send"}
      /\ UNCHANGED <<job, host, parent, weak, turns, left, node, outcome, found,
                     topic, status, count>>
  BY DEF InsertRow, InsertFails, SendFails, At, OnManager, slaves, birth
<1>2. /\ Course(d) /\ Ran(d) /\ Written(d) /\ Logged(d)
      /\ OnNode(d) = "none" /\ outcome[d] = "none" /\ left[d] = <<>>
      /\ KindOf(d) = "mq" /\ job[d] # None
  BY <1>1 DEF Sound, Course, Ran
<1>3. PICK step \in {"send", "update"} :
        /\ Goto(Manager(d), step)
        /\ \/ /\ step = "send" /\ OnManager(d) = "insert" /\ budget' = budget
              /\ AddRow(d, "dispatched") /\ keyed' = keyed \cup {d}
           \/ /\ step = "send" /\ OnManager(d) = "insert" /\ Spend("errors")
              /\ rows' = rows /\ keyed' = keyed
           \/ /\ step = "update" /\ OnManager(d) = "send" /\ Spend("errors")
              /\ rows' = rows /\ keyed' = keyed
  BY DEF InsertRow, InsertFails, SendFails, At, OnManager
<1>4. /\ rows' \in [Id -> Seq(RowValue)]
      /\ \A e \in Id \ {d} : rows'[e] = rows[e]
      /\ rows'[d] = IF d \in keyed' THEN <<"dispatched">> ELSE <<>>
  <2>1. OnManager(d) = "insert" => rows[d] = <<>> /\ d \notin keyed
    BY <1>2 DEF Written, FewRows
  <2>2. OnManager(d) = "send" =>
            rows[d] = IF d \in keyed THEN <<"dispatched">> ELSE <<>>
    BY <1>2 DEF Written, FewRows
  <2>3. ASSUME rows' = rows, keyed' = keyed
        PROVE  rows'[d] = IF d \in keyed' THEN <<"dispatched">> ELSE <<>>
    BY <1>1, <2>1, <2>2, <2>3
  <2>4. ASSUME AddRow(d, "dispatched"), keyed' = keyed \cup {d},
               OnManager(d) = "insert"
        PROVE  /\ rows' \in [Id -> Seq(RowValue)]
               /\ \A e \in Id \ {d} : rows'[e] = rows[e]
               /\ rows'[d] = <<"dispatched">> /\ d \in keyed'
    BY <2>1, <2>4, AddRowIs DEF RowValue
  <2>5. rows \in [Id -> Seq(RowValue)]
    BY DEF Typed
  <2> QED
    BY <1>3, <2>3, <2>4, <2>5
<1>5. /\ budget' \in [fires : 0..MaxFires, errors : 0..MaxErrors,
                      crashes : 0..MaxCrashes, reloads : 0..MaxReloads]
      /\ budget'.errors = MaxErrors => budget.errors = MaxErrors /\ d \in keyed'
  BY <1>3, ErrorSpent DEF Typed
<1>6. Typed'
  <2>1. pc' \in [Act -> PcValue]
    BY <1>3, PcTyped DEF PcValue
  <2>2. keyed' \subseteq Id
    BY <1>3 DEF Typed
  <2> QED
    BY <1>1, <1>4, <1>5, <2>1, <2>2 DEF Typed
<1>7. OnManager(d)' = step /\ OnNode(d)' = "none"
  BY <1>2, <1>3, GotoManager
<1>8. Sound(d)'
  <2>1. Course(d)'
    BY <1>1, <1>2, <1>7 DEF Course, KindOf
  <2>2. Ran(d)'
    BY <1>1, <1>2, <1>7 DEF Ran, KindOf
  <2>3. Written(d)'
    <3>1. CASE d \in keyed'
      <4>1. /\ rows'[d] = <<"dispatched">> /\ rows'[d] # <<>>
            /\ Len(rows'[d]) = 1 /\ DOMAIN rows'[d] = {1}
            /\ rows'[d][1] = "dispatched"
        BY <1>4, <3>1
      <4> QED
        BY <1>1, <1>2, <1>7, <3>1, <4>1 DEF Written, FewRows, KindOf
    <3>2. CASE d \notin keyed'
      <4>1. rows'[d] = <<>> /\ Len(rows'[d]) = 0 /\ DOMAIN rows'[d] = {}
        BY <1>4, <3>2
      <4> QED
        BY <1>1, <1>2, <1>3, <1>7, <3>2, <4>1 DEF Written, FewRows, KindOf
    <3> QED
      BY <3>1, <3>2
  <2>4. Logged(d)' /\ LostWithHost(d)'
    BY <1>1, <1>2, <1>5, <1>7 DEF Logged, LostWithHost, KindOf
  <2> QED
    BY <2>1, <2>2, <2>3, <2>4 DEF Sound
<1>9. Counts(d)' <=> Counts(d)
  BY <1>1, <1>2, <1>7 DEF Counts, KindOf
<1>10. OnlyData(d) /\ Calm
  BY <1>1, <1>3, <1>4, <1>5 DEF OnlyData, Calm
<1> QED
  BY <1>1, <1>3, <1>6, <1>8, <1>9, <1>10, Moves

\* A row that is written again keeps its place.
LEMMA FirstChanged ==
  ASSUME NEW s \in Seq(RowValue), s # <<>>, NEW v \in RowValue
  PROVE  LET t == [s EXCEPT ![1] = v] IN
         /\ t \in Seq(RowValue) /\ t # <<>>
         /\ Len(t) = Len(s) /\ DOMAIN t = DOMAIN s
         /\ t[1] = v
         /\ \A i \in DOMAIN s : i # 1 => t[i] = s[i]
         /\ Len(s) = 1 => t = <<v>>
OBVIOUS

\* MqDispatch writes its row again.
LEMMA UpdateInv ==
  ASSUME Inv, NEW d \in Id, UpdateRow(d) \/ UpdateFails(d)
  PROVE  Inv'
<1> USE DEF Inv
<1>1. /\ OnManager(d) = "update"
      /\ UNCHANGED <<job, host, parent, weak, turns, left, node, outcome,
                     keyed, found, topic, status, count>>
  BY DEF UpdateRow, UpdateFails, MqEnds, At, OnManager, slaves, birth
<1>2. /\ Course(d) /\ Ran(d) /\ Written(d) /\ Logged(d)
      /\ KindOf(d) = "mq" /\ job[d] # None
  BY <1>1 DEF Sound, Course
<1>3. PICK step \in {"done", "notify"} :
        Goto(Manager(d), step) /\ (OnNode(d) # "none" => step = "done")
  BY FailedIs DEF UpdateRow, UpdateFails, MqEnds, At, OnNode
<1>4. \/ rows' = rows
      \/ rows' = [rows EXCEPT ![d] =
            IF d \in keyed THEN [rows[d] EXCEPT ![1] = "dispatched"] ELSE rows[d]]
  BY DEF UpdateRow, UpdateFails
<1>5. /\ rows' \in [Id -> Seq(RowValue)]
      /\ \A e \in Id \ {d} : rows'[e] = rows[e]
      /\ Len(rows'[d]) = Len(rows[d]) /\ DOMAIN rows'[d] = DOMAIN rows[d]
      /\ rows'[d] = <<>> <=> rows[d] = <<>>
      /\ \A i \in DOMAIN rows[d] : rows'[d][i] \in {rows[d][i], "dispatched"}
      /\ rows[d] = <<"dispatched">> => rows'[d] = <<"dispatched">>
  <2>1. rows[d] \in Seq(RowValue) /\ "dispatched" \in RowValue
    BY DEF Typed, RowValue
  <2>2. CASE d \in keyed /\ rows' # rows
    <3>1. rows[d] # <<>>
      BY <1>2, <2>2 DEF Written, FewRows
    <3>2. rows'[d] = [rows[d] EXCEPT ![1] = "dispatched"]
      BY <1>4, <2>2 DEF Typed
    <3>3. /\ rows'[d] \in Seq(RowValue) /\ rows'[d] # <<>>
          /\ Len(rows'[d]) = Len(rows[d]) /\ DOMAIN rows'[d] = DOMAIN rows[d]
          /\ rows'[d][1] = "dispatched"
          /\ \A i \in DOMAIN rows[d] : i # 1 => rows'[d][i] = rows[d][i]
          /\ Len(rows[d]) = 1 => rows'[d] = <<"dispatched">>
      BY <2>1, <3>1, <3>2, FirstChanged
    <3>4. rows' \in [Id -> Seq(RowValue)] /\ \A e \in Id \ {d} : rows'[e] = rows[e]
      <4>1. rows' = [rows EXCEPT ![d] = [rows[d] EXCEPT ![1] = "dispatched"]]
        BY <1>4, <2>2
      <4> QED
        BY <3>2, <3>3, <4>1 DEF Typed
    <3>5. rows[d] = <<"dispatched">> => Len(rows[d]) = 1
      OBVIOUS
    <3> QED
      BY <3>1, <3>3, <3>4, <3>5
  <2>3. CASE d \notin keyed \/ rows' = rows
    <3>1. rows' = rows
      BY <1>4, <2>3 DEF Typed
    <3> QED
      BY <3>1 DEF Typed
  <2> QED
    BY <2>2, <2>3
<1>6. Typed' /\ Calm
  <2>1. pc' \in [Act -> PcValue]
    BY <1>3, PcTyped DEF PcValue
  <2>2. budget' = budget \/ Spend("errors")
    BY DEF UpdateRow, UpdateFails
  <2>3. /\ budget' \in [fires : 0..MaxFires, errors : 0..MaxErrors,
                        crashes : 0..MaxCrashes, reloads : 0..MaxReloads]
        /\ budget'.errors = MaxErrors => budget.errors = MaxErrors
    BY <2>2, ErrorSpent DEF Typed
  <2> QED
    BY <1>1, <1>5, <2>1, <2>3 DEF Typed, Calm
<1>7. OnManager(d)' = step /\ OnNode(d)' = OnNode(d)
  BY <1>3, GotoManager
<1>8. Sound(d)'
  <2>1. Course(d)'
    BY <1>1, <1>2, <1>3, <1>7 DEF Course, KindOf
  <2>2. Ran(d)'
    BY <1>1, <1>2, <1>7 DEF Ran, KindOf
  <2>3. Written(d)'
    <3>1. /\ d \in keyed' => KindOf(d)' = "mq" /\ rows'[d] # <<>>
          /\ d \in found' => d \in keyed'
          /\ OnNode(d)' # "done" => Len(rows'[d]) <= 1
      BY <1>1, <1>2, <1>5, <1>7 DEF Written, KindOf
    <3>4. job'[d] \in Valid \/ KindOf(d)' # "mq" => FewRows(d)'
      <4>1. ASSUME rows[d][1] = "dispatched", Len(rows[d]) = 2
            PROVE  rows'[d][1] = "dispatched"
        <5>1. 1 \in DOMAIN rows[d]
          BY <4>1 DEF Typed
        <5> QED
          BY <1>5, <4>1, <5>1
      <4> QED
        BY <1>1, <1>2, <1>5, <4>1 DEF Written, FewRows, KindOf
    <3>2. \A i \in DOMAIN rows'[d] :
            /\ rows'[d][i] = "success" => outcome'[d] = "ok"
            /\ rows'[d][i] = "failed" => outcome'[d] # "ok"
      BY <1>1, <1>2, <1>5 DEF Written, FewRows
    <3>3. ASSUME OnNode(d) \in {"topic", "held", "run", "after"}
          PROVE  rows'[d] = IF d \in keyed' THEN <<"dispatched">> ELSE <<>>
      BY <1>1, <1>2, <1>5, <3>3 DEF Written, FewRows
    <3> QED
      BY <1>3, <1>7, <3>1, <3>2, <3>3, <3>4 DEF Written
  <2>4. Logged(d)' /\ LostWithHost(d)'
    BY <1>1, <1>2, <1>6, <1>7 DEF Logged, LostWithHost, KindOf, Calm
  <2> QED
    BY <2>1, <2>2, <2>3, <2>4 DEF Sound
<1>9. Counts(d)' <=> Counts(d)
  BY <1>1, <1>2, <1>7 DEF Counts, KindOf
<1>10. OnlyData(d)
  BY <1>1, <1>5 DEF OnlyData
<1> QED
  BY <1>1, <1>3, <1>6, <1>8, <1>9, <1>10, Moves

\* LocalDispatch takes up a message.
LEMMA HandleInv ==
  ASSUME Inv, NEW d \in Id, Handle(d) \/ HandleBlind(d)
  PROVE  Inv'
<1> USE DEF Inv
<1>1. /\ OnNode(d) = "held"
      /\ UNCHANGED <<job, host, parent, weak, turns, left, node, outcome, keyed,
                     topic, status, count>>
  BY DEF Handle, HandleBlind, Local, At, OnNode, slaves, birth
<1>2. /\ Course(d) /\ Ran(d) /\ Written(d) /\ Logged(d) /\ LostWithHost(d)
      /\ KindOf(d) = "mq" /\ outcome[d] = "none"
      /\ OnManager(d) \in {"update", "done", "lost"}
      /\ rows[d] = IF d \in keyed THEN <<"dispatched">> ELSE <<>>
  BY <1>1 DEF Sound, Course, Ran, Written
<1>3. /\ found' \subseteq Id
      /\ d \in found' => d \in keyed
      /\ \A e \in Id \ {d} : e \in found' <=> e \in found
  BY <1>2 DEF Handle, HandleBlind, Typed, Written
<1>4. /\ budget' \in [fires : 0..MaxFires, errors : 0..MaxErrors,
                      crashes : 0..MaxCrashes, reloads : 0..MaxReloads]
      /\ budget'.errors = MaxErrors =>
            budget.errors = MaxErrors /\ (d \in keyed => d \in found')
  BY ErrorSpent DEF Handle, HandleBlind, Typed
<1>5. (rows[d] = <<>> /\ Len(rows[d]) = 0) \/ Len(rows[d]) = 1
  <2>1. Len(<<>>) = 0 /\ Len(<<"dispatched">>) = 1
    OBVIOUS
  <2> QED
    BY <1>2, <2>1
<1>6. CASE job[d] \in Valid
  <2>1. Goto(AtNode(d), "run") /\ rows' = rows
    BY <1>6 DEF Handle, HandleBlind, Local
  <2>2. Typed'
    <3>1. pc' \in [Act -> PcValue]
      BY <2>1, PcTyped DEF PcValue
    <3> QED
      BY <1>1, <1>3, <1>4, <2>1, <3>1 DEF Typed
  <2>3. OnNode(d)' = "run" /\ OnManager(d)' = OnManager(d)
    BY <2>1, GotoNode
  <2>4. Sound(d)'
    <3>1. Course(d)'
      BY <1>1, <1>2, <1>6, <2>1, <2>3 DEF Course, KindOf
    <3>2. Ran(d)'
      BY <1>1, <1>2, <1>6, <2>1, <2>3 DEF Ran, KindOf
    <3>3. Written(d)'
      BY <1>1, <1>2, <1>6, <1>3, <1>5, <2>1, <2>3 DEF Written, FewRows, KindOf
    <3>4. Logged(d)' /\ LostWithHost(d)'
      BY <1>1, <1>2, <1>6, <1>4, <2>1, <2>3 DEF Logged, LostWithHost, KindOf
    <3> QED
      BY <3>1, <3>2, <3>3, <3>4 DEF Sound
  <2>5. OnlyData(d) /\ Calm /\ (Counts(d)' <=> Counts(d))
    BY <1>1, <1>3, <1>4, <2>1, <2>3 DEF OnlyData, Calm, Counts, KindOf
  <2> QED
    BY <1>1, <2>1, <2>2, <2>4, <2>5, Moves
<1>7. CASE job[d] \notin Valid
  <2>1. Goto(AtNode(d), "done") /\ AddRow(d, "failed")
    BY <1>7 DEF Handle, HandleBlind, Local
  <2>2. /\ rows' \in [Id -> Seq(RowValue)]
        /\ rows'[d] = Append(rows[d], "failed")
        /\ \A e \in Id \ {d} : rows'[e] = rows[e]
    BY <2>1, AddRowIs DEF RowValue
  <2>3. rows'[d] # <<>> /\ \A i \in DOMAIN rows'[d] : rows'[d][i] # "success"
    <3>1. /\ rows[d] \in Seq(RowValue)
          /\ \A i \in 1..Len(rows[d]) : rows[d][i] = "dispatched"
      <4>1. CASE rows[d] = <<>>
        BY <4>1 DEF Typed
      <4>2. CASE rows[d] = <<"dispatched">>
        <5>1. Len(rows[d]) = 1 /\ rows[d][1] = "dispatched"
          BY <4>2
        <5> QED
          BY <5>1 DEF Typed
      <4> QED
        BY <1>2, <4>1, <4>2
    <3>2. /\ Len(rows'[d]) = Len(rows[d]) + 1
          /\ DOMAIN rows'[d] = 1..(Len(rows[d]) + 1)
          /\ \A i \in 1..Len(rows[d]) : rows'[d][i] = rows[d][i]
          /\ rows'[d][Len(rows[d]) + 1] = "failed"
      BY <2>2, <3>1 DEF RowValue
    <3>3. ASSUME NEW i \in 1..(Len(rows[d]) + 1) PROVE rows'[d][i] # "success"
      <4>1. i \in 1..Len(rows[d]) \/ i = Len(rows[d]) + 1
        BY <3>1
      <4> QED
        BY <3>1, <3>2, <4>1
    <3> QED
      BY <3>1, <3>2, <3>3
  <2>4. Typed'
    <3>1. pc' \in [Act -> PcValue]
      BY <2>1, PcTyped DEF PcValue
    <3> QED
      BY <1>1, <1>3, <1>4, <2>2, <3>1 DEF Typed
  <2>5. OnNode(d)' = "done" /\ OnManager(d)' = OnManager(d)
    BY <2>1, GotoNode
  <2>6. Sound(d)'
    <3>1. Course(d)'
      BY <1>1, <1>2, <1>7, <2>3, <2>5 DEF Course, KindOf
    <3>2. Ran(d)'
      BY <1>1, <1>2, <1>7, <2>3, <2>5 DEF Ran, KindOf
    <3>3. Written(d)'
      BY <1>1, <1>2, <1>7, <1>3, <2>3, <2>5 DEF Written, FewRows, KindOf
    <3>4. Logged(d)' /\ LostWithHost(d)'
      BY <1>1, <1>2, <1>7, <1>4, <2>3, <2>5 DEF Logged, LostWithHost, KindOf
    <3> QED
      BY <3>1, <3>2, <3>3, <3>4 DEF Sound
  <2>7. OnlyData(d) /\ Calm /\ (Counts(d)' <=> Counts(d))
    BY <1>1, <1>3, <1>4, <2>2, <2>5 DEF OnlyData, Calm, Counts, KindOf
  <2> QED
    BY <1>1, <2>1, <2>4, <2>6, <2>7, Moves
<1> QED
  BY <1>6, <1>7

\* A run ends, on the slave or on the node.
LEMMA RunEndsInv ==
  ASSUME Inv, NEW a \in Act, NEW o \in {"ok", "error"}, RunEnds(a, o)
  PROVE  Inv'
<1> USE DEF Inv
<1>1. PICK d \in Id : d = a[1] /\ (a = Manager(d) \/ a = AtNode(d))
  BY Acts
<1>2. /\ pc[a] = "run" /\ Goto(a, "after")
      /\ outcome' = [outcome EXCEPT ![d] = o]
      /\ left' = [left EXCEPT ![d] = StrongChildren(job[d], o)]
      /\ IF a = Manager(d) /\ KindOf(d) = "http" THEN FinishJob(host[d])
                                                  ELSE count' = count
      /\ UNCHANGED <<job, host, parent, weak, turns, node, rows, keyed, found,
                     topic, budget, status>>
  BY <1>1 DEF RunEnds, At, CountEndsWithRun, KindOf, birth
<1>3. Course(d) /\ Ran(d) /\ Written(d) /\ Logged(d) /\ LostWithHost(d)
  BY DEF Sound
<1>4. /\ outcome'[d] = o /\ left'[d] = StrongChildren(job[d], o)
      /\ \A e \in Id \ {d} : outcome'[e] = outcome[e] /\ left'[e] = left[e]
  BY <1>2 DEF Typed
<1>5. /\ job[d] \in Job /\ StrongChildren(job[d], o) \in Seq(Job)
      /\ left'[d] # <<>> => o = "ok" /\ Depend[job[d]] = 2
  <2>1. job[d] \in Job
    BY <1>1, <1>2, <1>3 DEF Course, OnManager, OnNode, Typed
  <2> QED
    BY <1>4, <2>1, DispatchConstantsOK DEF StrongChildren
<1>6. Typed'
  <2>1. pc' \in [Act -> PcValue]
    BY <1>1, <1>2, PcTyped DEF PcValue
  <2>2. count' \in [Proc -> Int]
    BY <1>2, CountTyped
  <2>3. left' \in [Id -> Seq(Job)] /\ outcome' \in [Id -> {"none", "ok", "error"}]
    BY <1>2, <1>5 DEF Typed
  <2> QED
    BY <1>2, <2>1, <2>2, <2>3 DEF Typed
<1>7. OnlyData(d) /\ Calm
  BY <1>2, <1>4 DEF OnlyData, Calm
<1>8. CASE a = Manager(d)
  <2>1. OnManager(d) = "run" /\ OnManager(d)' = "after" /\ OnNode(d)' = OnNode(d)
    BY <1>2, <1>8, GotoManager DEF OnManager
  <2>2. /\ KindOf(d) \in {"rpc", "http"} /\ OnNode(d) = "none"
        /\ rows[d] = <<>> /\ outcome[d] = "none" /\ d \notin keyed
    BY <1>3, <2>1 DEF Course, Ran, Written, FewRows
  <2>3. Sound(d)'
    <3>1. Course(d)'
      BY <1>2, <1>3, <1>4, <1>5, <2>1, <2>2 DEF Course, KindOf
    <3>2. Ran(d)'
      BY <1>2, <1>3, <1>4, <1>5, <2>1, <2>2 DEF Ran, KindOf
    <3>3. Written(d)'
      BY <1>2, <1>3, <1>4, <1>5, <2>1, <2>2 DEF Written, FewRows, KindOf
    <3>4. Logged(d)' /\ LostWithHost(d)'
      BY <1>2, <1>3, <1>4, <1>5, <2>1, <2>2 DEF Logged, LostWithHost, KindOf
    <3> QED
      BY <3>1, <3>2, <3>3, <3>4 DEF Sound
  <2>4. Counts(d) /\ (Counts(d)' <=> KindOf(d) = "rpc")
    BY <1>2, <2>1, <2>2 DEF Counts, KindOf
  <2> QED
    BY <1>2, <1>6, <1>7, <1>8, <2>2, <2>3, <2>4, Moves
<1>9. CASE a = AtNode(d)
  <2>1. OnNode(d) = "run" /\ OnNode(d)' = "after" /\ OnManager(d)' = OnManager(d)
    BY <1>2, <1>9, GotoNode DEF OnNode
  <2>2. /\ KindOf(d) = "mq" /\ outcome[d] = "none" /\ job[d] \in Valid
        /\ OnManager(d) \in {"update", "done", "lost"}
        /\ rows[d] = IF d \in keyed THEN <<"dispatched">> ELSE <<>>
    BY <1>3, <2>1 DEF Course, Ran, Written, FewRows
  <2>3. \A i \in DOMAIN rows[d] : rows[d][i] = "dispatched"
    BY <2>2
  <2>4. Sound(d)'
    <3>1. Course(d)'
      BY <1>2, <1>3, <1>4, <1>5, <2>1, <2>2, <2>3 DEF Course, KindOf
    <3>2. Ran(d)'
      BY <1>2, <1>3, <1>4, <1>5, <2>1, <2>2, <2>3 DEF Ran, KindOf
    <3>3. Written(d)'
      BY <1>2, <1>3, <1>4, <1>5, <2>1, <2>2, <2>3 DEF Written, FewRows, KindOf
    <3>4. Logged(d)' /\ LostWithHost(d)'
      BY <1>2, <1>3, <1>4, <1>5, <2>1, <2>2, <2>3 DEF Logged, LostWithHost, KindOf
    <3> QED
      BY <3>1, <3>2, <3>3, <3>4 DEF Sound
  <2>5. count' = count /\ (Counts(d)' <=> Counts(d))
    BY <1>2, <1>9, <2>1, <2>2, Acts DEF Counts, KindOf
  <2> QED
    BY <1>2, <1>6, <1>7, <1>9, <2>1, <2>2, <2>4, <2>5, Moves
<1> QED
  BY <1>1, <1>8, <1>9

\* A child that is not asked for is passed over.
LEMMA ChildFailsInv ==
  ASSUME Inv, NEW a \in Act, ChildFails(a)
  PROVE  Inv'
<1> USE DEF Inv
<1>1. PICK d \in Id : d = a[1] /\ (a = Manager(d) \/ a = AtNode(d))
  BY Acts
<1>2. /\ pc[a] = "after" /\ left[d] # <<>> /\ Spend("errors")
      /\ left' = [left EXCEPT ![d] = Tail(left[d])]
      /\ UNCHANGED <<status, count, job, host, parent, weak, turns, pc, node,
                     outcome, rows, keyed, found, topic>>
  BY <1>1 DEF ChildFails, At, Others, slaves, birth
<1>3. /\ left' \in [Id -> Seq(Job)]
      /\ \A e \in Id \ {d} : left'[e] = left[e]
      /\ left'[d] # <<>> => left[d] # <<>>
  <2>1. Tail(left[d]) \in Seq(Job)
    BY <1>2 DEF Typed
  <2> QED
    BY <1>2, <2>1 DEF Typed
<1>4. Typed'
  <2>1. budget' \in [fires : 0..MaxFires, errors : 0..MaxErrors,
                     crashes : 0..MaxCrashes, reloads : 0..MaxReloads]
    BY <1>2, ErrorSpent
  <2> QED
    BY <1>2, <1>3, <2>1 DEF Typed
<1>5. /\ OnManager(d)' = OnManager(d) /\ OnNode(d)' = OnNode(d)
      /\ budget'.errors # MaxErrors
  BY <1>2, ErrorSpent DEF OnManager, OnNode
<1>6. Course(d) /\ Ran(d) /\ Written(d) /\ LostWithHost(d)
  BY DEF Sound
<1>7. Sound(d)'
  <2>1. Course(d)' /\ Written(d)'
    BY <1>2, <1>5, <1>6 DEF Course, Written, FewRows, KindOf
  <2>2. Ran(d)'
    BY <1>2, <1>3, <1>5, <1>6 DEF Ran, KindOf
  <2>3. Logged(d)' /\ LostWithHost(d)'
    BY <1>2, <1>5, <1>6 DEF Logged, LostWithHost
  <2> QED
    BY <2>1, <2>2, <2>3 DEF Sound
<1>8. OnlyData(d) /\ Calm /\ (Counts(d)' <=> Counts(d))
  BY <1>2, <1>3, <1>5 DEF OnlyData, Calm, Counts, KindOf
<1>9. Goto(Manager(d), OnManager(d))
  BY <1>2, Acts DEF Goto, OnManager, Typed
<1> QED
  BY <1>2, <1>4, <1>7, <1>8, <1>9, Moves

\* The end of a dispatch on the slave: its row is inserted, unless it fails.
LEMMA LogOnManager ==
  ASSUME Inv, NEW d \in Id, Log(Manager(d)) \/ LogFails(Manager(d))
  PROVE  Inv'
<1> USE DEF Inv
<1>1. /\ OnManager(d) = "after" /\ left[d] = <<>>
      /\ IF KindOf(d) = "rpc" THEN FinishJob(host[d]) ELSE count' = count
      /\ UNCHANGED <<status, job, host, parent, weak, turns, left, node,
                     outcome, keyed, found, topic>>
  BY Acts DEF Log, LogFails, LogEnds, At, CountEndsWithDispatch, KindOf,
              OnManager, birth
<1>2. PICK step \in {"done", "notify"} : Goto(Manager(d), step)
  <2>1. Manager(d)[1] = d
    BY Acts
  <2> QED
    BY <2>1, FailedIs DEF Log, LogFails, LogEnds
<1>3. /\ Course(d) /\ Ran(d) /\ Written(d) /\ Logged(d)
      /\ KindOf(d) \in {"rpc", "http"} /\ OnNode(d) = "none"
      /\ rows[d] = <<>> /\ d \notin keyed /\ outcome[d] \in {"ok", "error"}
      /\ job[d] # None
  BY <1>1 DEF Sound, Course, Ran, Written, Typed
<1>4. OnManager(d)' = step /\ OnNode(d)' = "none"
  BY <1>2, <1>3, GotoManager
<1>5. pc' \in [Act -> PcValue] /\ count' \in [Proc -> Int]
  BY <1>1, <1>2, PcTyped, CountTyped DEF PcValue
<1>6. (Counts(d) <=> KindOf(d) = "rpc") /\ ~ Counts(d)'
  BY <1>1, <1>3, <1>4 DEF Counts, KindOf
<1>7. CASE Log(Manager(d))
  <2>1. AddRow(d, FinalStatus(d)) /\ budget' = budget
    BY <1>7, Acts DEF Log, HasRow
  <2>2. FinalStatus(d) \in RowValue
        /\ (FinalStatus(d) = "success" => outcome[d] = "ok")
        /\ (FinalStatus(d) = "failed" => outcome[d] # "ok")
    BY DEF FinalStatus, RowValue
  <2>3. /\ rows' \in [Id -> Seq(RowValue)]
        /\ rows'[d] # <<>> /\ Len(rows'[d]) = 1 /\ DOMAIN rows'[d] = {1}
        /\ rows'[d][1] = FinalStatus(d)
        /\ \A e \in Id \ {d} : rows'[e] = rows[e]
    BY <1>3, <2>1, <2>2, AddRowIs
  <2>4. Typed'
    BY <1>1, <1>5, <2>1, <2>3 DEF Typed
  <2>5. Sound(d)'
    <3>1. Course(d)'
      BY <1>1, <1>3, <1>4, <2>1, <2>2, <2>3 DEF Course, KindOf
    <3>2. Ran(d)'
      BY <1>1, <1>3, <1>4, <2>1, <2>2, <2>3 DEF Ran, KindOf
    <3>3. Written(d)'
      BY <1>1, <1>3, <1>4, <2>1, <2>2, <2>3 DEF Written, FewRows, KindOf
    <3>4. Logged(d)' /\ LostWithHost(d)'
      BY <1>1, <1>3, <1>4, <2>1, <2>2, <2>3 DEF Logged, LostWithHost, KindOf
    <3> QED
      BY <3>1, <3>2, <3>3, <3>4 DEF Sound
  <2>6. OnlyData(d) /\ Calm
    BY <1>1, <2>1, <2>3 DEF OnlyData, Calm
  <2> QED
    BY <1>1, <1>2, <1>6, <2>4, <2>5, <2>6, Moves
<1>8. CASE LogFails(Manager(d))
  <2>1. Spend("errors") /\ rows' = rows
    BY <1>8 DEF LogFails
  <2>2. /\ budget' \in [fires : 0..MaxFires, errors : 0..MaxErrors,
                        crashes : 0..MaxCrashes, reloads : 0..MaxReloads]
        /\ budget'.errors # MaxErrors
    BY <2>1, ErrorSpent
  <2>3. Typed'
    BY <1>1, <1>5, <2>1, <2>2 DEF Typed
  <2>4. Sound(d)'
    <3>1. Course(d)'
      BY <1>1, <1>3, <1>4, <2>1, <2>2 DEF Course, KindOf
    <3>2. Ran(d)'
      BY <1>1, <1>3, <1>4, <2>1, <2>2 DEF Ran, KindOf
    <3>3. Written(d)'
      BY <1>1, <1>3, <1>4, <2>1, <2>2 DEF Written, FewRows, KindOf
    <3>4. Logged(d)' /\ LostWithHost(d)'
      BY <1>1, <1>3, <1>4, <2>1, <2>2 DEF Logged, LostWithHost, KindOf
    <3> QED
      BY <3>1, <3>2, <3>3, <3>4 DEF Sound
  <2>5. OnlyData(d) /\ Calm
    BY <1>1, <2>1, <2>2 DEF OnlyData, Calm
  <2> QED
    BY <1>1, <1>2, <1>6, <2>3, <2>4, <2>5, Moves
<1> QED
  BY <1>7, <1>8

\* A row that is inserted comes last.
LEMMA LastAdded ==
  ASSUME NEW s \in Seq(RowValue), NEW v \in RowValue
  PROVE  LET t == Append(s, v) IN
         /\ t # <<>> /\ Len(t) = Len(s) + 1 /\ DOMAIN t = 1..(Len(s) + 1)
         /\ \A i \in 1..Len(s) : t[i] = s[i]
         /\ t[Len(s) + 1] = v
OBVIOUS

\* The end of the handling of a message: its row is completed, or inserted if
\* the message carries none or the node could not read it.
LEMMA LogOnNode ==
  ASSUME Inv, NEW d \in Id, Log(AtNode(d)) \/ LogFails(AtNode(d))
  PROVE  Inv'
<1> USE DEF Inv
<1>1. /\ OnNode(d) = "after" /\ left[d] = <<>> /\ Goto(AtNode(d), "done")
      /\ UNCHANGED <<status, count, job, host, parent, weak, turns, left, node,
                     outcome, keyed, found, topic>>
  BY Acts DEF Log, LogFails, LogEnds, At, OnNode, birth
<1>2. /\ Course(d) /\ Ran(d) /\ Written(d) /\ Logged(d) /\ LostWithHost(d)
      /\ KindOf(d) = "mq" /\ outcome[d] \in {"ok", "error"}
      /\ OnManager(d) \in {"update", "done", "lost"}
      /\ rows[d] = IF d \in keyed THEN <<"dispatched">> ELSE <<>>
  BY <1>1 DEF Sound, Course, Ran, Written, Typed
<1>3. OnNode(d)' = "done" /\ OnManager(d)' = OnManager(d)
  BY <1>1, GotoNode
<1>4. pc' \in [Act -> PcValue]
  BY <1>1, PcTyped DEF PcValue
<1>5. Counts(d)' <=> Counts(d)
  BY <1>1, <1>3 DEF Counts, KindOf
<1>6. CASE Log(AtNode(d))
  <2>1. budget' = budget
    BY <1>6 DEF Log
  <2>2. /\ FinalStatus(d) \in RowValue
        /\ FinalStatus(d) = "success" => outcome[d] = "ok"
        /\ FinalStatus(d) = "failed" => outcome[d] # "ok"
    BY DEF FinalStatus, RowValue
  <2>3. /\ rows' \in [Id -> Seq(RowValue)]
        /\ \A e \in Id \ {d} : rows'[e] = rows[e]
        /\ rows'[d] # <<>>
        /\ \A i \in DOMAIN rows'[d] :
                rows'[d][i] \in {"dispatched", FinalStatus(d)}
        /\ \/ Len(rows'[d]) = 1
           \/ /\ Len(rows'[d]) = 2 /\ d \in keyed \ found
              /\ rows'[d][1] = "dispatched"
    <3>1. CASE d \in found
      <4>1. rows' = [rows EXCEPT ![d] = [rows[d] EXCEPT ![1] = FinalStatus(d)]]
        BY <1>6, <3>1, Acts DEF Log, HasRow
      <4>2. rows[d] \in Seq(RowValue) /\ rows[d] # <<>> /\ Len(rows[d]) = 1
        <5>1. rows[d] = <<"dispatched">>
          BY <1>2, <3>1 DEF Written
        <5>2. rows[d] # <<>> /\ Len(rows[d]) = 1
          BY <5>1
        <5> QED
          BY <5>2 DEF Typed
      <4>3. /\ [rows[d] EXCEPT ![1] = FinalStatus(d)] \in Seq(RowValue)
            /\ [rows[d] EXCEPT ![1] = FinalStatus(d)] = <<FinalStatus(d)>>
        BY <2>2, <4>2, FirstChanged
      <4>4. rows'[d] = <<FinalStatus(d)>>
        BY <4>1, <4>3 DEF Typed
      <4>5. /\ rows' \in [Id -> Seq(RowValue)]
            /\ \A e \in Id \ {d} : rows'[e] = rows[e]
        BY <4>1, <4>3 DEF Typed
      <4>6. rows'[d] # <<>> /\ Len(rows'[d]) = 1 /\ DOMAIN rows'[d] = {1}
            /\ rows'[d][1] = FinalStatus(d)
        BY <4>4
      <4> QED
        BY <4>5, <4>6
    <3>2. CASE d \notin found
      <4>1. AddRow(d, FinalStatus(d))
        BY <1>6, <3>2, Acts DEF Log, HasRow
      <4>2. /\ rows' \in [Id -> Seq(RowValue)]
            /\ rows'[d] = Append(rows[d], FinalStatus(d))
            /\ \A e \in Id \ {d} : rows'[e] = rows[e]
        BY <2>2, <4>1, AddRowIs
      <4>3. CASE d \notin keyed
        <5>1. rows[d] = <<>>
          BY <1>2, <4>3
        <5> QED
          BY <2>2, <4>1, <5>1, AddRowIs
      <4>4. CASE d \in keyed
        <5>1. rows[d] = <<"dispatched">>
          BY <1>2, <4>4
        <5>2. rows[d] \in Seq(RowValue)
          BY DEF Typed
        <5>3. Len(rows[d]) = 1 /\ rows[d][1] = "dispatched"
          BY <5>1
        <5>4. /\ rows'[d] # <<>> /\ Len(rows'[d]) = 2 /\ DOMAIN rows'[d] = 1..2
              /\ rows'[d][1] = "dispatched" /\ rows'[d][2] = FinalStatus(d)
          BY <2>2, <4>2, <5>2, <5>3, LastAdded
        <5>5. \A i \in 1..2 : i = 1 \/ i = 2
          OBVIOUS
        <5> QED
          BY <3>2, <4>2, <4>4, <5>4, <5>5
      <4> QED
        BY <4>2, <4>3, <4>4
    <3> QED
      BY <3>1, <3>2
  <2>4. Typed'
    BY <1>1, <1>4, <2>1, <2>3 DEF Typed
  <2>5. Sound(d)'
    <3>1. Course(d)'
      BY <1>1, <1>2, <1>3 DEF Course, KindOf
    <3>2. Ran(d)'
      BY <1>1, <1>2, <1>3 DEF Ran, KindOf
    <3>3. Written(d)'
      BY <1>1, <1>2, <1>3, <2>2, <2>3 DEF Written, FewRows, KindOf
    <3>4. Logged(d)' /\ LostWithHost(d)'
      BY <1>1, <1>2, <1>3, <2>1, <2>3 DEF Logged, LostWithHost, KindOf
    <3> QED
      BY <3>1, <3>2, <3>3, <3>4 DEF Sound
  <2>6. OnlyData(d) /\ Calm
    BY <1>1, <2>1, <2>3 DEF OnlyData, Calm
  <2> QED
    BY <1>1, <1>5, <2>4, <2>5, <2>6, Moves
<1>7. CASE LogFails(AtNode(d))
  <2>1. Spend("errors") /\ rows' = rows
    BY <1>7 DEF LogFails
  <2>2. /\ budget' \in [fires : 0..MaxFires, errors : 0..MaxErrors,
                        crashes : 0..MaxCrashes, reloads : 0..MaxReloads]
        /\ budget'.errors # MaxErrors
    BY <2>1, ErrorSpent
  <2>3. Typed'
    BY <1>1, <1>4, <2>1, <2>2 DEF Typed
  <2>4. Sound(d)'
    <3>1. Course(d)'
      BY <1>1, <1>2, <1>3 DEF Course, KindOf
    <3>2. Ran(d)'
      BY <1>1, <1>2, <1>3 DEF Ran, KindOf
    <3>3. Written(d)'
      BY <1>1, <1>2, <1>3, <2>1 DEF Written, FewRows, KindOf
    <3>4. Logged(d)' /\ LostWithHost(d)'
      BY <1>1, <1>2, <1>3, <2>2 DEF Logged, LostWithHost, KindOf
    <3> QED
      BY <3>1, <3>2, <3>3, <3>4 DEF Sound
  <2>5. OnlyData(d) /\ Calm
    BY <1>1, <2>1, <2>2 DEF OnlyData, Calm
  <2> QED
    BY <1>1, <1>5, <2>3, <2>4, <2>5, Moves
<1> QED
  BY <1>6, <1>7
-----------------------------------------------------------------------------
(***************************************************************************)
(* Messages.                                                               *)
(***************************************************************************)

\* A message is sent: it goes behind those that wait for the same node.
LEMMA SendInv ==
  ASSUME Inv, NEW d \in Id, SendMessage(d)
  PROVE  Inv'
<1> USE DEF Inv
<1>1. /\ OnManager(d) = "send"
      /\ UNCHANGED <<job, host, parent, weak, turns, left, node, outcome, rows,
                     keyed, found, budget, status, count>>
  BY DEF SendMessage, At, OnManager, slaves, birth
<1>2. /\ Course(d) /\ Ran(d) /\ Written(d) /\ Logged(d) /\ LostWithHost(d)
      /\ KindOf(d) = "mq" /\ outcome[d] = "none" /\ OnNode(d) = "none"
      /\ rows[d] = IF d \in keyed THEN <<"dispatched">> ELSE <<>>
  BY <1>1 DEF Sound, Course, Ran, Written
<1>3. /\ OnManager(d)' = "update" /\ OnNode(d)' = "topic"
      /\ \A e \in Id \ {d} : OnManager(e)' = OnManager(e) /\ OnNode(e)' = OnNode(e)
      /\ pc' \in [Act -> PcValue]
  <2>1. /\ pc'[Manager(d)] = "update" /\ pc'[AtNode(d)] = "topic"
        /\ \A b \in Act : b # Manager(d) /\ b # AtNode(d) => pc'[b] = pc[b]
    BY Acts DEF SendMessage, Typed
  <2>2. pc' \in [Act -> PcValue]
    BY DEF SendMessage, Typed, PcValue
  <2> QED
    BY <2>1, <2>2, Acts DEF OnManager, OnNode
<1>4. /\ topic' \in [Node -> Seq(Id)]
      /\ \A n \in Node : n # node[d] => topic'[n] = topic[n]
      /\ node[d] \in Node => topic'[node[d]] = Append(topic[node[d]], d)
  <2>1. /\ topic \in [Node -> Seq(Id)]
        /\ topic' = [topic EXCEPT ![node[d]] = Append(topic[node[d]], d)]
    BY DEF SendMessage, Typed
  <2>2. node[d] \in Node => Append(topic[node[d]], d) \in Seq(Id)
    BY <2>1
  <2> QED
    BY <2>1, <2>2
<1>5. Typed'
  BY <1>1, <1>3, <1>4 DEF Typed
<1>6. Sound(d)'
  <2>1. Course(d)'
    BY <1>1, <1>2, <1>3 DEF Course, KindOf
  <2>2. Ran(d)'
    BY <1>1, <1>2, <1>3 DEF Ran, KindOf
  <2>3. Written(d)'
    BY <1>1, <1>2, <1>3 DEF Written, FewRows, KindOf
  <2>4. Logged(d)' /\ LostWithHost(d)'
    BY <1>1, <1>2, <1>3 DEF Logged, LostWithHost, KindOf
  <2> QED
    BY <2>1, <2>2, <2>3, <2>4 DEF Sound
<1>7. \A e \in Id : Sound(e)'
  <2>1. Calm /\ \A e \in Id \ {d} : Same(e)
    BY <1>1, <1>3 DEF Calm, Same
  <2> QED
    BY <1>6, <2>1, SameKeeps
<1>8. Waiting'
  <2>1. \A n \in Node : topic[n] \in Seq(Id)
        /\ \A i \in DOMAIN topic[n] : topic[n][i] \in Id /\ topic[n][i] # d
    BY <1>2 DEF Typed, Waiting
  <2>2. ASSUME NEW n \in Node, NEW i \in DOMAIN topic'[n]
        PROVE  \/ i \in DOMAIN topic[n] /\ topic'[n][i] = topic[n][i]
               \/ n = node[d] /\ i = Len(topic[n]) + 1 /\ topic'[n][i] = d
    <3>1. CASE n # node[d]
      BY <1>4, <3>1
    <3>2. CASE n = node[d]
      <4>1. PICK s \in Seq(Id) : s = topic[n]
        BY <2>1
      <4>2. topic'[n] = Append(s, d)
        BY <1>4, <3>2, <4>1
      <4>3. i \in 1..(Len(s) + 1)
        BY <4>2
      <4>4. i \in 1..Len(s) \/ i = Len(s) + 1
        BY <4>1, <4>3
      <4> QED
        BY <3>2, <4>1, <4>2, <4>4
    <3> QED
      BY <3>1, <3>2
  <2>3. ASSUME NEW n \in Node, NEW i \in DOMAIN topic'[n]
        PROVE  pc'[AtNode(topic'[n][i])] = "topic"
    <3>1. CASE i \in DOMAIN topic[n] /\ topic'[n][i] = topic[n][i]
      <4>1. PICK e \in Id : e = topic[n][i] /\ e # d /\ OnNode(e) = "topic"
        BY <2>1, <3>1 DEF Waiting
      <4>2. OnNode(e)' = "topic"
        BY <1>3, <4>1
      <4> QED
        BY <3>1, <4>1, <4>2 DEF OnNode
    <3>2. CASE topic'[n][i] = d
      BY <1>3, <3>2 DEF OnNode
    <3> QED
      BY <2>2, <3>1, <3>2
  <2>4. ASSUME NEW m \in Node, NEW n \in Node, NEW i \in DOMAIN topic'[m],
               NEW k \in DOMAIN topic'[n], topic'[m][i] = topic'[n][k]
        PROVE  m = n /\ i = k
    BY <2>1, <2>2, <2>4 DEF Waiting
  <2> QED
    BY <2>3, <2>4 DEF Waiting, OnNode
<1>9. Asked'
  BY <1>1, <1>5, AskedSame
<1>10. CountIsTrue'
  <2>1. \A e \in Id : CountsAlike(e)
    BY <1>1, <1>2, <1>3 DEF CountsAlike, Counts, KindOf
  <2> QED
    BY <1>1, <2>1, CountSame
<1> QED
  BY <1>5, <1>7, <1>8, <1>9, <1>10

\* The message a node takes is the first of its topic.
LEMMA TakeInv ==
  ASSUME Inv, NEW n \in Node, TakeMessage(n)
  PROVE  Inv'
<1> USE DEF Inv
<1>1. PICK d \in Id : d = Head(topic[n]) /\ d = topic[n][1] /\ 1 \in DOMAIN topic[n]
  <2>1. topic[n] \in Seq(Id) /\ topic[n] # <<>>
    BY DEF Typed, TakeMessage
  <2> QED
    BY <2>1
<1>2. /\ OnNode(d) = "topic" /\ Goto(AtNode(d), "held")
      /\ UNCHANGED <<job, host, parent, weak, turns, left, node, outcome, rows,
                     keyed, found, budget, status, count>>
  BY <1>1 DEF TakeMessage, Waiting, slaves, birth
<1>3. /\ Course(d) /\ Ran(d) /\ Written(d) /\ Logged(d) /\ LostWithHost(d)
  BY DEF Sound
<1>4. /\ OnManager(d)' = OnManager(d) /\ OnNode(d)' = "held"
      /\ \A e \in Id \ {d} : OnManager(e)' = OnManager(e) /\ OnNode(e)' = OnNode(e)
  BY <1>2, GotoNode
<1>5. /\ topic' \in [Node -> Seq(Id)]
      /\ \A m \in Node : m # n => topic'[m] = topic[m]
      /\ topic'[n] = Tail(topic[n]) /\ topic[n] \in Seq(Id) /\ topic[n] # <<>>
  <2>1. topic' = [topic EXCEPT ![n] = Tail(topic[n])] /\ topic[n] # <<>>
    BY DEF TakeMessage
  <2>2. topic[n] \in Seq(Id) /\ Tail(topic[n]) \in Seq(Id)
    BY <2>1 DEF Typed
  <2> QED
    BY <2>1, <2>2 DEF Typed
<1>6. Typed'
  <2>1. pc' \in [Act -> PcValue]
    BY <1>2, PcTyped DEF PcValue
  <2> QED
    BY <1>2, <1>5, <2>1 DEF Typed
<1>7. Sound(d)'
  <2>1. Course(d)'
    BY <1>2, <1>3, <1>4 DEF Course, KindOf
  <2>2. Ran(d)'
    BY <1>2, <1>3, <1>4 DEF Ran, KindOf
  <2>3. Written(d)'
    BY <1>2, <1>3, <1>4 DEF Written, FewRows, KindOf
  <2>4. Logged(d)' /\ LostWithHost(d)'
    BY <1>2, <1>3, <1>4 DEF Logged, LostWithHost, KindOf
  <2> QED
    BY <2>1, <2>2, <2>3, <2>4 DEF Sound
<1>8. \A e \in Id : Sound(e)'
  <2>1. Calm /\ \A e \in Id \ {d} : Same(e)
    BY <1>2, <1>4 DEF Calm, Same
  <2> QED
    BY <1>7, <2>1, SameKeeps
<1>9. Waiting'
  <2>1. ASSUME NEW m \in Node, NEW i \in DOMAIN topic'[m]
        PROVE  \/ m # n /\ i \in DOMAIN topic[m] /\ topic'[m][i] = topic[m][i]
               \/ /\ m = n /\ i + 1 \in DOMAIN topic[m] /\ i \in Nat \ {0}
                  /\ topic'[m][i] = topic[m][i + 1]
    <3>1. CASE m # n
      BY <1>5, <3>1
    <3>2. CASE m = n
      <4>1. PICK s \in Seq(Id) : s = topic[n] /\ s # <<>>
        BY <1>5
      <4>2. topic'[m] = Tail(s)
        BY <1>5, <3>2, <4>1
      <4>3. i \in 1..(Len(s) - 1) /\ topic'[m][i] = s[i + 1]
        BY <4>1, <4>2
      <4>4. i + 1 \in 1..Len(s) /\ i \in Nat \ {0}
        BY <4>1, <4>3
      <4> QED
        BY <3>2, <4>1, <4>3, <4>4
    <3> QED
      BY <3>1, <3>2
  <2>2. ASSUME NEW m \in Node, NEW i \in DOMAIN topic[m]
        PROVE  topic[m][i] \in Id /\ i \in Nat \ {0}
    <3>1. PICK s \in Seq(Id) : s = topic[m]
      BY DEF Typed
    <3>2. i \in 1..Len(s) /\ s[i] \in Id
      BY <3>1
    <3> QED
      BY <3>1, <3>2
  <2>3. ASSUME NEW m \in Node, NEW i \in DOMAIN topic'[m]
        PROVE  pc'[AtNode(topic'[m][i])] = "topic"
    <3>1. PICK k \in DOMAIN topic[m] : topic'[m][i] = topic[m][k] /\ (m # n \/ k # 1)
      <4>1. CASE m # n
        BY <2>1, <4>1
      <4>2. CASE m = n
        <5>1. i + 1 \in DOMAIN topic[m] /\ i \in Nat \ {0} /\ i + 1 # 1
              /\ topic'[m][i] = topic[m][i + 1]
          BY <2>1, <4>2
        <5> QED
          BY <5>1
      <4> QED
        BY <4>1, <4>2
    <3>2. PICK e \in Id : e = topic[m][k] /\ e # d /\ OnNode(e) = "topic"
      BY <1>1, <2>2, <3>1 DEF Waiting
    <3>3. OnNode(e)' = "topic"
      BY <1>4, <3>2
    <3> QED
      BY <3>1, <3>2, <3>3 DEF OnNode
  <2>4. ASSUME NEW l \in Node, NEW m \in Node, NEW i \in DOMAIN topic'[l],
               NEW k \in DOMAIN topic'[m], topic'[l][i] = topic'[m][k]
        PROVE  l = m /\ i = k
    <3>1. \A x, y \in Nat : x + 1 = y + 1 => x = y
      OBVIOUS
    <3>2. DOMAIN topic'[l] \subseteq Nat /\ DOMAIN topic'[m] \subseteq Nat
      BY <1>5
    <3>3. CASE l = n /\ m = n
      BY <2>1, <2>4, <3>1, <3>2, <3>3 DEF Waiting
    <3>4. CASE l # n /\ m # n
      BY <2>1, <2>4, <3>4 DEF Waiting
    <3>5. CASE l = n /\ m # n
      BY <2>1, <2>4, <3>5 DEF Waiting
    <3>6. CASE l # n /\ m = n
      BY <2>1, <2>4, <3>6 DEF Waiting
    <3> QED
      BY <3>3, <3>4, <3>5, <3>6
  <2> QED
    BY <2>3, <2>4 DEF Waiting, OnNode
<1>10. Asked'
  BY <1>2, <1>6, AskedSame
<1>11. CountIsTrue'
  <2>1. \A e \in Id : CountsAlike(e)
    BY <1>2, <1>4 DEF CountsAlike, Counts, KindOf
  <2> QED
    BY <1>2, <2>1, CountSame
<1> QED
  BY <1>6, <1>8, <1>9, <1>10, <1>11

\* A node dies: the message in hand is lost, and nothing else.
LEMMA NodeCrashInv ==
  ASSUME Inv, NEW n \in Node, NodeCrash(n)
  PROVE  Inv'
<1> USE DEF Inv
<1>1. /\ Spend("crashes")
      /\ UNCHANGED <<status, count, job, host, parent, weak, turns, left, node,
                     outcome, rows, keyed, found, topic>>
  BY DEF NodeCrash, slaves, birth
<1>2. Calm /\ Typed'
  <2>1. /\ budget' \in [fires : 0..MaxFires, errors : 0..MaxErrors,
                        crashes : 0..MaxCrashes, reloads : 0..MaxReloads]
        /\ budget'.errors = MaxErrors => budget.errors = MaxErrors
    BY <1>1, SpendTyped
  <2>2. pc' \in [Act -> PcValue]
    BY DEF NodeCrash, Typed, PcValue
  <2> QED
    BY <1>1, <2>1, <2>2 DEF Calm, Typed
<1>3. ASSUME NEW d \in Id
      PROVE  /\ OnManager(d)' = OnManager(d)
             /\ \/ OnNode(d)' = OnNode(d)
                \/ OnNode(d)' = "lost" /\ OnNode(d) \in {"held", "run", "after"}
  <2>1. pc'[Manager(d)] = pc[Manager(d)]
    BY Acts DEF NodeCrash, HandledBy
  <2>2. \/ pc'[AtNode(d)] = pc[AtNode(d)]
        \/ pc'[AtNode(d)] = "lost" /\ pc[AtNode(d)] \in {"held", "run", "after"}
    BY Acts DEF NodeCrash, HandledBy
  <2> QED
    BY <2>1, <2>2 DEF OnManager, OnNode
<1>4. ASSUME NEW d \in Id PROVE Sound(d)'
  <2>1. CASE OnNode(d)' = OnNode(d)
    BY <1>1, <1>2, <1>3, <2>1, SameKeeps DEF Same
  <2>2. CASE OnNode(d)' = "lost" /\ OnNode(d) \in {"held", "run", "after"}
    <3>1. Course(d) /\ Ran(d) /\ Written(d) /\ Logged(d) /\ LostWithHost(d)
      BY DEF Sound
    <3>2. KindOf(d) = "mq" /\ OnManager(d) \in {"update", "done", "lost"}
          /\ OnManager(d)' = OnManager(d)
      BY <1>3, <2>2, <3>1 DEF Course
    <3>3. Course(d)'
      BY <1>1, <2>2, <3>1, <3>2 DEF Course, KindOf
    <3>4. Ran(d)'
      BY <1>1, <2>2, <3>1, <3>2 DEF Ran, KindOf
    <3>5. Written(d)'
      BY <1>1, <2>2, <3>1, <3>2 DEF Written, FewRows, KindOf
    <3>6. Logged(d)' /\ LostWithHost(d)'
      BY <1>1, <1>2, <2>2, <3>1, <3>2 DEF Logged, LostWithHost, Calm, KindOf
    <3> QED
      BY <3>3, <3>4, <3>5, <3>6 DEF Sound
  <2> QED
    BY <1>3, <2>1, <2>2
<1>5. Waiting'
  BY <1>1, <1>3, WaitingSame
<1>6. Asked'
  BY <1>1, <1>2, AskedSame
<1>7. CountIsTrue'
  <2>1. \A d \in Id : CountsAlike(d)
    BY <1>1, <1>3 DEF CountsAlike, Counts, KindOf
  <2> QED
    BY <1>1, <2>1, CountSame
<1> QED
  BY <1>2, <1>4, <1>5, <1>6, <1>7
-----------------------------------------------------------------------------
(***************************************************************************)
(* Steps with which a dispatch may begin.                                  *)
(***************************************************************************)
\* A dispatch goes its way: the API touches at most what its request has yet
\* to dispatch.
Passed(e) ==
    /\ BirthSame(e)
    /\ OnManager(e)' = OnManager(e) /\ OnNode(e)' = OnNode(e)

\* A dispatch that is passed or born is in order and counted as before.
LEMMA PassedOrBorn ==
  ASSUME Typed, NEW e \in Id, Sound(e), NEW j, NEW from, Calm,
         Passed(e) \/ Born(e, j, from),
         left'[e] = left[e], UNCHANGED <<outcome, rows, keyed, found>>
  PROVE  /\ Sound(e)' /\ CountsAlike(e)
         /\ OnNode(e)' = OnNode(e)
<1>1. CASE Passed(e)
  <2>1. Same(e)
    BY <1>1 DEF Passed, BirthSame, Same
  <2>2. CountsAlike(e)
    BY <1>1 DEF Passed, BirthSame, CountsAlike, Counts, KindOf
  <2> QED
    BY <1>1, <2>1, <2>2, SameKeeps DEF Passed
<1>2. CASE Born(e, j, from)
  BY <1>2, BornSound DEF Born, CountsAlike
<1> QED
  BY <1>1, <1>2

\* The invariant after a birth, given what was asked and by whom.
LEMMA BirthInv ==
  ASSUME Inv, Typed', UNCHANGED <<count, outcome, topic>>, NEW j, NEW from,
         \A e \in Id : /\ Sound(e)' /\ CountsAlike(e)
                       /\ OnNode(e) = "topic" => OnNode(e)' = "topic"
                       /\ BirthSame(e) \/ Born(e, j, from),
         \/ from = 0
         \/ /\ job[from] # None
            /\ Depend[job[from]] = 2 /\ j # MailJob => outcome[from] = "ok"
  PROVE  Inv'
<1> USE DEF Inv
<1>1. Waiting'
  BY WaitingSame
<1>2. Asked'
  <2>1. \A d \in Id : job[d] # None => job'[d] = job[d]
    BY DEF BirthSame, Born
  <2>2. ASSUME NEW k \in Id
        PROVE  \/ parent'[k] = parent[k] /\ job'[k] = job[k]
               \/ parent'[k] = 0
               \/ /\ job[parent'[k]] # None
                  /\ Depend[job[parent'[k]]] = 2 /\ job'[k] # MailJob
                       => outcome[parent'[k]] = "ok"
    BY DEF BirthSame, Born
  <2> QED
    BY <2>1, <2>2, AskedSame
<1>3. CountIsTrue'
  BY CountSame
<1> QED
  BY <1>1, <1>2, <1>3

\* A timer or a user makes a slave dispatch.
LEMMA FireInv ==
  ASSUME Inv, NEW j \in Job, NEW p \in Proc, Timer(j, p) \/ Request(j, p)
  PROVE  Inv'
<1> USE DEF Inv
<1>1. PICK weakly \in Seq(Job) :
        /\ Begins(j, p, 0, weakly)
        /\ weakly # <<>> => Depend[j] = 1
        /\ Free # {} /\ Spend("fires") /\ Goto(Manager(Fresh), "start")
        /\ UNCHANGED <<status, count, left, node, outcome, rows, keyed, found,
                       topic, turns>>
  <2>1. WeakChildren(j) \in Seq(Job) /\ (WeakChildren(j) # <<>> => Depend[j] = 1)
    BY DispatchConstantsOK DEF WeakChildren
  <2>2. <<>> \in Seq(Job)
    OBVIOUS
  <2> QED
    BY <2>1, <2>2 DEF Timer, Request, slaves
<1>2. PICK f \in Id : f = Fresh /\ job[f] = None
  BY <1>1, FreshIsFree DEF Free
<1>3. Calm /\ Typed'
  <2>1. /\ budget' \in [fires : 0..MaxFires, errors : 0..MaxErrors,
                        crashes : 0..MaxCrashes, reloads : 0..MaxReloads]
        /\ budget'.errors = MaxErrors => budget.errors = MaxErrors
    BY <1>1, SpendTyped
  <2>2. pc' \in [Act -> PcValue]
    BY <1>1, <1>2, PcTyped DEF PcValue
  <2>3. /\ job' \in [Id -> Job \cup {None}] /\ host' \in [Id -> Proc \cup {None}]
        /\ parent' \in [Id -> 0..MaxId] /\ weak' \in [Id -> Seq(Job)]
    <3>1. 0 \in 0..MaxId
      BY DispatchConstantsOK
    <3> QED
      BY <1>1, <3>1 DEF Begins, Typed
  <2> QED
    BY <1>1, <2>1, <2>2, <2>3 DEF Calm, Typed
<1>4. ASSUME NEW e \in Id PROVE Passed(e) \/ Born(e, j, 0)
  <2>1. Goto(Manager(f), "start")
    BY <1>1, <1>2
  <2>2. CASE e = f
    <3>1. OnManager(f)' = "start" /\ OnNode(f)' = OnNode(f)
      BY <2>1, GotoManager
    <3>2. job'[f] = j /\ host'[f] = p /\ parent'[f] = 0 /\ weak'[f] = weakly
      BY <1>1, <1>2 DEF Begins, Typed
    <3> QED
      BY <1>1, <1>2, <2>2, <3>1, <3>2 DEF Born
  <2>3. CASE e # f
    <3>1. OnManager(e)' = OnManager(e) /\ OnNode(e)' = OnNode(e)
      BY <2>1, <2>3, GotoManager
    <3>2. BirthSame(e)
      BY <1>1, <1>2, <2>3 DEF Begins, BirthSame, Typed
    <3> QED
      BY <3>1, <3>2 DEF Passed
  <2> QED
    BY <2>2, <2>3
<1>5. ASSUME NEW e \in Id
      PROVE  Sound(e)' /\ CountsAlike(e) /\ OnNode(e)' = OnNode(e)
  BY <1>1, <1>3, <1>4, PassedOrBorn
<1> QED
  BY <1>1, <1>3, <1>4, <1>5, BirthInv DEF Passed

\* The API dispatches the next child with its weak parent.
LEMMA WeakChildInv ==
  ASSUME Inv, NEW d \in Id, WeakChild(d)
  PROVE  Inv'
<1> USE DEF Inv
<1>1. /\ weak[d] # <<>> /\ weak[d] \in Seq(Job)
      /\ weak' = [weak EXCEPT ![d] = Tail(weak[d])]
      /\ UNCHANGED <<status, count, left, node, outcome, rows, keyed, found,
                     topic, turns, budget>>
  BY DEF WeakChild, slaves, Typed
<1>2. job[d] # None /\ Depend[job[d]] = 1 /\ host[d] \in Proc
  BY <1>1 DEF Sound, Course
<1>3. /\ weak' \in [Id -> Seq(Job)]
      /\ \A e \in Id : weak'[e] # <<>> => weak[e] # <<>>
  <2>1. Tail(weak[d]) \in Seq(Job)
    BY <1>1
  <2> QED
    BY <1>1, <2>1 DEF Typed
<1>4. PICK j \in Job : j = Head(weak[d])
  BY <1>1
<1>5. Calm
  BY <1>1 DEF Calm
<1>6. Typed' /\ \A e \in Id : Passed(e) \/ Born(e, j, d)
  <2>1. CASE ~ (j \in Enabled /\ Free # {})
    <3>1. UNCHANGED <<job, host, parent, pc>>
      BY <1>4, <2>1 DEF WeakChild
    <3> QED
      BY <1>1, <1>3, <3>1 DEF Typed, Passed, BirthSame, OnManager, OnNode
  <2>2. CASE j \in Enabled /\ Free # {}
    <3>1. PICK f \in Id : f = Fresh /\ job[f] = None
      BY <2>2, FreshIsFree DEF Free
    <3>2. /\ job' = [job EXCEPT ![f] = j]
          /\ host' = [host EXCEPT ![f] = host[d]]
          /\ parent' = [parent EXCEPT ![f] = d]
          /\ Goto(Manager(f), "start")
      BY <1>4, <2>2, <3>1 DEF WeakChild
    <3>3. Typed'
      <4>1. pc' \in [Act -> PcValue]
        BY <3>2, PcTyped DEF PcValue
      <4>2. d \in 0..MaxId
        BY DispatchConstantsOK DEF Id
      <4>3. /\ job' \in [Id -> Job \cup {None}]
            /\ host' \in [Id -> Proc \cup {None}]
            /\ parent' \in [Id -> 0..MaxId]
        BY <1>2, <3>2, <4>2 DEF Typed
      <4> QED
        BY <1>1, <1>3, <4>1, <4>3 DEF Typed
    <3>4. Born(f, j, d)
      <4>1. OnManager(f)' = "start" /\ OnNode(f)' = OnNode(f)
        BY <3>2, GotoManager
      <4>2. job'[f] = j /\ host'[f] = host[d] /\ parent'[f] = d
        BY <3>2 DEF Typed
      <4>3. weak'[f] = <<>>
        BY <1>3, <3>1 DEF Sound, Course
      <4> QED
        BY <1>2, <3>1, <4>1, <4>2, <4>3 DEF Born
    <3>5. ASSUME NEW e \in Id, e # f PROVE Passed(e)
      <4>1. OnManager(e)' = OnManager(e) /\ OnNode(e)' = OnNode(e)
        BY <3>2, <3>5, GotoManager
      <4>2. job'[e] = job[e] /\ host'[e] = host[e] /\ parent'[e] = parent[e]
        BY <3>2, <3>5 DEF Typed
      <4> QED
        BY <1>3, <4>1, <4>2 DEF Passed, BirthSame
    <3> QED
      BY <3>3, <3>4, <3>5
  <2> QED
    BY <2>1, <2>2
<1>7. ASSUME NEW e \in Id
      PROVE  Sound(e)' /\ CountsAlike(e) /\ OnNode(e)' = OnNode(e)
  BY <1>1, <1>5, <1>6, PassedOrBorn
<1>8. \A e \in Id : BirthSame(e) \/ Born(e, j, d)
  BY <1>6 DEF Passed
<1>9. Typed' /\ UNCHANGED <<count, outcome, topic>>
  BY <1>1, <1>6
<1> QED
  BY <1>2, <1>7, <1>8, <1>9, BirthInv

\* The next strong child is requested after the success of its parent.
LEMMA NextChildInv ==
  ASSUME Inv, NEW a \in Act, NextChild(a)
  PROVE  Inv'
<1> USE DEF Inv
<1>1. PICK d \in Id : d = a[1] /\ (a = Manager(d) \/ a = AtNode(d))
  BY Acts
<1>2. /\ pc[a] = "after" /\ left[d] # <<>> /\ left[d] \in Seq(Job)
      /\ Asks(Head(left[d]), d, a, "after")
      /\ left' = [left EXCEPT ![d] = Tail(left[d])]
      /\ UNCHANGED <<status, count, node, outcome, rows, keyed, found, topic,
                     budget>>
  BY <1>1 DEF NextChild, At, Others, slaves, Typed
<1>3. PICK j \in Job : j = Head(left[d])
  BY <1>2
<1>4. /\ left' \in [Id -> Seq(Job)]
      /\ \A e \in Id \ {d} : left'[e] = left[e]
  <2>1. Tail(left[d]) \in Seq(Job)
    BY <1>2
  <2> QED
    BY <1>2, <2>1 DEF Typed
<1>5. Course(d) /\ Ran(d) /\ Written(d) /\ Logged(d) /\ LostWithHost(d)
  BY DEF Sound
<1>6. outcome[d] = "ok" /\ job[d] # None
  <2>1. outcome[d] = "ok"
    BY <1>2, <1>5 DEF Ran
  <2>2. OnManager(d) # "none"
    BY <1>1, <1>2, <1>5 DEF Course, OnManager, OnNode
  <2> QED
    BY <1>5, <2>1, <2>2 DEF Course
<1>7. Calm
  BY <1>2 DEF Calm
<1>8. Typed'
  BY <1>2, <1>3, <1>4, AsksTyped DEF Typed
<1>9. /\ pc'[a] = "after"
      /\ \A e \in Id :
            \/ /\ BirthSame(e)
               /\ Manager(e) = a \/ OnManager(e)' = OnManager(e)
               /\ AtNode(e) = a \/ OnNode(e)' = OnNode(e)
            \/ Born(e, j, d) /\ Manager(e) # a /\ AtNode(e) # a
  <2>1. Asks(j, d, a, "after") /\ pc[a] # "none"
    BY <1>2, <1>3
  <2>2. \A e \in Id : Course(e)
    BY DEF Sound
  <2> QED
    BY <2>1, <2>2, AsksIs
<1>10. ASSUME NEW e \in Id PROVE Passed(e) \/ Born(e, j, d)
  <2>1. Manager(e) = a => OnManager(e)' = OnManager(e)
    BY <1>2, <1>9 DEF OnManager
  <2>2. AtNode(e) = a => OnNode(e)' = OnNode(e)
    BY <1>2, <1>9 DEF OnNode
  <2> QED
    BY <1>9, <2>1, <2>2 DEF Passed
<1>11. Passed(d)
  BY <1>6, <1>10 DEF Born
<1>12. ASSUME NEW e \in Id
       PROVE  Sound(e)' /\ CountsAlike(e) /\ OnNode(e)' = OnNode(e)
  <2>1. CASE e # d
    BY <1>2, <1>4, <1>7, <1>10, <2>1, PassedOrBorn
  <2>2. CASE e = d
    <3> USE <1>2, <1>5, <1>11 DEF Passed, BirthSame, KindOf
    <3>1. Course(d)' /\ Written(d)'
      BY DEF Course, Written, FewRows
    <3>2. Ran(d)'
      BY DEF Ran
    <3>3. Logged(d)' /\ LostWithHost(d)'
      BY DEF Logged, LostWithHost
    <3>4. CountsAlike(d)
      BY DEF CountsAlike, Counts
    <3> QED
      BY <2>2, <3>1, <3>2, <3>3, <3>4 DEF Sound
  <2> QED
    BY <2>1, <2>2
<1> QED
  BY <1>2, <1>6, <1>8, <1>10, <1>12, BirthInv DEF Passed

\* A failed dispatch asks for the mail and is done.
LEMMA NotifyInv ==
  ASSUME Inv, NEW d \in Id, Notify(d)
  PROVE  Inv'
<1> USE DEF Inv
<1>1. /\ OnManager(d) = "notify" /\ Asks(MailJob, d, Manager(d), "done")
      /\ UNCHANGED <<status, count, left, node, outcome, rows, keyed, found,
                     topic, budget>>
  BY DEF Notify, At, OnManager, slaves
<1>2. /\ Course(d) /\ Ran(d) /\ Written(d) /\ Logged(d) /\ LostWithHost(d)
      /\ job[d] # None /\ Manager(d) \in Act
  BY <1>1, Acts DEF Sound, Course
<1>3. Calm /\ Typed'
  BY <1>1, <1>2, AsksTyped DEF Calm, Typed
<1>4. /\ OnManager(d)' = "done"
      /\ \A e \in Id :
            \/ /\ BirthSame(e)
               /\ Manager(e) = Manager(d) \/ OnManager(e)' = OnManager(e)
               /\ AtNode(e) = Manager(d) \/ OnNode(e)' = OnNode(e)
            \/ /\ Born(e, MailJob, d)
               /\ Manager(e) # Manager(d) /\ AtNode(e) # Manager(d)
  <2>1. pc[Manager(d)] # "none"
    BY <1>1 DEF OnManager
  <2>2. \A e \in Id : Course(e)
    BY DEF Sound
  <2> QED
    BY <1>1, <1>2, <2>1, <2>2, AsksIs DEF OnManager
<1>5. BirthSame(d) /\ OnNode(d)' = OnNode(d)
  BY <1>2, <1>4, Acts DEF Born
<1>6. ASSUME NEW e \in Id, e # d PROVE Passed(e) \/ Born(e, MailJob, d)
  BY <1>4, <1>6, Acts DEF Passed
<1>7. ASSUME NEW e \in Id
      PROVE  Sound(e)' /\ CountsAlike(e) /\ OnNode(e)' = OnNode(e)
  <2>1. CASE e # d
    BY <1>1, <1>3, <1>6, <2>1, PassedOrBorn
  <2>2. CASE e = d
    <3> USE <1>1, <1>2, <1>4, <1>5 DEF BirthSame, KindOf
    <3>1. Course(d)'
      BY DEF Course
    <3>2. Ran(d)'
      BY DEF Ran
    <3>3. Written(d)'
      BY DEF Written, FewRows
    <3>4. Logged(d)' /\ LostWithHost(d)'
      BY DEF Logged, LostWithHost
    <3>5. CountsAlike(d)
      BY DEF CountsAlike, Counts
    <3> QED
      BY <2>2, <3>1, <3>2, <3>3, <3>4, <3>5 DEF Sound
  <2> QED
    BY <2>1, <2>2
<1>8. \A e \in Id : BirthSame(e) \/ Born(e, MailJob, d)
  BY <1>5, <1>6 DEF Passed
<1> QED
  BY <1>1, <1>2, <1>3, <1>7, <1>8, BirthInv
-----------------------------------------------------------------------------
(***************************************************************************)
(* Manager slaves.                                                         *)
(***************************************************************************)
\* Slaves come, are reloaded and drain; their dispatches are as they were.
LEMMA SlaveInv ==
  ASSUME Inv,
         \/ \E p \in Proc : Boot(p) \/ Drained(p)
         \/ \E p, q \in Proc : Reload(p, q)
  PROVE  Inv'
<1> USE DEF Inv
<1>1. /\ UNCHANGED <<count, job, host, parent, left, node, outcome, rows,
                     keyed, found, topic, turns, weak, pc>>
      /\ budget' = budget \/ Spend("reloads")
      /\ status' \in [Proc -> {"new", "up", "exiting", "leaving", "gone"}]
      /\ \A p \in Proc : status[p] = "gone" => status'[p] = "gone"
  BY DEF Boot, Drained, Reload, Up, data, Typed
<1>2. Calm /\ Typed'
  <2>1. /\ budget' \in [fires : 0..MaxFires, errors : 0..MaxErrors,
                        crashes : 0..MaxCrashes, reloads : 0..MaxReloads]
        /\ budget'.errors = MaxErrors => budget.errors = MaxErrors
    BY <1>1, SpendTyped DEF Typed
  <2> QED
    BY <1>1, <2>1 DEF Calm, Typed
<1>3. ASSUME NEW d \in Id PROVE Sound(d)' /\ CountsAlike(d)
  <2>1. Same(d)
    BY <1>1 DEF Same, OnManager, OnNode
  <2>2. CountsAlike(d)
    BY <1>1 DEF CountsAlike, Counts, OnManager, KindOf
  <2> QED
    BY <1>2, <2>1, <2>2, SameKeeps
<1>4. Waiting'
  BY <1>1, WaitingSame DEF OnNode
<1>5. Asked'
  BY <1>1, <1>2, AskedSame
<1>6. CountIsTrue'
  BY <1>1, <1>3, CountSame
<1> QED
  BY <1>2, <1>3, <1>4, <1>5, <1>6

\* A slave ends, in order or not: what it had begun is lost, and it counts
\* nothing any more.
LEMMA EndsInv ==
  ASSUME Inv, NEW p \in Proc, Exit(p) \/ Crash(p)
  PROVE  Inv'
<1> USE DEF Inv
<1>1. /\ Ends(p)
      /\ budget' = budget \/ Spend("crashes")
      /\ UNCHANGED <<job, host, parent, left, node, outcome, rows, keyed,
                     found, topic, turns>>
  BY DEF Exit, Crash, Ends, data
<1>2. Calm /\ Typed'
  <2>1. /\ budget' \in [fires : 0..MaxFires, errors : 0..MaxErrors,
                        crashes : 0..MaxCrashes, reloads : 0..MaxReloads]
        /\ budget'.errors = MaxErrors => budget.errors = MaxErrors
    BY <1>1, SpendTyped DEF Typed, Exit, Crash
  <2>2. pc' \in [Act -> PcValue]
    BY <1>1 DEF Ends, Typed, PcValue
  <2>3. weak' \in [Id -> Seq(Job)]
    BY <1>1 DEF Ends, Typed
  <2>4. /\ count' \in [Proc -> Int]
        /\ status' \in [Proc -> {"new", "up", "exiting", "leaving", "gone"}]
        /\ \A q \in Proc : status[q] = "gone" => status'[q] = "gone"
    BY <1>1 DEF Ends, Typed
  <2> QED
    BY <1>1, <2>1, <2>2, <2>3, <2>4 DEF Calm, Typed
<1>3. ASSUME NEW d \in Id
      PROVE  /\ OnNode(d)' = OnNode(d)
             /\ host[d] # p \/ OnManager(d) = "done" => OnManager(d)' = OnManager(d)
             /\ host[d] = p /\ OnManager(d) # "done" => OnManager(d)' = "lost"
             /\ weak'[d] # <<>> => weak[d] # <<>>
  <2>1. /\ pc'[AtNode(d)] = pc[AtNode(d)]
        /\ pc'[Manager(d)] = IF host[d] = p /\ pc[Manager(d)] # "done"
                             THEN "lost" ELSE pc[Manager(d)]
    BY <1>1, Acts DEF Ends
  <2>2. weak'[d] # <<>> => weak[d] # <<>>
    BY <1>1 DEF Ends
  <2> QED
    BY <2>1, <2>2 DEF OnManager, OnNode
<1>4. ASSUME NEW d \in Id PROVE Sound(d)'
  <2>1. CASE host[d] # p \/ OnManager(d) = "done"
    <3>1. Same(d)
      BY <1>1, <1>3, <2>1 DEF Same
    <3> QED
      BY <1>2, <3>1, SameKeeps
  <2>2. CASE host[d] = p /\ OnManager(d) # "done"
    <3>1. /\ Course(d) /\ Ran(d) /\ Written(d) /\ Logged(d)
          /\ OnNode(d)' = OnNode(d) /\ OnManager(d)' = "lost"
          /\ weak'[d] # <<>> => weak[d] # <<>>
      BY <1>3, <2>2 DEF Sound
    <3>2. job[d] # None /\ status'[p] = "gone"
      BY <1>1, <2>2, <3>1 DEF Course, Ends, Typed
    <3>3. Course(d)'
      BY <1>1, <3>1, <3>2 DEF Course, KindOf
    <3>4. Ran(d)'
      BY <1>1, <3>1, <3>2 DEF Ran, KindOf
    <3>5. Written(d)'
      BY <1>1, <3>1, <3>2 DEF Written, FewRows, KindOf
    <3>6. Logged(d)' /\ LostWithHost(d)'
      BY <1>1, <1>2, <2>2, <3>1, <3>2 DEF Logged, LostWithHost, KindOf, Calm
    <3> QED
      BY <3>3, <3>4, <3>5, <3>6 DEF Sound
  <2> QED
    BY <2>1, <2>2
<1>5. Waiting'
  BY <1>1, <1>3, WaitingSame
<1>6. Asked'
  BY <1>1, <1>2, AskedSame
<1>7. ASSUME NEW q \in Proc PROVE count'[q] = Cardinality(Counted(q)')
  <2>1. CASE q = p
    <3>1. \A d \in Id : host[d] = p => ~ Counts(d)'
      BY <1>3 DEF Counts
    <3>2. Counted(q)' = {}
      BY <1>1, <2>1, <3>1 DEF Counted
    <3>3. count'[q] = 0
      BY <1>1, <2>1 DEF Ends, Typed
    <3> QED
      BY <3>2, <3>3, FS_EmptySet
  <2>2. CASE q # p
    <3>1. \A d \in Id : host[d] = q => (Counts(d)' <=> Counts(d))
      BY <1>1, <1>3, <2>2 DEF Counts, KindOf
    <3>2. Counted(q)' = Counted(q)
      BY <1>1, <3>1 DEF Counted
    <3>3. count'[q] = count[q]
      BY <1>1, <2>2 DEF Ends, Typed
    <3> QED
      BY <3>2, <3>3 DEF CountIsTrue
  <2> QED
    BY <2>1, <2>2
<1> QED
  BY <1>2, <1>4, <1>5, <1>6, <1>7 DEF CountIsTrue
-----------------------------------------------------------------------------
(***************************************************************************)
(* The theorems.                                                           *)
(***************************************************************************)
\* Nothing happens.
LEMMA StutterInv ==
  ASSUME Inv, UNCHANGED vars
  PROVE  Inv'
<1> USE DEF Inv
<1>1. UNCHANGED <<status, count, job, host, parent, weak, pc, left, node,
                  outcome, rows, keyed, found, topic, turns, budget>>
  BY DEF vars
<1>2. Calm /\ Typed'
  BY <1>1 DEF Calm, Typed
<1>3. ASSUME NEW d \in Id PROVE Sound(d)' /\ CountsAlike(d)
  <2>1. Same(d)
    BY <1>1 DEF Same, OnManager, OnNode
  <2>2. CountsAlike(d)
    BY <1>1 DEF CountsAlike, Counts, OnManager, KindOf
  <2> QED
    BY <1>2, <2>1, <2>2, SameKeeps
<1>4. Waiting'
  BY <1>1, WaitingSame DEF OnNode
<1>5. Asked'
  BY <1>1, <1>2, AskedSame
<1>6. CountIsTrue'
  BY <1>1, <1>3, CountSame
<1> QED
  BY <1>2, <1>3, <1>4, <1>5, <1>6

\* Every step keeps the invariant.
LEMMA NextInv == Inv /\ [Next]_vars => Inv'
<1> SUFFICES ASSUME Inv, [Next]_vars PROVE Inv'
  OBVIOUS
<1>1. CASE UNCHANGED vars
  BY <1>1, StutterInv
<1>2. ASSUME NEW j \in Job, NEW p \in Proc, Timer(j, p) \/ Request(j, p)
      PROVE  Inv'
  BY <1>2, FireInv
<1>3. ASSUME NEW d \in Id, DispatchStep(d) \/ DispatchFails(d)
      PROVE  Inv'
  <2>1. CASE WeakChild(d)
    BY <2>1, WeakChildInv
  <2>2. CASE RefuseType(d) \/ BeginRpc(d) \/ BeginHttp(d) \/ BeginMq(d)
    BY <2>2, BeginInv
  <2>3. CASE RouteJob(d) \/ NoNodes(d)
    BY <2>3, RouteInv
  <2>4. CASE InsertRow(d) \/ InsertFails(d) \/ SendFails(d)
    BY <2>4, InsertInv
  <2>5. CASE SendMessage(d)
    BY <2>5, SendInv
  <2>6. CASE UpdateRow(d) \/ UpdateFails(d)
    BY <2>6, UpdateInv
  <2>7. CASE Handle(d) \/ HandleBlind(d)
    BY <2>7, HandleInv
  <2>8. CASE Notify(d)
    BY <2>8, NotifyInv
  <2> QED
    BY <1>3, <2>1, <2>2, <2>3, <2>4, <2>5, <2>6, <2>7, <2>8
       DEF DispatchStep, DispatchFails
<1>4. ASSUME NEW a \in Act, ActStep(a) \/ ActFails(a)
      PROVE  Inv'
  <2>1. CASE \E o \in {"ok", "error"} : RunEnds(a, o)
    BY <2>1, RunEndsInv
  <2>2. CASE NextChild(a)
    BY <2>2, NextChildInv
  <2>3. CASE ChildFails(a)
    BY <2>3, ChildFailsInv
  <2>4. CASE Log(a) \/ LogFails(a)
    <3>1. PICK d \in Id : a = Manager(d) \/ a = AtNode(d)
      BY Acts
    <3> QED
      BY <2>4, <3>1, LogOnManager, LogOnNode
  <2> QED
    BY <1>4, <2>1, <2>2, <2>3, <2>4 DEF ActStep, ActFails
<1>5. ASSUME NEW n \in Node, TakeMessage(n) \/ NodeCrash(n)
      PROVE  Inv'
  BY <1>5, TakeInv, NodeCrashInv
<1>6. ASSUME NEW p \in Proc, Boot(p) \/ Drained(p) \/ Exit(p) \/ Crash(p)
      PROVE  Inv'
  BY <1>6, SlaveInv, EndsInv
<1>7. ASSUME NEW p \in Proc, NEW q \in Proc, Reload(p, q)
      PROVE  Inv'
  BY <1>7, SlaveInv
<1> QED
  BY <1>1, <1>2, <1>3, <1>4, <1>5, <1>6, <1>7 DEF Next

\* The invariant holds in every reachable state: what two goroutines, a node
\* and the job log know of a dispatch fits together, and every slave counts
\* exactly the RPC and HTTP dispatches it has to wait for.
THEOREM InvCorrect == Spec => []Inv
<1>1. Init => Inv
  BY InitInv
<1>2. Inv /\ [Next]_vars => Inv'
  BY NextInv
<1> QED
  BY <1>1, <1>2, PTL DEF Spec

\* The types hold; in particular the count of running jobs is never negative,
\* however the ends of dispatches, reloads and crashes interleave.
THEOREM TypeCorrect == Spec => []TypeOK
<1>1. Inv => TypeOK
  <2> SUFFICES ASSUME Inv PROVE TypeOK
    OBVIOUS
  <2>1. count \in [Proc -> Nat]
    <3>1. \A p \in Proc : count[p] \in Nat
      BY CountedFinite DEF Inv, CountIsTrue
    <3> QED
      BY <3>1 DEF Inv, Typed
  <2> QED
    BY <2>1 DEF Inv, Typed, TypeOK, PcValue, RowValue
<1> QED
  BY <1>1, InvCorrect, PTL

\* A row of the job log says what happened to its dispatch.
THEOREM LogTellsOutcomeCorrect == Spec => []LogTellsOutcome
<1>1. Inv => LogTellsOutcome
  BY DEF Inv, Sound, Written, FewRows, LogTellsOutcome
<1> QED
  BY <1>1, InvCorrect, PTL

\* A child of a strong dependency follows the success of its parent.
THEOREM StrongAfterSuccessCorrect == Spec => []StrongAfterSuccess
<1>1. Inv => StrongAfterSuccess
  BY DEF Inv, Asked, StrongAfterSuccess
<1> QED
  BY <1>1, InvCorrect, PTL

\* A dispatch leaves no second row unless its node could not read the first,
\* and exactly one if nothing fails.
THEOREM OneRowEachCorrect == Spec => []OneRowEach
<1>1. Inv => OneRowEach
  <2> SUFFICES ASSUME Inv, NEW d \in Id, job[d] # None,
                      job[d] \in Valid \/ KindOf(d) # "mq"
               PROVE  /\ FewRows(d)
                      /\ /\ OnManager(d) = "done"
                         /\ OnNode(d) \in {"none", "done"}
                         /\ budget.errors = MaxErrors
                         => Len(rows[d]) = 1
    BY DEF OneRowEach, At, OnManager, OnNode, KindOf
  <2>1. Course(d) /\ Written(d) /\ Logged(d)
    BY DEF Inv, Sound
  <2>2. FewRows(d)
    BY <2>1 DEF Written
  <2>3. ASSUME OnManager(d) = "done", OnNode(d) \in {"none", "done"},
               budget.errors = MaxErrors
        PROVE  Len(rows[d]) = 1
    <3>1. rows[d] # <<>>
      BY <2>1, <2>3 DEF Written, Logged
    <3>2. Len(rows[d]) \in Nat /\ Len(rows[d]) # 0
      <4>1. rows[d] \in Seq(RowValue)
        BY DEF Inv, Typed
      <4> QED
        BY <3>1, <4>1
    <3>3. \A n \in Nat : n # 0 /\ n <= 1 => n = 1
      OBVIOUS
    <3>4. CASE OnNode(d) = "none"
      <4>1. Len(rows[d]) <= 1
        BY <2>1, <3>4 DEF Written
      <4> QED
        BY <3>2, <3>3, <4>1
    <3>5. CASE OnNode(d) = "done"
      <4>1. d \notin keyed \ found
        BY <2>1, <2>3, <3>5 DEF Logged
      <4>2. Len(rows[d]) <= 1
        BY <2>2, <4>1 DEF FewRows
      <4> QED
        BY <3>2, <3>3, <4>2
    <3> QED
      BY <2>3, <3>4, <3>5
  <2> QED
    BY <2>2, <2>3
<1> QED
  BY <1>1, InvCorrect, PTL

\* Only the wait of beforeExit lets a slave leave.
LEMMA OnlyDrainedLeaves ==
  ASSUME Next, NEW p \in Proc, status[p] = "exiting", status'[p] = "leaving",
         Typed
  PROVE  Drained(p)
<1>1. ASSUME NEW j \in Job, NEW q \in Proc PROVE ~ (Timer(j, q) \/ Request(j, q))
  BY DEF Timer, Request, slaves
<1>2. ASSUME NEW d \in Id PROVE ~ (DispatchStep(d) \/ DispatchFails(d))
  BY DEF DispatchStep, DispatchFails, WeakChild, RefuseType, BeginRpc, BeginHttp,
         BeginMq, RouteJob, InsertRow, SendMessage, UpdateRow, Handle, Notify,
         NoNodes, InsertFails, SendFails, UpdateFails, HandleBlind, MqEnds, Local,
         slaves
<1>3. ASSUME NEW a \in Act PROVE ~ (ActStep(a) \/ ActFails(a))
  BY DEF ActStep, ActFails, RunEnds, NextChild, Log, ChildFails, LogFails, LogEnds,
         slaves
<1>4. ASSUME NEW n \in Node PROVE ~ (TakeMessage(n) \/ NodeCrash(n))
  BY DEF TakeMessage, NodeCrash, slaves
<1>5. ASSUME NEW q \in Proc, Boot(q) \/ Drained(q) \/ Exit(q) \/ Crash(q)
      PROVE  Drained(p)
  <2>1. q # p => status'[p] = status[p]
    BY <1>5 DEF Boot, Drained, Exit, Crash, Ends, Typed
  <2>2. q = p => ~ (Boot(q) \/ Exit(q) \/ Crash(q))
    BY DEF Boot, Exit, Crash, Ends, Typed
  <2> QED
    BY <1>5, <2>1, <2>2
<1>6. ASSUME NEW q \in Proc, NEW r \in Proc PROVE ~ Reload(q, r)
  BY DEF Reload, Typed
<1> QED
  BY <1>1, <1>2, <1>3, <1>4, <1>5, <1>6 DEF Next

\* As long as nothing fails, a slave that leaves in order has finished every RPC
\* dispatch it had begun, its row and its children included.
THEOREM DrainedRpcDoneCorrect ==
  ASSUME MaxErrors = 0
  PROVE  Spec => DrainedRpcDone
<1>1. Inv /\ [Next]_vars => [DrainLeaves("rpc")]_vars
  <2> SUFFICES ASSUME Inv, Next,
                      NEW p \in Proc, status[p] = "exiting", status'[p] = "leaving",
                      NEW d \in Id, host[d] = p, KindOf(d) = "rpc",
                      OnManager(d) # "start"
               PROVE  rows[d] # <<>> /\ left[d] = <<>>
    BY DEF DrainLeaves, At, OnManager, KindOf
  <2>1. Course(d) /\ Ran(d) /\ Logged(d) /\ LostWithHost(d)
    BY DEF Inv, Sound
  <2>2. Drained(p) /\ count[p] = 0
    BY OnlyDrainedLeaves DEF Inv, Drained
  <2>3. Counted(p) = {}
    BY <2>2, CountedFinite, FS_EmptySet DEF Inv, CountIsTrue
  <2>4. ~ Counts(d)
    BY <2>3 DEF Counted
  <2>5. OnManager(d) \in PcValue
    BY Acts DEF Inv, Typed, OnManager
  <2>6. OnManager(d) \in {"notify", "done"} /\ OnNode(d) = "none"
    BY <2>1, <2>4, <2>5 DEF Course, LostWithHost, Counts, PcValue
  <2>7. budget.errors = MaxErrors
    BY DEF Inv, Typed
  <2> QED
    BY <2>1, <2>6, <2>7 DEF Ran, Logged
<1> QED
  BY <1>1, InvCorrect, PTL DEF Spec, DrainedRpcDone
=============================================================================
