-------------------------- MODULE TimerTableProofs --------------------------
(***************************************************************************)
(* What holds of the timer scan for every number of jobs, slaves, edits,   *)
(* failures and reloads.                                                   *)
(***************************************************************************)
EXTENDS TimerTable, TLAPS

\* The outcome of a KV read is one of the two values it may be.
LEMMA ReadOrBudget ==
    ASSUME TypeOK, NEW v, NEW f, NEW r, ReadOr(v, f, r)
    PROVE  /\ budget' \in [edits : 0..MaxEdits, reads : 0..MaxReads,
                           writes : 0..MaxWrites, reloads : 0..MaxReloads]
           /\ r = v \/ r = f
  BY ConstantsOK DEF TypeOK, ReadOr

\* The empty table and the empty catalogue are a table and a catalogue.
LEMMA EmptyTypes ==
    /\ Absent \in Record
    /\ EmptyTable \in Table
    /\ NoJobs \in Catalogue
  BY ConstantsOK DEF Absent, Record, EmptyTable, Table, NoJobs, Catalogue,
                     Kind, Version

\* Starting a job on well-typed entries and a well-typed table leaves the
\* entries, the list and the next id of every slave well typed.
LEMMA StartTypes ==
    ASSUME TypeOK, NEW p \in Proc, NEW a \in Job,
           NEW es \in SUBSET Entry, NEW t \in Table,
           StartTimerJob(p, a, es, t)
    PROVE  /\ entries' \in [Proc -> SUBSET Entry]
           /\ list' \in [Proc -> Table]
           /\ nextId' \in [Proc -> Nat \ {0}]
<1> DEFINE e == [id |-> nextId[p], job |-> a, ver |-> seen[p][a].ver]
           r == [mgr |-> p, ver |-> seen[p][a].ver, id |-> nextId[p]]
<1>1. seen[p][a].ver \in Version /\ nextId[p] \in Nat \ {0}
  BY DEF TypeOK, Catalogue
<1>2. e \in Entry /\ r \in Record
  BY <1>1 DEF Entry, Record
<1>3. es \cup {e} \in SUBSET Entry /\ [t EXCEPT ![a] = r] \in Table
  BY <1>2 DEF Table
<1>4. CASE seen[p][a].kind = "due"
  <2>1. /\ entries' = [entries EXCEPT ![p] = es \cup {e}]
        /\ list' = [list EXCEPT ![p] = [t EXCEPT ![a] = r]]
        /\ nextId' = [nextId EXCEPT ![p] = @ + 1]
    BY <1>4 DEF StartTimerJob
  <2> HIDE DEF e, r
  <2> QED
    BY <2>1, <1>1, <1>3 DEF TypeOK
<1>5. CASE seen[p][a].kind # "due"
  BY <1>5 DEF StartTimerJob, TypeOK
<1> QED
  BY <1>4, <1>5

\* Dropping the records a cron does not run leaves a table.
LEMMA ActiveRecordsType ==
    ASSUME NEW t \in Table, NEW es
    PROVE  ActiveRecords(t, es) \in Table
  BY EmptyTypes DEF ActiveRecords, Table

-----------------------------------------------------------------------------
\* Every step keeps the types of the catalogue, the table and the slaves.
LEMMA TypeStep == TypeOK /\ [Next]_vars => TypeOK'
<1> SUFFICES ASSUME TypeOK, [Next]_vars
             PROVE  TypeOK'
  OBVIOUS
<1> USE ConstantsOK
<1>1. CASE UNCHANGED vars
  BY <1>1 DEF vars, TypeOK
<1>2. ASSUME NEW p \in Proc, Boot(p)
      PROVE  TypeOK'
  BY <1>2 DEF Boot, scanVars, TypeOK
<1>3. ASSUME NEW p \in Proc, NEW q \in Proc, Reload(p, q)
      PROVE  TypeOK'
  BY <1>3 DEF Reload, scanVars, TypeOK
<1>4. ASSUME NEW p \in Proc, Vanish(p)
      PROVE  TypeOK'
  BY <1>4, EmptyTypes DEF Vanish, TypeOK
<1>5. ASSUME NEW p \in Proc, Load(p)
      PROVE  TypeOK'
  <2>1. PICK t \in {kv, EmptyTable} :
            /\ ReadOr(kv, EmptyTable, t)
            /\ list' = [list EXCEPT ![p] = ActiveRecords(t, entries[p])]
            /\ entries' = [entries EXCEPT ![p] = NamedEntries(t, entries[p])]
    BY <1>5 DEF Load
  <2>2. ActiveRecords(t, entries[p]) \in Table
    BY EmptyTypes, ActiveRecordsType DEF TypeOK
  <2>3. NamedEntries(t, entries[p]) \in SUBSET Entry
    BY DEF NamedEntries, TypeOK
  <2> QED
    BY <1>5, <2>1, <2>2, <2>3, ReadOrBudget DEF Load, TypeOK
<1>6. ASSUME NEW p \in Proc, Fetch(p)
      PROVE  TypeOK'
  <2>1. PICK c \in {jobs, NoJobs} :
            /\ ReadOr(jobs, NoJobs, c)
            /\ seen' = [seen EXCEPT ![p] = c]
            /\ todo' = [todo EXCEPT ![p] = Enabled(c)]
    BY <1>6 DEF Fetch
  <2>2. c \in Catalogue /\ Enabled(c) \in SUBSET Job
    BY EmptyTypes DEF TypeOK, Enabled
  <2> QED
    BY <1>6, <2>1, <2>2, ReadOrBudget DEF Fetch, TypeOK
<1>7. ASSUME NEW p \in Proc, NEW a \in Job, Update(p, a)
      PROVE  TypeOK'
  <2>1. /\ entries' \in [Proc -> SUBSET Entry]
        /\ list' \in [Proc -> Table]
        /\ nextId' \in [Proc -> Nat \ {0}]
        /\ edited' \in [Proc -> BOOLEAN]
    <3>1. CASE UNCHANGED <<entries, nextId, list, edited>>
      BY <3>1 DEF TypeOK
    <3>2. CASE StartTimerJob(p, a, Removed(entries[p], list[p][a].id),
                             [list[p] EXCEPT ![a] = Absent])
      <4>1. Removed(entries[p], list[p][a].id) \in SUBSET Entry
        BY DEF Removed, TypeOK
      <4>2. [list[p] EXCEPT ![a] = Absent] \in Table
        BY EmptyTypes DEF Table, TypeOK
      <4> QED
        BY <1>7, <3>2, <4>1, <4>2, StartTypes DEF Update, TypeOK
    <3>3. CASE StartTimerJob(p, a, entries[p], list[p])
      <4>1. entries[p] \in SUBSET Entry /\ list[p] \in Table
        BY DEF TypeOK
      <4> QED
        BY <1>7, <3>3, <4>1, StartTypes DEF Update, TypeOK
    <3> QED
      BY <1>7, <3>1, <3>2, <3>3 DEF Update
  <2>2. todo' \in [Proc -> SUBSET Job]
    BY <1>7 DEF Update, TypeOK
  <2> QED
    BY <1>7, <2>1, <2>2 DEF Update, TypeOK
<1>8. ASSUME NEW p \in Proc, CheckStop(p)
      PROVE  TypeOK'
  <2>1. [a \in Job |-> IF a \in Surplus(p) THEN Absent ELSE list[p][a]]
            \in Table
    BY EmptyTypes DEF Table, TypeOK
  <2>2. list' \in [Proc -> Table]
    BY <1>8, <2>1 DEF CheckStop, TypeOK
  <2>3. entries' \in [Proc -> SUBSET Entry]
    BY <1>8 DEF CheckStop, TypeOK
  <2> QED
    BY <1>8, <2>2, <2>3, EmptyTypes DEF CheckStop, TypeOK
<1>9. ASSUME NEW p \in Proc, Save(p)
      PROVE  TypeOK'
  BY <1>9 DEF Save, TypeOK
<1>10. ASSUME NEW a \in Job, NEW k \in Kind, SetJob(a, k)
       PROVE  TypeOK'
  <2>1. /\ budget.edits \in 0..MaxEdits
        /\ budget.edits > 0
        /\ budget'.edits = budget.edits - 1
    BY <1>10 DEF SetJob, TypeOK
  <2>2. MaxEdits - budget'.edits \in Version
    BY <2>1 DEF Version
  <2>3. jobs' \in Catalogue
    BY <1>10, <2>2 DEF SetJob, TypeOK, Catalogue
  <2> QED
    BY <1>10, <2>1, <2>3 DEF SetJob, scanVars, TypeOK
<1> QED
  BY <1>1, <1>2, <1>3, <1>4, <1>5, <1>6, <1>7, <1>8, <1>9, <1>10
     DEF Next, Exit, Crash, Scan

\* The catalogue, the table and the state of every slave have their types in
\* every behaviour, whatever the bounds.
THEOREM TypeCorrect == Spec => []TypeOK
<1>1. Init => TypeOK
  BY ConstantsOK, EmptyTypes
     DEF Init, TypeOK, Catalogue, Kind, Version
<1> QED
  BY <1>1, TypeStep, PTL DEF Spec

-----------------------------------------------------------------------------
(***************************************************************************)
(* The two eliminations.  The inductive invariant adds that the id a cron  *)
(* gives next is larger than all it has given: without it a new record     *)
(* could share its id with another slave's record in the list.             *)
(***************************************************************************)
IdsFresh ==
    \A p \in Proc : \A e \in entries[p] : e.id < nextId[p]

IdInv == TypeOK /\ IdsFresh /\ MutualElimination /\ SharedIdsDistinct

\* A record is present exactly when it is not the absent one; a record whose
\* id is the id of a cron entry is present.
LEMMA PositiveIsRecorded ==
    ASSUME NEW t \in Table, NEW a \in Job, NEW es \in SUBSET Entry,
           t[a].id \in EntryIds(es)
    PROVE  a \in Recorded(t)
  BY DEF Table, Entry, EntryIds, Recorded, Absent

\* Membership in the two sets of ids.
LEMMA EntryIdsMember ==
    ASSUME NEW es, NEW x
    PROVE  x \in EntryIds(es) <=> \E e \in es : e.id = x
  BY DEF EntryIds

LEMMA RecordIdsMember ==
    ASSUME NEW t, NEW x
    PROVE  x \in RecordIds(t) <=> \E a \in Recorded(t) : t[a].id = x
  BY DEF RecordIds

\* checkTimerActive makes the ids of the list and of the cron the same, and
\* keeps a table with distinct ids so.
LEMMA EliminationLemma ==
    ASSUME NEW t \in Table, NEW es \in SUBSET Entry, Injective(t)
    PROVE  /\ RecordIds(ActiveRecords(t, es)) = EntryIds(NamedEntries(t, es))
           /\ Injective(ActiveRecords(t, es))
<1> DEFINE u == ActiveRecords(t, es)
<1>1. Recorded(u) = {a \in Job : t[a].id \in EntryIds(es)}
  BY PositiveIsRecorded DEF ActiveRecords, Recorded
<1>2. \A a \in Recorded(u) : u[a] = t[a] /\ a \in Recorded(t)
  BY <1>1, PositiveIsRecorded DEF ActiveRecords
<1>3. RecordIds(u) = EntryIds(es) \cap RecordIds(t)
  <2> HIDE DEF u
  <2>1. \A x : x \in RecordIds(u) <=> x \in EntryIds(es) \cap RecordIds(t)
    BY <1>1, <1>2, RecordIdsMember DEF Recorded
  <2> QED
    BY <2>1
<1>4. EntryIds(NamedEntries(t, es)) = EntryIds(es) \cap RecordIds(t)
  BY DEF EntryIds, NamedEntries
<1>5. Injective(u)
  BY <1>2 DEF Injective
<1> QED
  BY <1>3, <1>4, <1>5

\* Removing one record of a table with distinct ids removes its id.
LEMMA RemoveLemma ==
    ASSUME NEW t \in Table, NEW es \in SUBSET Entry, NEW a \in Recorded(t),
           Injective(t), RecordIds(t) = EntryIds(es)
    PROVE  LET u == [t EXCEPT ![a] = Absent]
               fs == Removed(es, t[a].id)
           IN  /\ u \in Table
               /\ fs \in SUBSET Entry
               /\ Injective(u)
               /\ a \notin Recorded(u)
               /\ RecordIds(u) = EntryIds(fs)
<1> DEFINE u == [t EXCEPT ![a] = Absent]
           fs == Removed(es, t[a].id)
<1>1. u \in Table
  BY EmptyTypes DEF Table
<1>2. fs \in SUBSET Entry
  BY DEF Removed
<1>3. Recorded(u) = Recorded(t) \ {a}
  BY DEF Recorded, Table
<1>4. \A b \in Recorded(u) : u[b] = t[b]
  BY <1>3 DEF Recorded, Table
<1>5. RecordIds(u) = RecordIds(t) \ {t[a].id}
  <2> HIDE DEF u
  <2>1. \A x : x \in RecordIds(u) <=> x \in RecordIds(t) \ {t[a].id}
    BY <1>3, <1>4, RecordIdsMember DEF Injective
  <2> QED
    BY <2>1
<1>6. EntryIds(fs) = EntryIds(es) \ {t[a].id}
  BY DEF EntryIds, Removed
<1>7. Injective(u)
  BY <1>3, <1>4 DEF Injective
<1> QED
  BY <1>1, <1>2, <1>3, <1>5, <1>6, <1>7

\* Starting a job that has no record adds one fresh id to both sides.
LEMMA StartLemma ==
    ASSUME TypeOK, NEW p \in Proc, NEW a \in Job,
           NEW es \in SUBSET Entry, NEW t \in Table,
           Injective(t), RecordIds(t) = EntryIds(es), a \notin Recorded(t),
           \A e \in es : e.id < nextId[p],
           StartTimerJob(p, a, es, t)
    PROVE  /\ RecordIds(list'[p]) = EntryIds(entries'[p])
           /\ Injective(list'[p])
           /\ \A e \in entries'[p] : e.id < nextId'[p]
           /\ \A q \in Proc \ {p} : /\ entries'[q] = entries[q]
                                    /\ list'[q] = list[q]
                                    /\ nextId'[q] = nextId[q]
<1> DEFINE n == nextId[p]
           r == [mgr |-> p, ver |-> seen[p][a].ver, id |-> n]
           e0 == [id |-> n, job |-> a, ver |-> seen[p][a].ver]
           u == [t EXCEPT ![a] = r]
<1>1. n \in Nat \ {0} /\ \A e \in es : e.id \in Nat
  BY DEF TypeOK, Entry
<1>2. CASE seen[p][a].kind = "due"
  <2>1. /\ entries' = [entries EXCEPT ![p] = es \cup {e0}]
        /\ list' = [list EXCEPT ![p] = u]
        /\ nextId' = [nextId EXCEPT ![p] = @ + 1]
    BY <1>2 DEF StartTimerJob
  <2>2. entries'[p] = es \cup {e0} /\ list'[p] = u /\ nextId'[p] = n + 1
    BY <2>1 DEF TypeOK
  <2>3. Recorded(u) = Recorded(t) \cup {a}
    BY <1>1 DEF Recorded, Table, Absent
  <2>4. u[a].id = n /\ \A b \in Recorded(t) : u[b] = t[b]
    BY DEF Recorded, Table
  <2>5. RecordIds(u) = RecordIds(t) \cup {n}
    <3> HIDE DEF u, n
    <3>1. \A x : x \in RecordIds(u) <=> x \in RecordIds(t) \cup {n}
      BY <2>3, <2>4, RecordIdsMember
    <3> QED
      BY <3>1
  <2>6. EntryIds(es \cup {e0}) = EntryIds(es) \cup {n}
    <3>1. e0.id = n
      OBVIOUS
    <3> HIDE DEF e0, n
    <3>2. \A x : x \in EntryIds(es \cup {e0}) <=> x \in EntryIds(es) \cup {n}
      BY <3>1, EntryIdsMember
    <3> QED
      BY <3>2
  <2>7. \A b \in Recorded(t) : t[b].id # n
    <3>1. n \notin EntryIds(es)
      BY <1>1 DEF EntryIds
    <3> QED
      BY <3>1 DEF RecordIds
  <2>8. Injective(u)
    BY <2>3, <2>4, <2>7 DEF Injective
  <2>9. \A e \in es \cup {e0} : e.id < n + 1
    BY <1>1
  <2> QED
    BY <2>1, <2>2, <2>5, <2>6, <2>8, <2>9 DEF TypeOK
<1>3. CASE seen[p][a].kind # "due"
  BY <1>3 DEF StartTimerJob, TypeOK
<1> QED
  BY <1>2, <1>3

\* A step that leaves cron, list and next id of every slave alone, and the
\* table too, keeps the invariant.
LEMMA IdFrame ==
    ASSUME IdInv, TypeOK', UNCHANGED <<kv, entries, nextId, list>>
    PROVE  IdInv'
  BY DEF IdInv, IdsFresh, MutualElimination, SharedIdsDistinct, Injective,
         Recorded, RecordIds, EntryIds

\* A step that changes cron, list and next id of one slave keeps it if that
\* slave's ids are right afterwards.
LEMMA OneSlaveStep ==
    ASSUME IdInv, TypeOK', NEW p \in Proc, kv' = kv,
           RecordIds(list'[p]) = EntryIds(entries'[p]),
           Injective(list'[p]),
           \A e \in entries'[p] : e.id < nextId'[p],
           \A q \in Proc \ {p} : /\ entries'[q] = entries[q]
                                /\ list'[q] = list[q]
                                /\ nextId'[q] = nextId[q]
    PROVE  IdInv'
<1>1. \A q \in Proc : /\ RecordIds(list'[q]) = EntryIds(entries'[q])
                     /\ Injective(list'[q])
  <2> TAKE q \in Proc
  <2>1. CASE q = p
    BY <2>1
  <2>2. CASE q # p
    BY <2>2 DEF IdInv, MutualElimination
  <2> QED
    BY <2>1, <2>2
<1>2. MutualElimination'
  BY <1>1 DEF MutualElimination
<1>3. IdsFresh'
  BY DEF IdInv, IdsFresh
<1>4. SharedIdsDistinct'
  BY DEF IdInv, SharedIdsDistinct
<1> QED
  BY <1>2, <1>3, <1>4 DEF IdInv

-----------------------------------------------------------------------------
\* Every step keeps the ids of lists and crons equal and distinct.
LEMMA IdStep == IdInv /\ [Next]_vars => IdInv'
<1> SUFFICES ASSUME IdInv, [Next]_vars
             PROVE  IdInv'
  OBVIOUS
<1> USE ConstantsOK
<1>0. TypeOK /\ TypeOK'
  BY TypeStep DEF IdInv
<1>1. CASE UNCHANGED vars
  BY <1>0, <1>1, IdFrame DEF vars
<1>2. ASSUME NEW p \in Proc, Boot(p)
      PROVE  IdInv'
  BY <1>0, <1>2, IdFrame DEF Boot, scanVars
<1>3. ASSUME NEW p \in Proc, NEW q \in Proc, Reload(p, q)
      PROVE  IdInv'
  BY <1>0, <1>3, IdFrame DEF Reload, scanVars
<1>4. ASSUME NEW p \in Proc, Vanish(p)
      PROVE  IdInv'
  <2>1. /\ entries'[p] = {} /\ list'[p] = EmptyTable /\ kv' = kv
        /\ \A q \in Proc \ {p} : /\ entries'[q] = entries[q]
                                 /\ list'[q] = list[q]
                                 /\ nextId'[q] = nextId[q]
    BY <1>0, <1>4 DEF Vanish, TypeOK
  <2>2. Recorded(EmptyTable) = {}
    BY DEF Recorded, EmptyTable
  <2>3. /\ RecordIds(list'[p]) = EntryIds(entries'[p])
        /\ Injective(list'[p])
        /\ \A e \in entries'[p] : e.id < nextId'[p]
    BY <2>1, <2>2 DEF Injective, RecordIds, EntryIds
  <2> QED
    BY <1>0, <2>1, <2>3, OneSlaveStep
<1>5. ASSUME NEW p \in Proc, Load(p)
      PROVE  IdInv'
  <2>1. PICK t \in {kv, EmptyTable} :
            /\ list' = [list EXCEPT ![p] = ActiveRecords(t, entries[p])]
            /\ entries' = [entries EXCEPT ![p] = NamedEntries(t, entries[p])]
    BY <1>5 DEF Load
  <2>2. t \in Table /\ Injective(t)
    BY EmptyTypes DEF IdInv, TypeOK, SharedIdsDistinct, Injective, Recorded,
                      EmptyTable
  <2>3. entries[p] \in SUBSET Entry
    BY <1>0 DEF TypeOK
  <2>4. /\ list'[p] = ActiveRecords(t, entries[p])
        /\ entries'[p] = NamedEntries(t, entries[p])
        /\ entries'[p] \subseteq entries[p]
        /\ \A q \in Proc \ {p} : entries'[q] = entries[q] /\ list'[q] = list[q]
        /\ nextId' = nextId /\ kv' = kv
    BY <1>0, <1>5, <2>1 DEF Load, TypeOK, NamedEntries
  <2>5. RecordIds(list'[p]) = EntryIds(entries'[p]) /\ Injective(list'[p])
    BY <2>2, <2>3, <2>4, EliminationLemma
  <2>6. \A e \in entries'[p] : e.id < nextId'[p]
    BY <2>4 DEF IdInv, IdsFresh
  <2> QED
    BY <1>0, <2>4, <2>5, <2>6, OneSlaveStep
<1>6. ASSUME NEW p \in Proc, Fetch(p)
      PROVE  IdInv'
  BY <1>0, <1>6, IdFrame DEF Fetch
<1>7. ASSUME NEW p \in Proc, NEW a \in Job, Update(p, a)
      PROVE  IdInv'
  <2> DEFINE es == Removed(entries[p], list[p][a].id)
             t == [list[p] EXCEPT ![a] = Absent]
  <2>1. /\ list[p] \in Table
        /\ entries[p] \in SUBSET Entry
        /\ Injective(list[p])
        /\ RecordIds(list[p]) = EntryIds(entries[p])
        /\ \A e \in entries[p] : e.id < nextId[p]
    BY <1>0 DEF TypeOK, IdInv, MutualElimination, IdsFresh
  <2>2. CASE UNCHANGED <<entries, nextId, list>>
    BY <1>0, <1>7, <2>2, IdFrame DEF Update
  <2>3. CASE /\ a \in Recorded(list[p])
             /\ StartTimerJob(p, a, es, t)
    <3>1. /\ t \in Table
          /\ es \in SUBSET Entry
          /\ Injective(t)
          /\ a \notin Recorded(t)
          /\ RecordIds(t) = EntryIds(es)
      BY <2>1, <2>3, RemoveLemma
    <3>2. \A e \in es : e.id < nextId[p]
      BY <2>1 DEF Removed
    <3> HIDE DEF es, t
    <3>3. /\ RecordIds(list'[p]) = EntryIds(entries'[p])
          /\ Injective(list'[p])
          /\ \A e \in entries'[p] : e.id < nextId'[p]
          /\ \A q \in Proc \ {p} : /\ entries'[q] = entries[q]
                                   /\ list'[q] = list[q]
                                   /\ nextId'[q] = nextId[q]
      BY <1>0, <2>3, <3>1, <3>2, StartLemma
    <3> QED
      BY <1>0, <1>7, <3>3, OneSlaveStep DEF Update
  <2>4. CASE /\ a \notin Recorded(list[p])
             /\ StartTimerJob(p, a, entries[p], list[p])
    <3>1. /\ RecordIds(list'[p]) = EntryIds(entries'[p])
          /\ Injective(list'[p])
          /\ \A e \in entries'[p] : e.id < nextId'[p]
          /\ \A q \in Proc \ {p} : /\ entries'[q] = entries[q]
                                   /\ list'[q] = list[q]
                                   /\ nextId'[q] = nextId[q]
      BY <1>0, <2>1, <2>4, StartLemma
    <3> QED
      BY <1>0, <1>7, <3>1, OneSlaveStep DEF Update
  <2> QED
    BY <1>7, <2>2, <2>3, <2>4 DEF Update
<1>8. ASSUME NEW p \in Proc, CheckStop(p)
      PROVE  IdInv'
  <2> DEFINE S == Surplus(p)
             u == [a \in Job |-> IF a \in S THEN Absent ELSE list[p][a]]
             ids == {list[p][a].id : a \in S}
             fs == {e \in entries[p] : e.id \notin ids}
  <2>1. S \subseteq Recorded(list[p])
    BY DEF Surplus
  <2> HIDE DEF S
  <2>2. /\ entries' = [entries EXCEPT ![p] = fs]
        /\ list' = [list EXCEPT ![p] = u]
        /\ nextId' = nextId /\ kv' = kv
    BY <1>8 DEF CheckStop, S
  <2>3. Recorded(u) = Recorded(list[p]) \ S
    BY DEF Recorded
  <2>4. \A a \in Recorded(u) : u[a] = list[p][a]
    BY <2>3 DEF Recorded
  <2>5. Injective(list[p]) /\ RecordIds(list[p]) = EntryIds(entries[p])
    BY DEF IdInv, MutualElimination
  <2>6. RecordIds(u) = RecordIds(list[p]) \ ids
    <3> HIDE DEF u
    <3>1. \A x : x \in RecordIds(u) <=> x \in RecordIds(list[p]) \ ids
      BY <2>1, <2>3, <2>4, <2>5, RecordIdsMember DEF Injective
    <3> QED
      BY <3>1
  <2>7. EntryIds(fs) = EntryIds(entries[p]) \ ids
    BY DEF EntryIds
  <2>8. Injective(u)
    BY <2>3, <2>4, <2>5 DEF Injective
  <2> HIDE DEF u, fs
  <2>9. /\ entries'[p] = fs /\ list'[p] = u
        /\ \A q \in Proc \ {p} : entries'[q] = entries[q] /\ list'[q] = list[q]
    BY <1>0, <2>2 DEF TypeOK
  <2>10. \A e \in fs : e.id < nextId[p]
    BY DEF IdInv, IdsFresh, fs
  <2> QED
    BY <1>0, <2>2, <2>5, <2>6, <2>7, <2>8, <2>9, <2>10, OneSlaveStep
<1>9. ASSUME NEW p \in Proc, Save(p)
      PROVE  IdInv'
  <2>1. (kv' = kv \/ kv' = list[p]) /\ UNCHANGED <<entries, nextId, list>>
    BY <1>9 DEF Save
  <2> QED
    BY <1>0, <2>1 DEF IdInv, IdsFresh, MutualElimination, SharedIdsDistinct,
                      Injective, Recorded, RecordIds, EntryIds
<1>10. ASSUME NEW a \in Job, NEW k \in Kind, SetJob(a, k)
       PROVE  IdInv'
  BY <1>0, <1>10, IdFrame DEF SetJob, scanVars
<1> QED
  BY <1>1, <1>2, <1>3, <1>4, <1>5, <1>6, <1>7, <1>8, <1>9, <1>10
     DEF Next, Exit, Crash, Scan

\* The invariant of the ids holds throughout.
THEOREM IdsCorrect == Spec => []IdInv
<1>1. Init => IdInv
  <2> SUFFICES ASSUME Init
               PROVE  IdInv
    OBVIOUS
  <2>1. TypeOK
    BY ConstantsOK, EmptyTypes
       DEF Init, TypeOK, Catalogue, Kind, Version
  <2>2. Recorded(EmptyTable) = {}
    BY DEF Recorded, EmptyTable
  <2> QED
    BY <2>1, <2>2 DEF Init, IdInv, IdsFresh, MutualElimination,
                      SharedIdsDistinct, Injective, RecordIds, EntryIds
<1> QED
  BY <1>1, IdStep, PTL DEF Spec

\* checkTimerActive's eliminations hold in every slave at every step, however
\* many slaves overlap and whichever reads and writes fail.
THEOREM EliminationCorrect == Spec => []MutualElimination
  BY IdsCorrect, PTL DEF IdInv

\* The shared table never gives one id to two jobs.
THEOREM SharedIdsCorrect == Spec => []SharedIdsDistinct
  BY IdsCorrect, PTL DEF IdInv

-----------------------------------------------------------------------------
(***************************************************************************)
(* One slave at a time: no reload, and no write of the table fails.        *)
(* Catalogue edits, failing reads and crashes with a restart remain.  The  *)
(* scan window is what makes ListDescribesCron hard: between the first     *)
(* edit and Save the shared table is older than the cron, so the invariant *)
(* says when the two agree.                                                *)
(***************************************************************************)
Alone ==
    /\ budget.reloads = 0
    /\ budget.writes = 0
    /\ \A p \in Proc : status[p] # "exiting"
    /\ \A p, q \in Proc : Up(p) /\ Up(q) => p = q

Resting ==
    \A p \in Proc :
        /\ ~Up(p) => /\ entries[p] = {}
                     /\ list[p] = EmptyTable
                     /\ pc[p] = "idle"
        /\ pc[p] \in {"idle", "loaded", "saving"} => ~edited[p]

SharedMatches ==
    \A p \in Proc :
        Up(p) /\ pc[p] # "saving" /\ ~edited[p] /\ entries[p] # {}
            => kv = list[p]

SoloInv == IdInv /\ Alone /\ Resting /\ ListDescribesCron /\ SharedMatches

\* Membership in the entries a table describes.
LEMMA DescribedMember ==
    ASSUME NEW t, NEW e
    PROVE  e \in Described(t) <=>
             \E a \in Recorded(t) :
                e = [id |-> t[a].id, job |-> a, ver |-> t[a].ver]
  BY DEF Described

\* Stopping the ids of a set of records leaves what the other records describe.
LEMMA StopDescribed ==
    ASSUME NEW t \in Table, NEW u \in Table, NEW S \in SUBSET Recorded(t),
           Injective(t), Recorded(u) = Recorded(t) \ S,
           \A a \in Recorded(u) : u[a] = t[a]
    PROVE  {e \in Described(t) : e.id \notin {t[a].id : a \in S}} = Described(u)
<1> DEFINE fs == {e \in Described(t) : e.id \notin {t[a].id : a \in S}}
<1>1. ASSUME NEW e \in fs
      PROVE  e \in Described(u)
  <2>1. PICK a \in Recorded(t) :
            e = [id |-> t[a].id, job |-> a, ver |-> t[a].ver]
    BY DescribedMember
  <2>2. a \notin S
    BY <2>1
  <2> QED
    BY <2>1, <2>2, DescribedMember
<1>2. ASSUME NEW e \in Described(u)
      PROVE  e \in fs
  <2>1. PICK a \in Recorded(u) :
            e = [id |-> u[a].id, job |-> a, ver |-> u[a].ver]
    BY DescribedMember
  <2>2. a \in Recorded(t) /\ a \notin S /\ u[a] = t[a]
    BY <2>1
  <2>3. e \in Described(t) /\ e.id = t[a].id
    BY <2>1, <2>2, DescribedMember
  <2>4. \A b \in S : t[b].id # t[a].id
    BY <2>2 DEF Injective
  <2> QED
    BY <2>3, <2>4
<1> QED
  BY <1>1, <1>2

\* Starting a job adds the entry its new record describes.
LEMMA StartDescribed ==
    ASSUME NEW t \in Table, NEW a \in Job \ Recorded(t), NEW r \in Record,
           r # Absent
    PROVE  Described([t EXCEPT ![a] = r]) =
             Described(t) \cup {[id |-> r.id, job |-> a, ver |-> r.ver]}
<1> DEFINE u == [t EXCEPT ![a] = r]
           e0 == [id |-> r.id, job |-> a, ver |-> r.ver]
<1>1. Recorded(u) = Recorded(t) \cup {a} /\ u[a] = r
  BY DEF Recorded, Table
<1>2. \A b \in Recorded(t) : u[b] = t[b]
  BY DEF Recorded, Table
<1> HIDE DEF u
<1>3. \A e : e \in Described(u) <=> e \in Described(t) \cup {e0}
  BY <1>1, <1>2, DescribedMember
<1> QED
  BY <1>3 DEF u

\* A step of one slave keeps the single-slave invariant if that slave's list
\* describes its cron and agrees with the table when it should.
LEMMA OneSoloStep ==
    ASSUME SoloInv, IdInv', Alone', Resting', NEW p \in Proc, Up(p),
           \A q \in Proc \ {p} : /\ entries'[q] = entries[q]
                                /\ list'[q] = list[q]
                                /\ ~Up(q)',
           entries'[p] = Described(list'[p]),
           \A a \in Recorded(list'[p]) : list'[p][a].mgr = p,
           Up(p)' /\ pc'[p] # "saving" /\ ~edited'[p] /\ entries'[p] # {}
               => kv' = list'[p]
    PROVE  SoloInv'
<1>1. \A q \in Proc : /\ entries'[q] = Described(list'[q])
                     /\ \A a \in Recorded(list'[q]) : list'[q][a].mgr = q
  <2> TAKE q \in Proc
  <2>1. CASE q = p
    BY <2>1
  <2>2. CASE q # p
    BY <2>2 DEF SoloInv, ListDescribesCron
  <2> QED
    BY <2>1, <2>2
<1>2. ListDescribesCron'
  BY <1>1 DEF ListDescribesCron
<1>3. SharedMatches'
  BY DEF SharedMatches
<1> QED
  BY <1>2, <1>3 DEF SoloInv

-----------------------------------------------------------------------------
\* Every step keeps the single-slave invariant.
LEMMA SoloStep == SoloInv /\ [Next]_vars => SoloInv'
<1> SUFFICES ASSUME SoloInv, [Next]_vars
             PROVE  SoloInv'
  OBVIOUS
<1>0. TypeOK /\ IdInv /\ IdInv'
  BY IdStep DEF SoloInv, IdInv
<1>1. CASE UNCHANGED vars
  BY <1>0, <1>1 DEF vars, SoloInv, Alone, Resting, ListDescribesCron,
                    SharedMatches, Up, Described, Recorded
<1>2. ASSUME NEW p \in Proc, Boot(p)
      PROVE  SoloInv'
  <2>1. /\ entries[p] = {}
        /\ \A q \in Proc : Up(q)' <=> q = p
        /\ \A q \in Proc : status'[q] # "exiting"
    BY <1>0, <1>2 DEF Boot, SoloInv, Alone, Resting, Up, TypeOK
  <2>2. Alone' /\ Resting' /\ SharedMatches'
    BY <1>0, <1>2, <2>1 DEF Boot, scanVars, SoloInv, Alone, Resting,
                            SharedMatches, Up, TypeOK
  <2>3. ListDescribesCron'
    BY <1>2 DEF Boot, scanVars, SoloInv, ListDescribesCron, Described,
                Recorded
  <2> QED
    BY <1>0, <2>2, <2>3 DEF SoloInv
<1>3. ASSUME NEW p \in Proc, NEW q \in Proc, Reload(p, q)
      PROVE  SoloInv'
  BY <1>3 DEF Reload, SoloInv, Alone
<1>4. ASSUME NEW p \in Proc, Up(p), Vanish(p)
      PROVE  SoloInv'
  <2>1. /\ entries'[p] = {} /\ list'[p] = EmptyTable
        /\ pc'[p] = "idle" /\ ~edited'[p] /\ ~Up(p)'
        /\ \A q \in Proc \ {p} : /\ entries'[q] = entries[q]
                                 /\ list'[q] = list[q]
                                 /\ pc'[q] = pc[q]
                                 /\ edited'[q] = edited[q]
                                 /\ ~Up(q)
                                 /\ ~Up(q)'
    BY <1>0, <1>4 DEF Vanish, TypeOK, Up, SoloInv, Alone
  <2>2. Alone'
    BY <1>0, <1>4, <2>1 DEF Vanish, SoloInv, Alone, TypeOK, Up
  <2>3. Resting'
    BY <2>1 DEF SoloInv, Resting, Up
  <2>4. /\ entries'[p] = Described(list'[p])
        /\ Recorded(list'[p]) = {}
    BY <2>1 DEF Described, Recorded, EmptyTable
  <2> QED
    BY <1>0, <1>4, <2>1, <2>2, <2>3, <2>4, OneSoloStep
<1>5. ASSUME NEW p \in Proc, Load(p)
      PROVE  SoloInv'
  <2>1. PICK t \in {kv, EmptyTable} :
            /\ ReadOr(kv, EmptyTable, t)
            /\ list' = [list EXCEPT ![p] = ActiveRecords(t, entries[p])]
            /\ entries' = [entries EXCEPT ![p] = NamedEntries(t, entries[p])]
    BY <1>5 DEF Load
  <2>2. /\ Up(p) /\ Up(p)' /\ kv' = kv /\ status' = status /\ edited' = edited
        /\ pc' = [pc EXCEPT ![p] = "loaded"]
        /\ pc[p] = "idle" /\ ~edited[p]
    BY <1>5 DEF Load, SoloInv, Resting, Up
  <2>3. /\ list'[p] = ActiveRecords(t, entries[p])
        /\ entries'[p] = NamedEntries(t, entries[p])
        /\ \A q \in Proc \ {p} : /\ entries'[q] = entries[q]
                                 /\ list'[q] = list[q]
                                 /\ pc'[q] = pc[q]
                                 /\ ~Up(q)'
    BY <1>0, <2>1, <2>2 DEF TypeOK, SoloInv, Alone, Up
  <2>4. Alone'
    BY <1>0, <2>1, <2>2 DEF SoloInv, Alone, Up, ReadOr, TypeOK
  <2>5. Resting'
    BY <1>0, <2>2, <2>3 DEF SoloInv, Resting, Up, TypeOK
  <2>6. \/ entries'[p] = {} /\ list'[p] = EmptyTable
        \/ entries'[p] = entries[p] /\ list'[p] = list[p] /\ kv = list[p]
    <3>1. CASE t = EmptyTable \/ entries[p] = {}
      <4>1. \A a \in Job : t[a].id \notin EntryIds(entries[p])
        BY <1>0, <3>1, EntryIdsMember
           DEF EmptyTable, Absent, TypeOK, Entry
      <4>2. ActiveRecords(t, entries[p]) = EmptyTable
        BY <4>1 DEF ActiveRecords, EmptyTable
      <4>3. NamedEntries(t, entries[p]) = {}
        BY <4>1, RecordIdsMember, EntryIdsMember
           DEF NamedEntries, Recorded
      <4> QED
        BY <2>3, <4>2, <4>3
    <3>2. CASE t = kv /\ entries[p] # {}
      <4>1. kv = list[p]
        BY <2>2, <3>2 DEF SoloInv, SharedMatches
      <4>2. /\ RecordIds(t) = EntryIds(entries[p])
            /\ t \in Table
        BY <1>0, <3>2, <4>1 DEF IdInv, MutualElimination, TypeOK
      <4>3. ActiveRecords(t, entries[p]) = t
        <5>1. \A a \in Job : t[a].id \notin EntryIds(entries[p])
                                => t[a] = Absent
          BY <4>2, RecordIdsMember DEF Recorded
        <5> QED
          BY <4>2, <5>1 DEF ActiveRecords, Table
      <4>4. NamedEntries(t, entries[p]) = entries[p]
        BY <4>2, EntryIdsMember DEF NamedEntries
      <4> QED
        BY <2>3, <3>2, <4>1, <4>3, <4>4
    <3> QED
      BY <2>1, <3>1, <3>2
  <2>7. /\ entries'[p] = Described(list'[p])
        /\ \A a \in Recorded(list'[p]) : list'[p][a].mgr = p
    <3>1. Described(EmptyTable) = {} /\ Recorded(EmptyTable) = {}
      BY DEF Described, Recorded, EmptyTable
    <3> QED
      BY <2>6, <3>1 DEF SoloInv, ListDescribesCron
  <2> QED
    BY <1>0, <2>2, <2>3, <2>4, <2>5, <2>6, <2>7, OneSoloStep
<1>6. ASSUME NEW p \in Proc, Fetch(p)
      PROVE  SoloInv'
  <2>1. /\ UNCHANGED <<kv, status, entries, nextId, list, edited>>
        /\ pc' = [pc EXCEPT ![p] = "looping"]
        /\ pc[p] = "loaded"
        /\ budget'.reloads = budget.reloads /\ budget'.writes = budget.writes
    BY <1>0, <1>6 DEF Fetch, ReadOr, TypeOK
  <2>2. Up(p)
    BY <1>6 DEF Fetch, Alive, Up, SoloInv, Alone
  <2>3. Alone' /\ Resting' /\ SharedMatches'
    BY <1>0, <2>1, <2>2 DEF SoloInv, Alone, Resting, SharedMatches, Up, TypeOK
  <2>4. ListDescribesCron'
    BY <2>1 DEF SoloInv, ListDescribesCron, Described, Recorded
  <2> QED
    BY <1>0, <2>3, <2>4 DEF SoloInv
<1>7. ASSUME NEW p \in Proc, NEW a \in Job, Update(p, a)
      PROVE  SoloInv'
  <2>1. /\ UNCHANGED <<kv, status, pc, budget, seen>>
        /\ pc[p] = "looping"
        /\ edited' = edited \/ edited' = [edited EXCEPT ![p] = TRUE]
    BY <1>7 DEF Update
  <2>2. Up(p) /\ Up(p)'
    BY <1>7, <2>1 DEF Update, Alive, Up, SoloInv, Alone
  <2>3. Alone'
    BY <2>1 DEF SoloInv, Alone, Up
  <2>4. /\ list[p] \in Table /\ entries[p] \in SUBSET Entry
        /\ Injective(list[p])
        /\ RecordIds(list[p]) = EntryIds(entries[p])
        /\ entries[p] = Described(list[p])
        /\ \A b \in Recorded(list[p]) : list[p][b].mgr = p
    BY <1>0 DEF TypeOK, IdInv, MutualElimination, SoloInv, ListDescribesCron
  <2>5. CASE UNCHANGED <<entries, nextId, list, edited>>
    <3>1. Resting' /\ SharedMatches'
      BY <2>1, <2>5 DEF SoloInv, Resting, SharedMatches, Up
    <3>2. ListDescribesCron'
      BY <2>5 DEF SoloInv, ListDescribesCron, Described, Recorded
    <3> QED
      BY <1>0, <2>3, <3>1, <3>2 DEF SoloInv
  <2>6. ASSUME NEW es \in SUBSET Entry, NEW t \in Table,
               es = Described(t), a \notin Recorded(t),
               \A b \in Recorded(t) : t[b].mgr = p,
               StartTimerJob(p, a, es, t),
               edited' = [edited EXCEPT ![p] = TRUE]
        PROVE  SoloInv'
    <3> DEFINE r == [mgr |-> p, ver |-> seen[p][a].ver, id |-> nextId[p]]
    <3>1. r \in Record /\ r # Absent
      BY <1>0, ConstantsOK DEF TypeOK, Record, Absent, Catalogue
    <3>2. /\ entries'[p] = Described(list'[p])
          /\ \A b \in Recorded(list'[p]) : list'[p][b].mgr = p
      <4>1. CASE seen[p][a].kind = "due"
        <5>1. /\ list'[p] = [t EXCEPT ![a] = r]
              /\ entries'[p] = es \cup
                    {[id |-> r.id, job |-> a, ver |-> r.ver]}
          BY <1>0, <2>6, <4>1 DEF StartTimerJob, TypeOK
        <5>2. Described([t EXCEPT ![a] = r]) =
                Described(t) \cup {[id |-> r.id, job |-> a, ver |-> r.ver]}
          BY <2>6, <3>1, StartDescribed
        <5>3. \A b \in Recorded([t EXCEPT ![a] = r]) :
                [t EXCEPT ![a] = r][b].mgr = p
          BY <2>6 DEF Recorded, Table
        <5> QED
          BY <2>6, <5>1, <5>2, <5>3
      <4>2. CASE seen[p][a].kind # "due"
        <5>1. entries'[p] = es /\ list'[p] = t
          BY <1>0, <2>6, <4>2 DEF StartTimerJob, TypeOK
        <5> QED
          BY <2>6, <5>1
      <4> QED
        BY <4>1, <4>2
    <3>3. /\ edited'[p]
          /\ \A q \in Proc \ {p} : /\ entries'[q] = entries[q]
                                   /\ list'[q] = list[q]
                                   /\ edited'[q] = edited[q]
                                   /\ ~Up(q)'
      BY <1>0, <2>1, <2>2, <2>6
         DEF StartTimerJob, TypeOK, SoloInv, Alone, Up
    <3>4. Resting'
      BY <2>1, <2>2, <3>3 DEF SoloInv, Resting, Up
    <3> QED
      BY <1>0, <2>2, <2>3, <3>2, <3>3, <3>4, OneSoloStep
  <2>7. CASE /\ a \in Recorded(list[p])
             /\ StartTimerJob(p, a, Removed(entries[p], list[p][a].id),
                              [list[p] EXCEPT ![a] = Absent])
             /\ edited' = [edited EXCEPT ![p] = TRUE]
    <3> DEFINE t == [list[p] EXCEPT ![a] = Absent]
               es == Removed(entries[p], list[p][a].id)
    <3>1. /\ t \in Table /\ es \in SUBSET Entry
          /\ a \notin Recorded(t)
      BY <2>4, <2>7, RemoveLemma
    <3>2. /\ Recorded(t) = Recorded(list[p]) \ {a}
          /\ \A b \in Recorded(t) : t[b] = list[p][b]
      BY <2>4 DEF Recorded, Table
    <3>3. es = Described(t)
      <4> DEFINE S == {a}
      <4>0. S \in SUBSET Recorded(list[p]) /\ Recorded(t) = Recorded(list[p]) \ S
        BY <2>7, <3>2
      <4>1. {e \in Described(list[p]) :
                e.id \notin {list[p][b].id : b \in S}} = Described(t)
        <5> HIDE DEF S, t
        <5> QED
          BY <2>4, <3>1, <3>2, <4>0, StopDescribed
      <4> QED
        BY <2>4, <4>1 DEF Removed
    <3>4. \A b \in Recorded(t) : t[b].mgr = p
      BY <2>4, <3>2
    <3> QED
      BY <2>6, <2>7, <3>1, <3>3, <3>4
  <2>8. CASE /\ a \notin Recorded(list[p])
             /\ StartTimerJob(p, a, entries[p], list[p])
             /\ edited' = [edited EXCEPT ![p] = TRUE]
    BY <2>4, <2>6, <2>8
  <2> QED
    BY <1>7, <2>5, <2>7, <2>8 DEF Update
<1>8. ASSUME NEW p \in Proc, CheckStop(p)
      PROVE  SoloInv'
  <2> DEFINE S == Surplus(p)
             u == [a \in Job |-> IF a \in S THEN Absent ELSE list[p][a]]
             fs == {e \in entries[p] : e.id \notin {list[p][a].id : a \in S}}
  <2>1. S \subseteq Recorded(list[p])
    BY DEF Surplus
  <2> HIDE DEF S
  <2>2. /\ entries' = [entries EXCEPT ![p] = fs]
        /\ list' = [list EXCEPT ![p] = u]
        /\ pc' = [pc EXCEPT ![p] = IF NeedsSave(p) THEN "saving" ELSE "idle"]
        /\ edited' = [edited EXCEPT ![p] = FALSE]
        /\ UNCHANGED <<kv, status, budget>>
        /\ pc[p] = "looping"
    BY <1>8 DEF CheckStop, S
  <2>3. Up(p) /\ Up(p)'
    BY <1>8, <2>2 DEF CheckStop, Alive, Up, SoloInv, Alone
  <2>4. Alone'
    BY <2>2 DEF SoloInv, Alone, Up
  <2>5. /\ list[p] \in Table /\ Injective(list[p])
        /\ entries[p] = Described(list[p])
        /\ \A b \in Recorded(list[p]) : list[p][b].mgr = p
    BY <1>0 DEF TypeOK, IdInv, MutualElimination, SoloInv, ListDescribesCron
  <2>6. /\ u \in Table
        /\ Recorded(u) = Recorded(list[p]) \ S
        /\ \A a \in Recorded(u) : u[a] = list[p][a]
    BY <2>5, EmptyTypes DEF Recorded, Table
  <2>7. fs = Described(u)
    <3> HIDE DEF u
    <3>1. {e \in Described(list[p]) : e.id \notin {list[p][a].id : a \in S}}
              = Described(u)
      BY <2>1, <2>5, <2>6, StopDescribed
    <3> QED
      BY <2>5, <3>1
  <2>8. S = {} => u = list[p]
    BY <2>5 DEF Table
  <2> HIDE DEF u, fs
  <2>9. /\ entries'[p] = fs /\ list'[p] = u /\ ~edited'[p]
        /\ pc'[p] = IF NeedsSave(p) THEN "saving" ELSE "idle"
        /\ \A q \in Proc \ {p} : /\ entries'[q] = entries[q]
                                 /\ list'[q] = list[q]
                                 /\ pc'[q] = pc[q]
                                 /\ edited'[q] = edited[q]
                                 /\ ~Up(q)'
    BY <1>0, <2>2, <2>3 DEF TypeOK, SoloInv, Alone, Up
  <2>10. Resting'
    BY <2>3, <2>9, <2>2 DEF SoloInv, Resting, Up
  <2>11. pc'[p] # "saving" /\ entries'[p] # {} => kv' = list'[p]
    <3> SUFFICES ASSUME pc'[p] # "saving", entries'[p] # {}
                 PROVE  kv' = list'[p]
      OBVIOUS
    <3>1. ~edited[p] /\ S = {}
      BY <2>9 DEF NeedsSave, S
    <3>2. list'[p] = list[p] /\ entries[p] # {}
      BY <2>5, <2>7, <2>8, <2>9, <3>1
    <3> QED
      BY <2>2, <2>3, <3>1, <3>2 DEF SoloInv, SharedMatches
  <2>12. \A a \in Recorded(list'[p]) : list'[p][a].mgr = p
    BY <2>5, <2>6, <2>9
  <2> QED
    BY <1>0, <2>3, <2>4, <2>7, <2>9, <2>10, <2>11, <2>12, OneSoloStep
<1>9. ASSUME NEW p \in Proc, Save(p)
      PROVE  SoloInv'
  <2>1. /\ kv' = list[p]
        /\ pc' = [pc EXCEPT ![p] = "idle"]
        /\ pc[p] = "saving"
        /\ UNCHANGED <<status, entries, list, edited, budget>>
    BY <1>9 DEF Save, SoloInv, Alone
  <2>2. Up(p) /\ Up(p)'
    BY <1>9, <2>1 DEF Save, Alive, Up, SoloInv, Alone
  <2>3. Alone'
    BY <2>1 DEF SoloInv, Alone, Up
  <2>4. Resting' /\ SharedMatches'
    BY <1>0, <2>1, <2>2 DEF SoloInv, Alone, Resting, SharedMatches, Up, TypeOK
  <2>5. ListDescribesCron'
    BY <2>1 DEF SoloInv, ListDescribesCron, Described, Recorded
  <2> QED
    BY <1>0, <2>3, <2>4, <2>5 DEF SoloInv
<1>10. ASSUME NEW a \in Job, NEW k \in Kind, SetJob(a, k)
       PROVE  SoloInv'
  <2>1. /\ UNCHANGED <<kv, status, entries, list, pc, edited>>
        /\ budget'.reloads = budget.reloads /\ budget'.writes = budget.writes
    BY <1>0, <1>10 DEF SetJob, scanVars, TypeOK
  <2>2. Alone' /\ Resting' /\ SharedMatches'
    BY <2>1 DEF SoloInv, Alone, Resting, SharedMatches, Up
  <2>3. ListDescribesCron'
    BY <2>1 DEF SoloInv, ListDescribesCron, Described, Recorded
  <2> QED
    BY <1>0, <2>2, <2>3 DEF SoloInv
<1>11. ASSUME NEW p \in Proc, Exit(p)
       PROVE  SoloInv'
  BY <1>11 DEF Exit, SoloInv, Alone
<1> QED
  BY <1>1, <1>2, <1>3, <1>4, <1>5, <1>6, <1>7, <1>8, <1>9, <1>10, <1>11
     DEF Next, Crash, Scan

\* With no reload and no failing write the single-slave invariant holds.
THEOREM SoloCorrect ==
    ASSUME MaxReloads = 0, MaxWrites = 0
    PROVE  Spec => []SoloInv
<1>1. Init => SoloInv
  <2> SUFFICES ASSUME Init
               PROVE  SoloInv
    OBVIOUS
  <2>1. TypeOK
    BY ConstantsOK, EmptyTypes
       DEF Init, TypeOK, Catalogue, Kind, Version
  <2>2. Recorded(EmptyTable) = {} /\ Described(EmptyTable) = {}
    BY DEF Recorded, EmptyTable, Described
  <2>3. IdInv
    BY <2>1, <2>2 DEF Init, IdInv, IdsFresh, MutualElimination,
                      SharedIdsDistinct, Injective, RecordIds, EntryIds
  <2>4. Alone /\ Resting /\ SharedMatches
    BY DEF Init, Alone, Resting, SharedMatches, Up
  <2>5. ListDescribesCron
    BY <2>2 DEF Init, ListDescribesCron
  <2> QED
    BY <2>3, <2>4, <2>5 DEF SoloInv
<1> QED
  BY <1>1, SoloStep, PTL DEF Spec

\* A single slave's list always describes its cron exactly, through any number
\* of edits, failing reads, crashes and restarts.
THEOREM ListDescribesCronCorrect ==
    ASSUME MaxReloads = 0, MaxWrites = 0
    PROVE  Spec => []ListDescribesCron
  BY SoloCorrect, PTL DEF SoloInv

\* Between scans the shared table is a single slave's own list.
THEOREM TableSurvivesCorrect ==
    ASSUME MaxReloads = 0, MaxWrites = 0
    PROVE  Spec => []TableSurvives
<1>1. SoloInv => TableSurvives
  BY DEF SoloInv, Resting, SharedMatches, TableSurvives
<1> QED
  BY <1>1, SoloCorrect, PTL

-----------------------------------------------------------------------------
(***************************************************************************)
(* What a scan leaves behind.  A record is not touched when its version is *)
(* the job's, so the scan is right only if no version was ever both        *)
(* startable and not: every edit takes a version of its own, and records   *)
(* carry only versions that started.                                       *)
(***************************************************************************)
\* A version that some catalogue, or some record, shows to have started or
\* to be startable.
DueVersion(a, v) ==
    \/ jobs[a].kind = "due" /\ jobs[a].ver = v
    \/ \E p \in Proc : seen[p][a].kind = "due" /\ seen[p][a].ver = v
    \/ \E p \in Proc : a \in Recorded(list[p]) /\ list[p][a].ver = v
    \/ a \in Recorded(kv) /\ kv[a].ver = v

\* A version that some catalogue shows with a Timing cron refuses.
BadVersion(a, v) ==
    \/ jobs[a].kind = "bad" /\ jobs[a].ver = v
    \/ \E p \in Proc : seen[p][a].kind = "bad" /\ seen[p][a].ver = v

VersionsTold ==
    \A a \in Job : \A v \in Version :
        /\ DueVersion(a, v) \/ BadVersion(a, v) => v <= MaxEdits - budget.edits
        /\ ~ (DueVersion(a, v) /\ BadVersion(a, v))

\* The loop has dealt with every enabled alias it is past.
LoopDone ==
    \A p \in Proc : pc[p] = "looping" =>
        \A a \in Enabled(seen[p]) \ todo[p] :
            IF seen[p][a].kind = "due"
            THEN a \in Recorded(list[p]) /\ list[p][a].ver = seen[p][a].ver
            ELSE a \notin Recorded(list[p])

ScanInv == TypeOK /\ VersionsTold /\ LoopDone

\* A step that edits nothing and tells no new version keeps VersionsTold.
LEMMA NoNewVersion ==
    ASSUME VersionsTold, budget'.edits = budget.edits,
           \A a \in Job : \A v \in Version :
                /\ DueVersion(a, v)' => DueVersion(a, v)
                /\ BadVersion(a, v)' => BadVersion(a, v)
    PROVE  VersionsTold'
  BY DEF VersionsTold

\* The same for a step of one slave, from what it knows afterwards.
LEMMA OneSlaveTold ==
    ASSUME VersionsTold, budget'.edits = budget.edits, jobs' = jobs,
           NEW p \in Proc,
           \A q \in Proc \ {p} : seen'[q] = seen[q] /\ list'[q] = list[q],
           \A a \in Recorded(kv') : DueVersion(a, kv'[a].ver),
           \A a \in Recorded(list'[p]) : DueVersion(a, list'[p][a].ver),
           \A a \in Job : seen'[p][a].kind = "due"
                => DueVersion(a, seen'[p][a].ver),
           \A a \in Job : seen'[p][a].kind = "bad"
                => BadVersion(a, seen'[p][a].ver)
    PROVE  VersionsTold'
<1>1. ASSUME NEW a \in Job, NEW v \in Version, DueVersion(a, v)'
      PROVE  DueVersion(a, v)
  <2>1. CASE jobs'[a].kind = "due" /\ jobs'[a].ver = v
    BY <2>1 DEF DueVersion
  <2>2. ASSUME NEW q \in Proc, seen'[q][a].kind = "due", seen'[q][a].ver = v
        PROVE  DueVersion(a, v)
    <3>1. CASE q = p
      BY <2>2, <3>1
    <3>2. CASE q # p
      BY <2>2, <3>2 DEF DueVersion
    <3> QED
      BY <3>1, <3>2
  <2>3. ASSUME NEW q \in Proc, a \in Recorded(list'[q]), list'[q][a].ver = v
        PROVE  DueVersion(a, v)
    <3>1. CASE q = p
      BY <2>3, <3>1
    <3>2. CASE q # p
      BY <2>3, <3>2 DEF DueVersion
    <3> QED
      BY <3>1, <3>2
  <2>4. CASE a \in Recorded(kv') /\ kv'[a].ver = v
    BY <2>4
  <2> QED
    BY <1>1, <2>1, <2>2, <2>3, <2>4 DEF DueVersion, Recorded
<1>2. ASSUME NEW a \in Job, NEW v \in Version, BadVersion(a, v)'
      PROVE  BadVersion(a, v)
  <2>1. CASE jobs'[a].kind = "bad" /\ jobs'[a].ver = v
    BY <2>1 DEF BadVersion
  <2>2. ASSUME NEW q \in Proc, seen'[q][a].kind = "bad", seen'[q][a].ver = v
        PROVE  BadVersion(a, v)
    <3>1. CASE q = p
      BY <2>2, <3>1
    <3>2. CASE q # p
      BY <2>2, <3>2 DEF BadVersion
    <3> QED
      BY <3>1, <3>2
  <2> QED
    BY <1>2, <2>1, <2>2 DEF BadVersion
<1> QED
  BY <1>1, <1>2, NoNewVersion

\* What a slave, or the table, holds is told.
LEMMA KnownVersions ==
    ASSUME NEW a \in Job
    PROVE  /\ a \in Recorded(kv) => DueVersion(a, kv[a].ver)
           /\ jobs[a].kind = "due" => DueVersion(a, jobs[a].ver)
           /\ jobs[a].kind = "bad" => BadVersion(a, jobs[a].ver)
           /\ \A p \in Proc :
                /\ a \in Recorded(list[p]) => DueVersion(a, list[p][a].ver)
                /\ seen[p][a].kind = "due" => DueVersion(a, seen[p][a].ver)
                /\ seen[p][a].kind = "bad" => BadVersion(a, seen[p][a].ver)
  BY DEF DueVersion, BadVersion
\* What Update leaves in its slave's list: the records of other aliases, and
\* under its own the record it found up to date or the one it has started.
LEMMA LoopRecords ==
    ASSUME TypeOK, NEW p \in Proc, NEW b \in Job, Update(p, b)
    PROVE  /\ \A a \in Recorded(list'[p]) :
                \/ a \in Recorded(list[p]) /\ list'[p][a] = list[p][a]
                \/ /\ a = b /\ seen[p][b].kind = "due"
                   /\ list'[p][b].ver = seen[p][b].ver
           /\ \A a \in Job \ {b} : list'[p][a] = list[p][a]
           /\ b \in Recorded(list'[p]) => list'[p][b].ver = seen[p][b].ver
           /\ \/ b \in Recorded(list[p]) /\ list[p][b].ver = seen[p][b].ver
              \/ b \in Recorded(list'[p]) <=> seen[p][b].kind = "due"
           /\ seen[p][b].kind = "due" => b \in Recorded(list'[p])
<1> DEFINE r == [mgr |-> p, ver |-> seen[p][b].ver, id |-> nextId[p]]
           t == [list[p] EXCEPT ![b] = Absent]
<1>1. list[p] \in Table /\ list \in [Proc -> Table] /\ t \in Table
  BY EmptyTypes DEF TypeOK, Table
<1>2. r # Absent /\ r.ver = seen[p][b].ver
  BY ConstantsOK DEF Absent
<1>3. CASE /\ b \in Recorded(list[p]) /\ list[p][b].ver = seen[p][b].ver
           /\ list' = list
  BY <1>3 DEF Recorded
<1>4. CASE \E es : \/ StartTimerJob(p, b, es, t)
                  \/ /\ b \notin Recorded(list[p])
                     /\ StartTimerJob(p, b, es, list[p])
  <2>1. b \notin Recorded(list[p]) => t = list[p]
    BY <1>1 DEF Recorded, Table
  <2>2. \/ seen[p][b].kind = "due" /\ list' = [list EXCEPT ![p] = [t EXCEPT ![b] = r]]
        \/ seen[p][b].kind # "due" /\ list' = [list EXCEPT ![p] = t]
    BY <1>4, <2>1 DEF StartTimerJob
  <2>3. \/ seen[p][b].kind = "due" /\ list'[p] = [list[p] EXCEPT ![b] = r]
        \/ seen[p][b].kind # "due" /\ list'[p] = t
    BY <1>1, <2>2 DEF Table
  <2> HIDE DEF r
  <2> QED
    BY <1>1, <1>2, <2>3 DEF Recorded, Table
<1> HIDE DEF r, t
<1>5. \/ /\ b \in Recorded(list[p]) /\ list[p][b].ver = seen[p][b].ver
         /\ list' = list
      \/ StartTimerJob(p, b, Removed(entries[p], list[p][b].id), t)
      \/ /\ b \notin Recorded(list[p])
         /\ StartTimerJob(p, b, entries[p], list[p])
  BY DEF Update, t
<1> QED
  BY <1>3, <1>4, <1>5

\* Every step tells only versions that were told before, but for an edit,
\* whose version is new.
LEMMA VersionsStep ==
    ASSUME TypeOK, VersionsTold, [Next]_vars
    PROVE  VersionsTold'
<1> USE ConstantsOK
<1>1. CASE UNCHANGED <<jobs, kv, list, seen, budget>>
  BY <1>1, NoNewVersion DEF DueVersion, BadVersion, Recorded
<1>2. ASSUME NEW p \in Proc, NEW q \in Proc, Reload(p, q)
      PROVE  VersionsTold'
  <2>1. budget'.edits = budget.edits
    BY <1>2 DEF Reload, TypeOK
  <2> QED
    BY <1>2, <2>1, NoNewVersion
       DEF Reload, scanVars, DueVersion, BadVersion, Recorded
<1>3. ASSUME NEW p \in Proc, Vanish(p)
      PROVE  VersionsTold'
  <2>1. /\ list'[p] = EmptyTable /\ seen'[p] = NoJobs
        /\ UNCHANGED <<jobs, kv, budget>>
        /\ \A q \in Proc \ {p} : seen'[q] = seen[q] /\ list'[q] = list[q]
    BY <1>3 DEF Vanish, TypeOK
  <2>2. Recorded(EmptyTable) = {} /\ \A a \in Job : NoJobs[a].kind = "off"
    BY DEF Recorded, EmptyTable, NoJobs
  <2>3. \A a \in Recorded(kv) : DueVersion(a, kv[a].ver)
    BY KnownVersions DEF Recorded
  <2> QED
    BY <2>1, <2>2, <2>3, OneSlaveTold
<1>4. ASSUME NEW p \in Proc, Load(p)
      PROVE  VersionsTold'
  <2>1. PICK t \in {kv, EmptyTable} :
            /\ ReadOr(kv, EmptyTable, t)
            /\ list' = [list EXCEPT ![p] = ActiveRecords(t, entries[p])]
    BY <1>4 DEF Load
  <2>2. /\ list'[p] = ActiveRecords(t, entries[p])
        /\ UNCHANGED <<jobs, kv, seen>>
        /\ budget'.edits = budget.edits
        /\ \A q \in Proc \ {p} : seen'[q] = seen[q] /\ list'[q] = list[q]
    BY <1>4, <2>1 DEF Load, ReadOr, TypeOK
  <2>3. \A a \in Recorded(ActiveRecords(t, entries[p])) :
            a \in Recorded(kv) /\ ActiveRecords(t, entries[p])[a] = kv[a]
    BY <2>1 DEF ActiveRecords, Recorded, EmptyTable
  <2>4. \A a \in Recorded(kv) : DueVersion(a, kv[a].ver)
    BY KnownVersions DEF Recorded
  <2>5. \A a \in Job :
            /\ seen[p][a].kind = "due" => DueVersion(a, seen[p][a].ver)
            /\ seen[p][a].kind = "bad" => BadVersion(a, seen[p][a].ver)
    BY KnownVersions
  <2> QED
    BY <2>2, <2>3, <2>4, <2>5, OneSlaveTold
<1>5. ASSUME NEW p \in Proc, Fetch(p)
      PROVE  VersionsTold'
  <2>1. PICK c \in {jobs, NoJobs} :
            ReadOr(jobs, NoJobs, c) /\ seen' = [seen EXCEPT ![p] = c]
    BY <1>5 DEF Fetch
  <2>2. /\ seen'[p] = c
        /\ UNCHANGED <<jobs, kv, list>>
        /\ budget'.edits = budget.edits
        /\ \A q \in Proc \ {p} : seen'[q] = seen[q] /\ list'[q] = list[q]
    BY <1>5, <2>1 DEF Fetch, ReadOr, TypeOK
  <2>3. \A a \in Job : /\ c[a].kind = "due" => DueVersion(a, c[a].ver)
                       /\ c[a].kind = "bad" => BadVersion(a, c[a].ver)
    BY <2>1, KnownVersions DEF NoJobs
  <2>4. /\ \A a \in Recorded(kv) : DueVersion(a, kv[a].ver)
        /\ \A a \in Recorded(list[p]) : DueVersion(a, list[p][a].ver)
    BY KnownVersions DEF Recorded
  <2> QED
    BY <2>2, <2>3, <2>4, OneSlaveTold
<1>6. ASSUME NEW p \in Proc, NEW b \in Job, Update(p, b)
      PROVE  VersionsTold'
  <2>1. /\ UNCHANGED <<jobs, kv, seen, budget>>
        /\ \A q \in Proc \ {p} : seen'[q] = seen[q] /\ list'[q] = list[q]
    BY <1>6 DEF Update, StartTimerJob, TypeOK
  <2>2. \A a \in Job :
            /\ a \in Recorded(kv) => DueVersion(a, kv[a].ver)
            /\ a \in Recorded(list[p]) => DueVersion(a, list[p][a].ver)
            /\ seen[p][a].kind = "due" => DueVersion(a, seen[p][a].ver)
            /\ seen[p][a].kind = "bad" => BadVersion(a, seen[p][a].ver)
    BY KnownVersions
  <2>3. ASSUME NEW a \in Recorded(list'[p])
        PROVE  DueVersion(a, list'[p][a].ver)
    <3>1. \/ a \in Recorded(list[p]) /\ list'[p][a] = list[p][a]
          \/ /\ a = b /\ seen[p][b].kind = "due"
             /\ list'[p][b].ver = seen[p][b].ver
      BY <1>6, LoopRecords
    <3> QED
      BY <2>2, <3>1 DEF Recorded
  <2> QED
    BY <2>1, <2>2, <2>3, OneSlaveTold DEF Recorded
<1>7. ASSUME NEW p \in Proc, CheckStop(p)
      PROVE  VersionsTold'
  <2>1. /\ UNCHANGED <<jobs, kv, budget>>
        /\ seen'[p] = NoJobs
        /\ list'[p] = [a \in Job |-> IF a \in Surplus(p) THEN Absent
                                                         ELSE list[p][a]]
        /\ \A q \in Proc \ {p} : seen'[q] = seen[q] /\ list'[q] = list[q]
    BY <1>7 DEF CheckStop, TypeOK
  <2>2. \A a \in Recorded(list'[p]) :
            a \in Recorded(list[p]) /\ list'[p][a] = list[p][a]
    BY <2>1 DEF Recorded
  <2>3. \A a \in Job :
            /\ a \in Recorded(kv) => DueVersion(a, kv[a].ver)
            /\ a \in Recorded(list[p]) => DueVersion(a, list[p][a].ver)
    BY KnownVersions
  <2>4. \A a \in Job : seen'[p][a].kind = "off"
    BY <2>1 DEF NoJobs
  <2> QED
    BY <2>1, <2>2, <2>3, <2>4, OneSlaveTold DEF Recorded
<1>8. ASSUME NEW p \in Proc, Save(p)
      PROVE  VersionsTold'
  <2>1. /\ UNCHANGED <<jobs, list, seen>>
        /\ kv' = kv \/ kv' = list[p]
        /\ budget'.edits = budget.edits
    BY <1>8 DEF Save, TypeOK
  <2>2. \A a \in Job :
            /\ a \in Recorded(kv) => DueVersion(a, kv[a].ver)
            /\ a \in Recorded(list[p]) => DueVersion(a, list[p][a].ver)
            /\ seen[p][a].kind = "due" => DueVersion(a, seen[p][a].ver)
            /\ seen[p][a].kind = "bad" => BadVersion(a, seen[p][a].ver)
    BY KnownVersions
  <2>3. \A a \in Recorded(kv') : DueVersion(a, kv'[a].ver)
    BY <2>1, <2>2 DEF Recorded
  <2> QED
    BY <2>1, <2>2, <2>3, OneSlaveTold DEF Recorded
<1>9. ASSUME NEW b \in Job, NEW k \in Kind, SetJob(b, k)
      PROVE  VersionsTold'
  <2> DEFINE n == MaxEdits - budget'.edits
  <2>1. /\ budget.edits \in 0..MaxEdits /\ budget.edits > 0
        /\ budget'.edits = budget.edits - 1
        /\ UNCHANGED <<kv, list, seen>>
        /\ jobs' = [jobs EXCEPT ![b] = [kind |-> k, ver |-> n]]
    BY <1>9 DEF SetJob, scanVars, TypeOK
  <2>2. n \in Nat /\ n > MaxEdits - budget.edits
    BY <2>1
  <2>3. /\ jobs'[b] = [kind |-> k, ver |-> n]
        /\ \A a \in Job \ {b} : jobs'[a] = jobs[a]
    BY <2>1 DEF TypeOK, Catalogue
  <2>4. ASSUME NEW a \in Job, NEW v \in Version
        PROVE  /\ DueVersion(a, v)' =>
                        DueVersion(a, v) \/ (a = b /\ v = n /\ k = "due")
               /\ BadVersion(a, v)' =>
                        BadVersion(a, v) \/ (a = b /\ v = n /\ k = "bad")
    BY <2>1, <2>3 DEF DueVersion, BadVersion, Recorded
  <2> HIDE DEF n
  <2>5. ASSUME NEW a \in Job, NEW v \in Version
        PROVE  /\ (DueVersion(a, v) \/ BadVersion(a, v))' => v <= n
               /\ ~ (DueVersion(a, v) /\ BadVersion(a, v))'
    <3>1. DueVersion(a, v) \/ BadVersion(a, v) => v <= MaxEdits - budget.edits
      BY DEF VersionsTold
    <3>2. DueVersion(a, v) \/ BadVersion(a, v) => v < n
      BY <2>1, <2>2, <3>1 DEF Version
    <3>3. ~ (DueVersion(a, v) /\ BadVersion(a, v))
      BY DEF VersionsTold
    <3> QED
      BY <2>2, <2>4, <3>2, <3>3 DEF Version
  <2> QED
    BY <2>5 DEF VersionsTold, n
<1> QED
  BY <1>1, <1>2, <1>3, <1>4, <1>5, <1>6, <1>7, <1>8, <1>9
     DEF Next, vars, Boot, Exit, Crash, Scan, scanVars

\* Every step keeps what the loop has dealt with.
LEMMA LoopStep ==
    ASSUME TypeOK, VersionsTold, LoopDone, [Next]_vars
    PROVE  LoopDone'
<1>1. CASE UNCHANGED <<list, pc, seen, todo>>
  BY <1>1 DEF LoopDone, Enabled, Recorded
<1>2. ASSUME NEW p \in Proc, pc'[p] # "looping",
             \A q \in Proc \ {p} : /\ pc'[q] = pc[q] /\ seen'[q] = seen[q]
                                  /\ todo'[q] = todo[q] /\ list'[q] = list[q]
      PROVE  LoopDone'
  BY <1>2 DEF LoopDone, Enabled, Recorded
<1>3. ASSUME NEW p \in Proc, Vanish(p) \/ Load(p) \/ CheckStop(p) \/ Save(p)
      PROVE  LoopDone'
  <2>1. /\ pc'[p] # "looping"
        /\ \A q \in Proc \ {p} : /\ pc'[q] = pc[q] /\ seen'[q] = seen[q]
                               /\ todo'[q] = todo[q] /\ list'[q] = list[q]
    BY <1>3 DEF Vanish, Load, CheckStop, Save, TypeOK
  <2> QED
    BY <1>2, <2>1
<1>4. ASSUME NEW p \in Proc, Fetch(p)
      PROVE  LoopDone'
  <2>1. /\ todo'[p] = Enabled(seen'[p])
        /\ \A q \in Proc \ {p} : /\ pc'[q] = pc[q] /\ seen'[q] = seen[q]
                               /\ todo'[q] = todo[q] /\ list'[q] = list[q]
    BY <1>4 DEF Fetch, TypeOK
  <2>2. Enabled(seen'[p]) \ todo'[p] = {}
    BY <2>1
  <2> QED
    BY <2>1, <2>2 DEF LoopDone, Enabled, Recorded
<1>5. ASSUME NEW p \in Proc, NEW b \in Job, Update(p, b)
      PROVE  LoopDone'
  <2>1. /\ UNCHANGED <<pc, seen>> /\ pc[p] = "looping"
        /\ todo'[p] = todo[p] \ {b}
        /\ \A q \in Proc \ {p} : todo'[q] = todo[q] /\ list'[q] = list[q]
    BY <1>5 DEF Update, StartTimerJob, TypeOK
  <2>2. ASSUME NEW a \in Enabled(seen[p]) \ todo'[p]
        PROVE  IF seen[p][a].kind = "due"
               THEN a \in Recorded(list'[p]) /\ list'[p][a].ver = seen[p][a].ver
               ELSE a \notin Recorded(list'[p])
    <3>1. CASE a # b
      <4>1. a \in Job /\ a \in Enabled(seen[p]) \ todo[p]
        BY <2>1, <3>1 DEF Enabled
      <4>2. list'[p][a] = list[p][a]
        BY <1>5, <3>1, <4>1, LoopRecords
      <4> QED
        BY <2>1, <4>1, <4>2 DEF LoopDone, Recorded
    <3>2. CASE a = b /\ seen[p][b].kind = "due"
      <4>1. b \in Recorded(list'[p]) /\ list'[p][b].ver = seen[p][b].ver
        BY <1>5, <3>2, LoopRecords
      <4> QED
        BY <3>2, <4>1
    <3>3. CASE a = b /\ seen[p][b].kind # "due"
      <4>1. seen[p][b].kind = "bad" /\ seen[p][b].ver \in Version
        BY <3>3 DEF Enabled, TypeOK, Catalogue, Kind
      <4>2. BadVersion(b, seen[p][b].ver)
        BY <4>1, KnownVersions
      <4>3. ~ (b \in Recorded(list[p]) /\ list[p][b].ver = seen[p][b].ver)
        BY <4>1, <4>2, KnownVersions DEF VersionsTold
      <4>4. b \notin Recorded(list'[p])
        BY <1>5, <3>3, <4>3, LoopRecords
      <4> QED
        BY <3>3, <4>4
    <3> QED
      BY <3>1, <3>2, <3>3
  <2> QED
    BY <2>1, <2>2 DEF LoopDone, Recorded
<1> QED
  BY <1>1, <1>3, <1>4, <1>5
     DEF Next, vars, Boot, Reload, Exit, Crash, Scan, SetJob, scanVars

\* The versions told and the loop's work, for every behaviour.
LEMMA ScanInvCorrect == Spec => []ScanInv
<1>1. Init => ScanInv
  <2> SUFFICES ASSUME Init
               PROVE  ScanInv
    OBVIOUS
  <2>1. TypeOK
    BY ConstantsOK, EmptyTypes
       DEF Init, TypeOK, Catalogue, Kind, Version
  <2>2. Recorded(EmptyTable) = {} /\ \A a \in Job : NoJobs[a].kind = "off"
    BY DEF Recorded, EmptyTable, NoJobs
  <2>3. \A a \in Job : jobs[a].kind # "bad" /\ jobs[a].ver = 0
    BY DEF Init
  <2>4. \A a \in Job : \A v : /\ DueVersion(a, v) => v = 0
                             /\ ~ BadVersion(a, v)
    BY <2>2, <2>3 DEF Init, DueVersion, BadVersion
  <2>5. VersionsTold
    BY <2>4, ConstantsOK DEF Init, VersionsTold
  <2> QED
    BY <2>1, <2>5 DEF Init, ScanInv, LoopDone
<1>2. ScanInv /\ [Next]_vars => ScanInv'
  BY TypeStep, VersionsStep, LoopStep DEF ScanInv
<1> QED
  BY <1>1, <1>2, PTL DEF Spec

\* At the end of a loop without another slave, the list has the due jobs of
\* the catalogue the scan read, at their versions, and no other.
LEMMA StopReconciles ==
    ASSUME SoloInv, SoloInv', ScanInv, NEW p \in Proc, CheckStop(p)
    PROVE  Running(entries'[p]) = DueEntries(seen[p])
<1>1. /\ pc[p] = "looping" /\ todo[p] = {}
      /\ list'[p] = [a \in Job |-> IF a \in Surplus(p) THEN Absent
                                                       ELSE list[p][a]]
  BY DEF CheckStop, ScanInv, TypeOK
<1>2. Surplus(p) = Recorded(list[p]) \ Enabled(seen[p])
  BY DEF Surplus, SoloInv, ListDescribesCron
<1>3. Recorded(list'[p]) = Recorded(list[p]) \cap Enabled(seen[p])
  BY <1>1, <1>2 DEF Recorded
<1>4. \A a \in Job : a \in Recorded(list'[p]) <=> seen[p][a].kind = "due"
  BY <1>1, <1>3 DEF ScanInv, LoopDone, Enabled, Recorded
<1>5. \A a \in Recorded(list'[p]) : list'[p][a].ver = seen[p][a].ver
  <2>1. \A a \in Recorded(list'[p]) :
            list'[p][a] = list[p][a] /\ a \in Enabled(seen[p])
    BY <1>1, <1>2, <1>3 DEF Recorded
  <2> QED
    BY <1>1, <1>4, <2>1 DEF ScanInv, LoopDone, Recorded
<1>6. entries'[p] = Described(list'[p])
  BY DEF SoloInv, ListDescribesCron
<1>7. \A x : x \in Running(entries'[p]) <=>
              \E a \in Recorded(list'[p]) : x = <<a, list'[p][a].ver>>
  <2> DEFINE u == list'[p]
  <2>1. entries'[p] = Described(u)
    BY <1>6
  <2> HIDE DEF u
  <2>2. \A x : x \in Running(Described(u)) <=>
                \E e \in Described(u) : x = <<e.job, e.ver>>
    BY DEF Running
  <2>3. \A x : (\E e \in Described(u) : x = <<e.job, e.ver>>) <=>
                \E a \in Recorded(u) : x = <<a, u[a].ver>>
    <3>1. ASSUME NEW x, NEW e \in Described(u), x = <<e.job, e.ver>>
          PROVE  \E a \in Recorded(u) : x = <<a, u[a].ver>>
      BY <3>1, DescribedMember
    <3>2. ASSUME NEW x, NEW a \in Recorded(u), x = <<a, u[a].ver>>
          PROVE  \E e \in Described(u) : x = <<e.job, e.ver>>
      <4> DEFINE e == [id |-> u[a].id, job |-> a, ver |-> u[a].ver]
      <4>1. e \in Described(u)
        BY DescribedMember
      <4> QED
        BY <3>2, <4>1
    <3> QED
      BY <3>1, <3>2
  <2> QED
    BY <2>1, <2>2, <2>3 DEF u
<1>8. \A x : x \in DueEntries(seen[p]) <=>
              \E a \in Job : seen[p][a].kind = "due" /\ x = <<a, seen[p][a].ver>>
  BY DEF DueEntries
<1>9. \A x : x \in Running(entries'[p]) <=> x \in DueEntries(seen[p])
  BY <1>4, <1>5, <1>7, <1>8 DEF Recorded
<1> QED
  BY <1>9

\* When the loop of a single slave ends, its cron runs exactly the jobs that
\* were due in the catalogue the scan read, whatever ran before and whatever
\* was edited meanwhile.
THEOREM ScanReconcilesCorrect ==
    ASSUME MaxReloads = 0, MaxWrites = 0
    PROVE  Spec => ScanReconciles
<1>1. SoloInv /\ SoloInv' /\ ScanInv /\ [Next]_vars
        => [\A p \in Proc : CheckStop(p) =>
                Running(entries'[p]) = DueEntries(seen[p])]_vars
  BY StopReconciles
<1> QED
  BY <1>1, SoloCorrect, ScanInvCorrect, PTL DEF Spec, ScanReconciles
=============================================================================
