----------------------------- MODULE TimerTable -----------------------------
(***************************************************************************)
(* The timing jobs of the manager: src/modules/timer/timer.go and the scan *)
(* CheckAndBootTimerJob of cmd/manager/daemonManager.go.                   *)
(*                                                                         *)
(* Every manager slave runs its own cron (cron.v2, ids counted from 1) and *)
(* once a minute scans the job catalogue: it reads the shared table        *)
(* ays_timer_list, reconciles it with its cron, starts, restarts and stops *)
(* cron entries, and writes the table back if it edited anything.  The     *)
(* table is read and written without a lock (GetTimerLock has no caller),  *)
(* so a scan is several steps between which the catalogue may change, the  *)
(* slave may die and, during a reload, another slave may scan.             *)
(*                                                                         *)
(* A job is its alias; aliases are numbers because JobListGet returns the  *)
(* catalogue in key order.  A version stands for Job.UpdatedAt.            *)
(***************************************************************************)
EXTENDS Naturals, FiniteSets

CONSTANTS
    NumJobs,        \* aliases of the catalogue
    Proc,           \* slave incarnations: the process ids that may appear
    Nobody,         \* no process id
    MaxEdits,       \* bound: catalogue edits
    MaxReads,       \* bound: failing KV reads
    MaxWrites,      \* bound: failing KV writes
    MaxReloads      \* bound: reloads, each of which makes two slaves overlap

Job == 1..NumJobs

ASSUME ConstantsOK ==
    /\ NumJobs \in Nat
    /\ Nobody \notin Proc
    /\ MaxEdits \in Nat
    /\ MaxReads \in Nat
    /\ MaxWrites \in Nat
    /\ MaxReloads \in Nat

VARIABLES
    jobs,       \* catalogue job_info_*: alias -> kind and version
    kv,         \* ays_timer_list: alias -> record
    status,     \* slave -> new, up, exiting (signalled, draining), gone
    entries,    \* slave -> its cron entries
    nextId,     \* slave -> the id its cron gives next
    list,       \* slave -> timerJobList
    pc,         \* slave -> how far its scan has come
    seen,       \* slave -> the catalogue as this scan read it
    todo,       \* slave -> enabled aliases the scan has not reached
    edited,     \* slave -> editTimes > 0
    budget      \* what is left of each bound

vars == <<jobs, kv, status, entries, nextId, list, pc, seen, todo, edited,
          budget>>

scanVars == <<entries, nextId, list, pc, seen, todo, edited>>

(***************************************************************************)
(* "off": absent, disabled or without Timing.  "due": enabled with a       *)
(* Timing cron accepts.  "bad": enabled with one AddFunc refuses.          *)
(***************************************************************************)
Kind == {"off", "due", "bad"}
Version == 0..MaxEdits
Catalogue == [Job -> [kind : Kind, ver : Version]]

Record == [mgr : Proc \cup {Nobody}, ver : Version, id : Nat]
Absent == [mgr |-> Nobody, ver |-> 0, id |-> 0]
Table == [Job -> Record]
EmptyTable == [a \in Job |-> Absent]
NoJobs == [a \in Job |-> [kind |-> "off", ver |-> 0]]

Entry == [id : Nat \ {0}, job : Job, ver : Version]

Recorded(t) == {a \in Job : t[a] # Absent}
EntryIds(es) == {e.id : e \in es}
RecordIds(t) == {t[a].id : a \in Recorded(t)}
Enabled(c) == {a \in Job : c[a].kind # "off"}
DueEntries(c) == {<<a, c[a].ver>> : a \in {b \in Job : c[b].kind = "due"}}
Running(es) == {<<e.job, e.ver>> : e \in es}

Up(p) == status[p] = "up"
Alive(p) == status[p] \in {"up", "exiting"}

Init ==
    /\ jobs \in [Job -> [kind : {"off", "due"}, ver : {0}]]
    /\ kv = EmptyTable
    /\ status = [p \in Proc |-> "new"]
    /\ entries = [p \in Proc |-> {}]
    /\ nextId = [p \in Proc |-> 1]
    /\ list = [p \in Proc |-> EmptyTable]
    /\ pc = [p \in Proc |-> "idle"]
    /\ seen = [p \in Proc |-> NoJobs]
    /\ todo = [p \in Proc |-> {}]
    /\ edited = [p \in Proc |-> FALSE]
    /\ budget = [edits |-> MaxEdits, reads |-> MaxReads,
                 writes |-> MaxWrites, reloads |-> MaxReloads]

-----------------------------------------------------------------------------
(***************************************************************************)
(* Processes.  The master boots a slave when it has none, and again when   *)
(* its slave ends with an error.                                           *)
(***************************************************************************)
Boot(p) ==
    /\ status[p] = "new"
    /\ ~ \E q \in Proc : Up(q)
    /\ status' = [status EXCEPT ![p] = "up"]
    /\ UNCHANGED <<jobs, kv, scanVars, budget>>

\* SIGUSR2 (or a service restart): a new slave starts while the old one is
\* signalled.  The signal sets managerWillExit: no new scan, but one under
\* way goes on, and the cron keeps firing until the slave exits.
Reload(p, q) ==
    /\ Up(p)
    /\ status[q] = "new"
    /\ budget.reloads > 0
    /\ status' = [status EXCEPT ![p] = "exiting", ![q] = "up"]
    /\ budget' = [budget EXCEPT !.reloads = @ - 1]
    /\ UNCHANGED <<jobs, kv, scanVars>>

\* What a process loses when it ends.
Vanish(p) ==
    /\ status' = [status EXCEPT ![p] = "gone"]
    /\ entries' = [entries EXCEPT ![p] = {}]
    /\ nextId' = [nextId EXCEPT ![p] = 1]
    /\ list' = [list EXCEPT ![p] = EmptyTable]
    /\ pc' = [pc EXCEPT ![p] = "idle"]
    /\ seen' = [seen EXCEPT ![p] = NoJobs]
    /\ todo' = [todo EXCEPT ![p] = {}]
    /\ edited' = [edited EXCEPT ![p] = FALSE]
    /\ UNCHANGED <<jobs, kv, budget>>

\* beforeExit returns and the process ends, wherever its scan is.
Exit(p) == status[p] = "exiting" /\ Vanish(p)

\* The slave dies.  The last incarnation does not: Proc is finite.
Crash(p) ==
    /\ Up(p)
    /\ \E q \in Proc : status[q] = "new"
    /\ Vanish(p)

-----------------------------------------------------------------------------
(***************************************************************************)
(* The scan.                                                               *)
(***************************************************************************)

\* The outcomes of a KV read: the value, or the fallback when it fails.
ReadOr(value, fallback, result) ==
    \/ result = value /\ UNCHANGED budget
    \/ /\ budget.reads > 0
       /\ result = fallback
       /\ budget' = [budget EXCEPT !.reads = @ - 1]

\* Faulty variants: one of the two eliminations is missing.
ActiveRecordsSkipped(t, es) == t
NamedEntriesSkipped(t, es) == es

\* checkTimerActive: drop the records whose id this cron does not run, and
\* the cron entries whose id no record (of any slave) names.
ActiveRecords(t, es) ==
    [a \in Job |-> IF t[a].id \in EntryIds(es) THEN t[a] ELSE Absent]
NamedEntries(t, es) == {e \in es : e.id \in RecordIds(t)}

\* GetTimerJobList.  A failed KvGet reads as the empty table.
Load(p) ==
    /\ Up(p)
    /\ pc[p] = "idle"
    /\ \E t \in {kv, EmptyTable} :
        /\ ReadOr(kv, EmptyTable, t)
        /\ list' = [list EXCEPT ![p] = ActiveRecords(t, entries[p])]
        /\ entries' = [entries EXCEPT ![p] = NamedEntries(t, entries[p])]
    /\ pc' = [pc EXCEPT ![p] = "loaded"]
    /\ UNCHANGED <<jobs, kv, status, nextId, seen, todo, edited>>

\* JobListGet.  A failed PreSearch reads as the empty catalogue.
Fetch(p) ==
    /\ Alive(p)
    /\ pc[p] = "loaded"
    /\ \E c \in {jobs, NoJobs} :
        /\ ReadOr(jobs, NoJobs, c)
        /\ seen' = [seen EXCEPT ![p] = c]
        /\ todo' = [todo EXCEPT ![p] = Enabled(c)]
    /\ pc' = [pc EXCEPT ![p] = "looping"]
    /\ UNCHANGED <<jobs, kv, status, entries, nextId, list, edited>>

\* Faulty variant: an update leaves the old timer running.
RemovedForgotten(es, id) == es

\* timer.Remove: an unknown id is no error.
Removed(es, id) == {e \in es : e.id # id}

\* Faulty variant: cron ids counted from 0.
StartTimerJobFromZero(p, a, es, t) ==
    /\ entries' = [entries EXCEPT ![p] = es \cup
            {[id |-> nextId[p] - 1, job |-> a, ver |-> seen[p][a].ver]}]
    /\ list' = [list EXCEPT ![p] = [t EXCEPT ![a] =
            [mgr |-> p, ver |-> seen[p][a].ver, id |-> nextId[p] - 1]]]
    /\ nextId' = [nextId EXCEPT ![p] = @ + 1]

\* combineStartTimerJob on entries es and table t: AddFunc gives the next id
\* and addJob records it; a refused Timing changes nothing.
StartTimerJob(p, a, es, t) ==
    IF seen[p][a].kind = "due"
    THEN /\ entries' = [entries EXCEPT ![p] = es \cup
                {[id |-> nextId[p], job |-> a, ver |-> seen[p][a].ver]}]
         /\ list' = [list EXCEPT ![p] = [t EXCEPT ![a] =
                [mgr |-> p, ver |-> seen[p][a].ver, id |-> nextId[p]]]]
         /\ nextId' = [nextId EXCEPT ![p] = @ + 1]
    ELSE /\ entries' = [entries EXCEPT ![p] = es]
         /\ list' = [list EXCEPT ![p] = t]
         /\ UNCHANGED nextId

\* UpdateTimerJobList for the next enabled job in key order.
Update(p, a) ==
    /\ Alive(p)
    /\ pc[p] = "looping"
    /\ a \in todo[p]
    /\ \A b \in todo[p] : a <= b
    /\ todo' = [todo EXCEPT ![p] = @ \ {a}]
    /\ \/ /\ a \in Recorded(list[p])
          /\ list[p][a].ver = seen[p][a].ver
          /\ UNCHANGED <<entries, nextId, list, edited>>
       \/ /\ a \in Recorded(list[p])
          /\ list[p][a].ver # seen[p][a].ver
          /\ StartTimerJob(p, a, Removed(entries[p], list[p][a].id),
                           [list[p] EXCEPT ![a] = Absent])
          /\ edited' = [edited EXCEPT ![p] = TRUE]
       \/ /\ a \notin Recorded(list[p])
          /\ StartTimerJob(p, a, entries[p], list[p])
          /\ edited' = [edited EXCEPT ![p] = TRUE]
    /\ UNCHANGED <<jobs, kv, status, pc, seen, budget>>

\* Faulty variant: nothing is stopped.
SurplusIgnored(p) == {}

\* CheckStopTimerJob: this slave's records of jobs that are not enabled.
Surplus(p) ==
    {a \in Recorded(list[p]) \ Enabled(seen[p]) : list[p][a].mgr = p}

\* Faulty variant: editTimes is overwritten instead of added to.
NeedsSaveStopsOnly(p) == Surplus(p) # {}

\* editTimes > 0 at the end of the loop.
NeedsSave(p) == edited[p] \/ Surplus(p) # {}

\* The catalogue the scan read goes out of use here.
CheckStop(p) ==
    /\ Alive(p)
    /\ pc[p] = "looping"
    /\ todo[p] = {}
    /\ LET stopped == {list[p][a].id : a \in Surplus(p)}
       IN  entries' = [entries EXCEPT ![p] = {e \in @ : e.id \notin stopped}]
    /\ list' = [list EXCEPT ![p] =
                    [a \in Job |-> IF a \in Surplus(p) THEN Absent ELSE @[a]]]
    /\ edited' = [edited EXCEPT ![p] = FALSE]
    /\ pc' = [pc EXCEPT ![p] = IF NeedsSave(p) THEN "saving" ELSE "idle"]
    /\ seen' = [seen EXCEPT ![p] = NoJobs]
    /\ UNCHANGED <<jobs, kv, status, nextId, todo, budget>>

\* SaveTimerJobList.  A failed KvSetObj is only printed.
Save(p) ==
    /\ Alive(p)
    /\ pc[p] = "saving"
    /\ \/ kv' = list[p] /\ UNCHANGED budget
       \/ /\ budget.writes > 0
          /\ budget' = [budget EXCEPT !.writes = @ - 1]
          /\ UNCHANGED kv
    /\ pc' = [pc EXCEPT ![p] = "idle"]
    /\ UNCHANGED <<jobs, status, entries, nextId, list, seen, todo, edited>>

-----------------------------------------------------------------------------
\* The web interface creates, changes, disables or deletes a job.
SetJob(a, k) ==
    /\ budget.edits > 0
    /\ budget' = [budget EXCEPT !.edits = @ - 1]
    /\ jobs' = [jobs EXCEPT ![a] =
                    [kind |-> k, ver |-> MaxEdits - budget'.edits]]
    /\ UNCHANGED <<kv, status, scanVars>>

Scan(p) ==
    \/ Load(p)
    \/ Fetch(p)
    \/ \E a \in Job : Update(p, a)
    \/ CheckStop(p)
    \/ Save(p)

Next ==
    \/ \E p \in Proc : Boot(p) \/ Exit(p) \/ Crash(p) \/ Scan(p)
    \/ \E p, q \in Proc : Reload(p, q)
    \/ \E a \in Job, k \in Kind : SetJob(a, k)

\* The loop of OnSlaveProcessStart never ends by itself, the master restarts
\* a failed slave, and a signalled slave exits once its jobs are finished.
Fairness ==
    /\ \A p \in Proc : WF_vars(Scan(p)) /\ WF_vars(Exit(p))
    /\ WF_vars(\E p \in Proc : Boot(p))

Spec == Init /\ [][Next]_vars
FairSpec == Spec /\ Fairness

-----------------------------------------------------------------------------
(***************************************************************************)
(* Properties.                                                             *)
(***************************************************************************)

\* Types of the catalogue, the table and the state of every slave.
TypeOK ==
    /\ jobs \in Catalogue
    /\ kv \in Table
    /\ status \in [Proc -> {"new", "up", "exiting", "gone"}]
    /\ entries \in [Proc -> SUBSET Entry]
    /\ nextId \in [Proc -> Nat \ {0}]
    /\ list \in [Proc -> Table]
    /\ pc \in [Proc -> {"idle", "loaded", "looping", "saving"}]
    /\ seen \in [Proc -> Catalogue]
    /\ todo \in [Proc -> SUBSET Job]
    /\ edited \in [Proc -> BOOLEAN]
    /\ budget \in [edits : 0..MaxEdits, reads : 0..MaxReads,
                   writes : 0..MaxWrites, reloads : 0..MaxReloads]

\* No two aliases of a table share a cron id.
Injective(t) == \A a, b \in Recorded(t) : t[a].id = t[b].id => a = b

\* The two eliminations of checkTimerActive leave the ids in the slave's list
\* and the ids in its cron equal, one record per entry, and every later step
\* of the scan keeps them so, whatever the other slaves wrote to the table.
MutualElimination ==
    \A p \in Proc : /\ RecordIds(list[p]) = EntryIds(entries[p])
                    /\ Injective(list[p])

\* The shared table never gives one cron id to two jobs, though slaves number
\* their entries independently and overwrite each other's table.
SharedIdsDistinct == Injective(kv)

\* The entries a table describes.
Described(t) ==
    {[id |-> t[a].id, job |-> a, ver |-> t[a].ver] : a \in Recorded(t)}

\* Without overlapping slaves, each cron entry of a slave is the one its own
\* list records under that alias with that version: no job is scheduled
\* twice, and stopping a record stops the timer of its own job.
ListDescribesCron ==
    \A p \in Proc : /\ entries[p] = Described(list[p])
                    /\ \A a \in Recorded(list[p]) : list[p][a].mgr = p

\* Without overlapping slaves and failed writes, a slave that runs timers and
\* is between scans finds its own list in the shared table: the next scan
\* will not take its timers down.
TableSurvives ==
    \A p \in Proc :
        Up(p) /\ pc[p] = "idle" /\ entries[p] # {} => kv = list[p]

\* When CheckStop ends the loop, the cron runs exactly the jobs that were due
\* in the catalogue the scan read, each at the version it read.
ScanReconciles ==
    [][\A p \in Proc : CheckStop(p) =>
            Running(entries'[p]) = DueEntries(seen[p])]_vars

\* Once edits, faults and crashes are over, the running slave's cron settles
\* on exactly the due jobs of the catalogue (README, timing jobs (3)).
Converges ==
    <>[](\E p \in Proc : Up(p) /\ Running(entries[p]) = DueEntries(jobs))

\* A reload does not interrupt the service: once it is over, every due job
\* has a timer in the running slave (README, timing jobs (3)).  The code does
\* not keep this: see the run timer_reload.
EveryDueJobRuns ==
    <>[](\E p \in Proc :
            /\ Up(p)
            /\ {a \in Job : jobs[a].kind = "due"} \subseteq
                    {e.job : e \in entries[p]})
=============================================================================
