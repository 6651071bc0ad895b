---------------------------- MODULE Supervision ----------------------------
(***************************************************************************)
(* The master process of a node or a manager and the slaves it boots:      *)
(* bootSlave, OnMasterProcessExit, killSlave and the exit handlers of      *)
(* cmd/node/daemonNode.go and cmd/manager/daemonManager.go, which have the *)
(* same structure.                                                         *)
(*                                                                         *)
(* bootSlave starts a slave, appends it to slaveList, waits for it and, if *)
(* it ends with an error, calls itself: one chain of slaves.  The master's *)
(* main goroutine runs the first chain, every reload starts another one.   *)
(* slaveList is read and written by the chains and by the signal goroutine *)
(* without a lock, so an append is a read and a write, and so is the swap  *)
(* of the list in a reload.                                                *)
(***************************************************************************)
EXTENDS Naturals, Sequences, FiniteSets, Functions

CONSTANTS
    NumSlaves,      \* bound: slave processes, numbered as they start
    MaxReloads,     \* bound: reloads
    Budgets         \* bounds: the mixes of events, one of which a behaviour
                    \* may use: reloads, stops, slaves that die or end by
                    \* themselves, exec calls and connections that fail,
                    \* commands of messages, and goroutines that call

Budget == [reloads : 0..MaxReloads, stops : 0..1, crashes : Nat, quits : Nat,
           failed : Nat, breaks : Nat, commands : Nat, callers : Nat]

ASSUME SupervisionConstantsOK ==
    /\ NumSlaves \in Nat
    /\ MaxReloads \in Nat
    /\ Budgets \subseteq Budget

Slave == 1..NumSlaves
NoProcess == 0              \* a Cmd whose Start failed has no Process
Cmd == Slave \cup {NoProcess}
Chain == 0..MaxReloads      \* 0 is the main goroutine, k the k-th reload

VARIABLES
    master,     \* up, clearing (inside a reload), stopping, gone
    slaveList,  \* the sequence of Cmds
    step,       \* chain -> none, start, read, write, wait, done
    cmd,        \* chain -> the Cmd it started last
    seen,       \* chain -> slaveList as its append read it
    kills,      \* chain -> what the killSlave of its reload has yet to
                \* signal; 0 stands for the killSlave of a stop
    status,     \* slave -> new, booting, serving; told to leave: draining,
                \* waiting for its jobs, woken, leaving; ended: left, quit
                \* (both with status 0), failed
    clean,      \* history: no reload found a chain without a running slave,
                \* and no slave failed that had been told to leave
    left        \* what is left of the budget

supVars == <<master, slaveList, step, cmd, seen, kills, status, clean, left>>

SupInit ==
    /\ master = "up"
    /\ slaveList = <<>>
    /\ step = [k \in Chain |-> IF k = 0 THEN "start" ELSE "none"]
    /\ cmd = [k \in Chain |-> NoProcess]
    /\ seen = [k \in Chain |-> <<>>]
    /\ kills = [k \in Chain |-> <<>>]
    /\ status = [p \in Slave |-> "new"]
    /\ clean = TRUE
    /\ left \in Budgets

Spend(event) ==
    /\ left[event] > 0
    /\ left' = [left EXCEPT ![event] = @ - 1]

\* The chain of the next reload, or of the one the master is in.
NextChain == Cardinality({k \in Chain : step[k] # "none"})

Running == master # "gone"
Ended(p) == status[p] \in {"left", "quit", "failed"}
Alive(p) == status[p] # "new" /\ ~ Ended(p)

\* It has been interrupted and has not ended.
Exiting(p) == status[p] \in {"draining", "waiting", "woken", "leaving"}

\* A slave that has been told to leave, or is about to be.
Told(p) == \/ Exiting(p)
           \/ \E k \in Chain : p \in Range(kills[k])

Goto(k, s) == step' = [step EXCEPT ![k] = s]

-----------------------------------------------------------------------------
(***************************************************************************)
(* bootSlave.                                                              *)
(***************************************************************************)
Start(k) ==
    /\ Running
    /\ step[k] = "start"
    /\ \E p \in Slave :
        /\ \A q \in Slave : status[q] = "new" <=> q >= p
        /\ status' = [status EXCEPT ![p] = "booting"]
        /\ cmd' = [cmd EXCEPT ![k] = p]
    /\ Goto(k, "read")
    /\ UNCHANGED <<master, slaveList, seen, kills, clean, left>>

\* The error is logged and the Cmd appended like any other.
StartFails(k) ==
    /\ Running
    /\ step[k] = "start"
    /\ Spend("failed")
    /\ cmd' = [cmd EXCEPT ![k] = NoProcess]
    /\ Goto(k, "read")
    /\ UNCHANGED <<master, slaveList, seen, kills, status, clean>>

AppendReads(k) ==
    /\ Running
    /\ step[k] = "read"
    /\ seen' = [seen EXCEPT ![k] = slaveList]
    /\ Goto(k, "write")
    /\ UNCHANGED <<master, slaveList, cmd, kills, status, clean, left>>

AppendWrites(k) ==
    /\ Running
    /\ step[k] = "write"
    /\ slaveList' = Append(seen[k], cmd[k])
    /\ seen' = [seen EXCEPT ![k] = <<>>]
    /\ Goto(k, "wait")
    /\ UNCHANGED <<master, cmd, kills, status, clean, left>>

\* Faulty variant: a slave that fails is not booted again.
WaitErrorIgnored(k) == "done"

\* Wait returns an error for a failed process, and for none at all.  Whatever
\* ends with status 0 has no successor, told to leave or not.
AfterWait(k) ==
    IF cmd[k] = NoProcess \/ status[cmd[k]] = "failed" THEN "start" ELSE "done"

Wait(k) ==
    /\ Running
    /\ step[k] = "wait"
    /\ cmd[k] \in Slave => Ended(cmd[k])
    /\ Goto(k, AfterWait(k))
    /\ UNCHANGED <<master, slaveList, cmd, seen, kills, status, clean, left>>

-----------------------------------------------------------------------------
(***************************************************************************)
(* The signal goroutine of the master: SIGUSR2, and the four that end it.  *)
(***************************************************************************)
Waiting(k) ==
    step[k] \in {"none", "done"} \/ (step[k] = "wait" /\ cmd[k] \in Slave
                                        /\ ~ Ended(cmd[k]))

\* Faulty variant: the list is emptied before it is remembered.
NoOldSlaves == <<>>

\* slaves := slaveList.
OldSlaves == slaveList

ReloadReads ==
    /\ master = "up"
    /\ Spend("reloads")
    /\ kills' = [kills EXCEPT ![NextChain] = OldSlaves]
    /\ master' = "clearing"
    /\ clean' = (clean /\ \A k \in Chain : Waiting(k))
    /\ UNCHANGED <<slaveList, step, cmd, seen, status>>

\* slaveList = []*exec.Cmd{}; the new chain starts, and killSlave beside it.
ReloadClears ==
    /\ master = "clearing"
    /\ slaveList' = <<>>
    /\ Goto(NextChain, "start")
    /\ master' = "up"
    /\ UNCHANGED <<cmd, seen, kills, status, clean, left>>

Stop ==
    /\ master = "up"
    /\ Spend("stops")
    /\ kills' = [kills EXCEPT ![0] = slaveList]
    /\ master' = "stopping"
    /\ UNCHANGED <<slaveList, step, cmd, seen, status, clean>>

StopEnds ==
    /\ master = "stopping"
    /\ kills[0] = <<>>
    /\ master' = "gone"
    /\ UNCHANGED <<slaveList, step, cmd, seen, kills, status, clean, left>>

\* What an interrupt does to a slave: OnSlaveProcessExit starts the exit.
\* Before it is installed the process dies of the signal, and before a node's
\* rpcServer is set beforeExit dies of a nil pointer, both with an error.
Interrupted(p) ==
    CASE status[p] = "booting" -> "failed"
      [] status[p] = "serving" -> "draining"
      [] OTHER -> status[p]

\* killSlave, one Cmd at a time; a Cmd without a Process is a nil pointer
\* and the master dies of it.
Kill(k) ==
    /\ Running
    /\ master # "clearing" \/ k # NextChain
    /\ kills[k] # <<>>
    /\ kills' = [kills EXCEPT ![k] = Tail(@)]
    /\ LET p == Head(kills[k])
       IN  IF p = NoProcess
           THEN master' = "gone" /\ UNCHANGED <<status, clean>>
           ELSE /\ status' = [status EXCEPT ![p] = Interrupted(p)]
                /\ clean' = (clean /\ status[p] # "booting")
                /\ UNCHANGED master
    /\ UNCHANGED <<slaveList, step, cmd, seen, left>>

-----------------------------------------------------------------------------
(***************************************************************************)
(* The slaves: run_slave until OnSlaveProcessExit, beforeExit, os.Exit(0). *)
(***************************************************************************)
Goes(p, from, to) ==
    /\ status[p] = from
    /\ status' = [status EXCEPT ![p] = to]
    /\ UNCHANGED <<master, slaveList, step, cmd, seen, kills>>

Ready(p) == Goes(p, "booting", "serving") /\ UNCHANGED <<clean, left>>

\* WaitRunningJob returns at once, or waits.
FindsNone(p) == Goes(p, "draining", "leaving") /\ UNCHANGED <<clean, left>>
Waits(p) == Goes(p, "draining", "waiting") /\ UNCHANGED <<clean, left>>

\* The last FinishJob wakes the goroutine that waits, which goes on later.
Woken(p) == Goes(p, "waiting", "woken") /\ UNCHANGED <<clean, left>>
Drained(p) == Goes(p, "woken", "leaving") /\ UNCHANGED <<clean, left>>

\* By then an AddJob has come: "WaitGroup is reused before previous Wait has
\* returned" is a panic, and the slave dies of it.
Reused(p) == Goes(p, "woken", "failed") /\ clean' = FALSE /\ UNCHANGED left

Exit(p) == Goes(p, "leaving", "left") /\ UNCHANGED <<clean, left>>

\* It dies with an error, which exceptionHandle may have made of a panic.
Crash(p) ==
    /\ Alive(p)
    /\ Spend("crashes")
    /\ Goes(p, status[p], "failed")
    /\ clean' = (clean /\ ~ Told(p))

\* The Serve of a node's slave returns: logger.Fatal only logs, and Start,
\* runNodeSlave and main return: the process ends with status 0.
Quits(p) ==
    /\ Exiting(p) \/ status[p] = "serving"
    /\ Spend("quits")
    /\ Goes(p, status[p], "quit")
    /\ UNCHANGED clean

-----------------------------------------------------------------------------
ChainStep(k) ==
    Start(k) \/ AppendReads(k) \/ AppendWrites(k) \/ Wait(k)

SlaveStep(p) ==
    \/ Ready(p) \/ FindsNone(p) \/ Waits(p) \/ Woken(p) \/ Drained(p)
    \/ Reused(p) \/ Exit(p)

SupNext ==
    \/ \E k \in Chain : ChainStep(k) \/ StartFails(k) \/ Kill(k)
    \/ ReloadReads \/ ReloadClears \/ Stop \/ StopEnds
    \/ \E p \in Slave : SlaveStep(p) \/ Crash(p) \/ Quits(p)

SupSpec == SupInit /\ [][SupNext]_supVars

-----------------------------------------------------------------------------
Status == {"new", "booting", "serving", "draining", "waiting", "woken",
           "leaving", "left", "quit", "failed"}

SupTypeOK ==
    /\ master \in {"up", "clearing", "stopping", "gone"}
    /\ slaveList \in Seq(Cmd)
    /\ step \in [Chain -> {"none", "start", "read", "write", "wait", "done"}]
    /\ cmd \in [Chain -> Cmd]
    /\ seen \in [Chain -> Seq(Cmd)]
    /\ kills \in [Chain -> Seq(Cmd)]
    /\ status \in [Slave -> Status]
    /\ clean \in BOOLEAN
    /\ left \in Budget

\* Slaves that are to go on: alive and not told to leave.
Staying == {p \in Slave : Alive(p) /\ ~ Told(p)}

\* The next signal will reach p: it is in the list, or about to be.
Known(p) ==
    \/ p \in Range(slaveList)
    \/ \E k \in Chain : cmd[k] = p /\ step[k] \in {"read", "write"}

\* Reloads that find their slaves running, and told slaves that do not fail,
\* leave one slave to go on, and the master knows it, however many old ones
\* are still draining.
OneSlaveStays ==
    clean => \A p \in Staying : Staying = {p} /\ Known(p)

\* The slave started last ended with status 0 and was not told to: nobody
\* boots another.
Silent == \E p \in Slave : p = cmd[NextChain - 1] /\ status[p] = "quit"

\* Whatever is told to leave, and whatever dies with an error, a master that
\* goes on and is not stopped ends up with a slave that serves, unless the
\* Serve of the last one has returned.
KeepsServing ==
    <>[](master = "up" => (\E p \in Slave : status[p] = "serving") \/ Silent)

\* After a reload one slave serves ("平滑重启"), although one of the two may fail.
OneServes == <>[](Cardinality({p \in Slave : status[p] = "serving"}) <= 1)

\* Master and slaves stop together ("restart时master和salve一起重启").
StopReachesAll == master = "gone" => \A p \in Slave : status[p] # "serving"
=============================================================================
