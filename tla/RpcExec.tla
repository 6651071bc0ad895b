------------------------------- MODULE RpcExec -------------------------------
(***************************************************************************)
(* Commands of a manager run by a node: Exec of rpc/client, the connection *)
(* pool of rpc/grpcpool, Run of rpc/server and ExecShell of tools, above   *)
(* the node's slaves of Supervision.                                       *)
(*                                                                         *)
(* The slaves of a master accept from one inherited socket.  server.Start  *)
(* serves a server of its own and not the one beforeExit stops, so a slave *)
(* accepts and runs commands until its process ends.  A connection is the  *)
(* slave at its other end, or NoProcess while it is not connected: gRPC    *)
(* (external) connects a connection again that has lost its peer.          *)
(***************************************************************************)
EXTENDS Supervision

CONSTANTS
    MaxCallers,     \* goroutines of the manager that call the node
    TimeOut,        \* caller -> the TimeOut of its jobs
    DayInSeconds    \* 86400

Call == 1..MaxCallers

ASSUME RpcConstantsOK ==
    /\ MaxCallers \in Nat
    /\ TimeOut \in [Call -> Nat]
    /\ DayInSeconds \in Nat \ {0}

VARIABLES
    call,   \* caller -> idle, out, late (its deadline has passed), and what
            \* Exec returned: ok, error, timeout, unreachable
    peer,   \* caller -> the peer of its connection, then of its last call
    exec,   \* caller -> the handler: none, run, what it answered (ok, err,
            \* killed, panic), or lost with its process
    proc,   \* caller -> the command: none, running, ok, err, killed
    stray,  \* history: calls handled after WaitRunningJob had returned
    pool,   \* the idle connections, first in first out
    local   \* slaves that run the command of a message (LocalJob)

nodeVars == <<supVars, local>>
callVars == <<call, peer, exec, proc, stray, pool>>
vars == <<nodeVars, callVars>>

Conn == Slave \cup {NoProcess}

Init ==
    /\ SupInit
    /\ call = [c \in Call |-> "idle"]
    /\ peer = [c \in Call |-> NoProcess]
    /\ exec = [c \in Call |-> "none"]
    /\ proc = [c \in Call |-> "none"]
    /\ stray = {}
    /\ pool = <<>>
    /\ local = {}

Out(c) == call[c] \in {"out", "late"}
Accepts(p) == Exiting(p) \/ status[p] = "serving"

Connected(c) == peer[c] # NoProcess
PeerUp(c) == Connected(c) /\ Accepts(peer[c])
PeerEnded(c) == Connected(c) /\ Ended(peer[c])

-----------------------------------------------------------------------------
(***************************************************************************)
(* The client.                                                             *)
(***************************************************************************)
\* Pool.Get drops the connections that have been idle too long, which are
\* the first ones, and makes one when none is left.
Begin(c) ==
    /\ c <= left.callers
    /\ ~ Out(c)
    /\ exec[c] # "run"
    /\ proc[c] # "running"
    /\ \E n \in 0..Len(pool) :
        LET fresh == SubSeq(pool, n + 1, Len(pool)) IN
        /\ peer' = [peer EXCEPT ![c] = IF fresh = <<>> THEN NoProcess
                                                       ELSE Head(fresh)]
        /\ pool' = IF fresh = <<>> THEN <<>> ELSE Tail(fresh)
    /\ call' = [call EXCEPT ![c] = "out"]
    /\ exec' = [exec EXCEPT ![c] = "none"]
    /\ proc' = [proc EXCEPT ![c] = "none"]
    /\ stray' = stray \ {c}
    /\ UNCHANGED nodeVars

Connect(c) ==
    /\ Out(c)
    /\ ~ Connected(c)
    /\ \E p \in Slave : Accepts(p) /\ peer' = [peer EXCEPT ![c] = p]
    /\ UNCHANGED <<nodeVars, call, exec, proc, stray, pool>>

\* An idle connection connects again by itself.
Reconnect ==
    /\ \E i \in DOMAIN pool, p \in Slave :
        /\ pool[i] = NoProcess
        /\ Accepts(p)
        /\ pool' = [pool EXCEPT ![i] = p]
    /\ UNCHANGED <<nodeVars, call, peer, exec, proc, stray>>

\* Faulty variant: put back where the call times out, and again by the deferred
\* function.
PutTwice(c) == pool' = pool \o <<peer[c], peer[c]>>

\* Put, with what is at the other end by now.
Put(c) == pool' = Append(pool, IF PeerEnded(c) THEN NoProcess ELSE peer[c])

Returns(c, r) == call' = [call EXCEPT ![c] = r]

\* Faulty variant: no response has no error either.
NilIsOk(answer) == IF answer \in {"ok", "panic"} THEN "ok" ELSE "error"

\* What Exec makes of an answer.  A handler that panicked recovers and
\* returns no response: gRPC answers Internal.
Outcome(answer) ==
    CASE answer = "ok" -> "ok"
      [] answer \in {"err", "killed"} -> "error"
      [] answer = "panic" -> "unreachable"

Receive(c) ==
    /\ Out(c)
    /\ exec[c] \in {"ok", "err", "killed"}
    /\ Returns(c, Outcome(exec[c]))
    /\ Put(c)
    /\ UNCHANGED <<nodeVars, peer, exec, proc, stray>>

\* parseGRPCError closes the connection.
ReceivePanic(c) ==
    /\ Out(c)
    /\ exec[c] = "panic"
    /\ Returns(c, Outcome(exec[c]))
    /\ UNCHANGED <<nodeVars, peer, exec, proc, stray, pool>>

\* Faulty variant: a job without a timeout has no deadline.
Unclamped(t) == t

\* Every call has a deadline: no or a long timeout is a day.
Clamped(t) == IF t <= 0 \/ t > DayInSeconds THEN DayInSeconds ELSE t

DeadlinePasses(c) ==
    /\ call[c] = "out"
    /\ Clamped(TimeOut[c]) > 0
    /\ call' = [call EXCEPT ![c] = "late"]
    /\ UNCHANGED <<nodeVars, peer, exec, proc, stray, pool>>

TimesOut(c) ==
    /\ call[c] = "late"
    /\ Returns(c, "timeout")
    /\ Put(c)
    /\ UNCHANGED <<nodeVars, peer, exec, proc, stray>>

\* The peer has ended, or nobody accepts: the connection is refused, or the
\* handshake of an open socket takes too long.  gRPC answers Unavailable.
Unreachable(c) ==
    /\ Out(c)
    /\ PeerEnded(c) \/ (~ Connected(c) /\ \A p \in Slave : ~ Accepts(p))
    /\ Returns(c, "unreachable")
    /\ UNCHANGED <<nodeVars, peer, exec, proc, stray, pool>>

\* The connection breaks.
Breaks(c) ==
    /\ Out(c)
    /\ PeerUp(c)
    /\ Spend("breaks")
    /\ Returns(c, "unreachable")
    /\ UNCHANGED <<master, slaveList, step, cmd, seen, kills, status, clean,
                   local, peer, exec, proc, stray, pool>>

-----------------------------------------------------------------------------
(***************************************************************************)
(* The node: Run and ExecShell.                                            *)
(***************************************************************************)
\* AddJob.  A request on its way is handled although its call has returned.
Handle(c) ==
    /\ call[c] # "idle"
    /\ PeerUp(c)
    /\ exec[c] = "none"
    /\ exec' = [exec EXCEPT ![c] = "run"]
    /\ stray' = IF status[peer[c]] = "leaving" THEN stray \cup {c} ELSE stray
    /\ UNCHANGED <<nodeVars, call, peer, proc, pool>>

\* The goroutine of ExecShell starts the command; it outlives a panic.
Spawn(c) ==
    /\ exec[c] \in {"run", "panic"}
    /\ PeerUp(c)
    /\ proc[c] = "none"
    /\ proc' = [proc EXCEPT ![c] = "running"]
    /\ UNCHANGED <<nodeVars, call, peer, exec, stray, pool>>

\* The command ends by itself.  It is a process group of its own and outlives
\* the slave.
CommandEnds(c) ==
    /\ proc[c] = "running"
    /\ \E r \in {"ok", "err"} : proc' = [proc EXCEPT ![c] = r]
    /\ UNCHANGED <<nodeVars, call, peer, exec, stray, pool>>

\* The result comes first: FinishJob and the answer.
Answer(c) ==
    /\ exec[c] = "run"
    /\ PeerUp(c)
    /\ proc[c] \in {"ok", "err"}
    /\ exec' = [exec EXCEPT ![c] = proc[c]]
    /\ UNCHANGED <<nodeVars, call, peer, proc, stray, pool>>

\* Faulty variant: nothing is killed.
NotKilled(c) == proc[c]

\* kill(-pid, SIGKILL).
Killed(c) == IF proc[c] = "running" THEN "killed" ELSE proc[c]

\* Faulty variant: the command does not get the context of the call.
NoContext(c) == FALSE

\* The context of the handler: the deadline has passed or the client has gone.
CtxDone(c) == call[c] # "out"

\* ctx.Done comes first.  A command that has not started has no Process:
\* ExecShell panics.
Expire(c) ==
    /\ exec[c] = "run"
    /\ PeerUp(c)
    /\ CtxDone(c)
    /\ exec' = [exec EXCEPT ![c] = IF proc[c] = "none" THEN "panic"
                                                       ELSE "killed"]
    /\ proc' = [proc EXCEPT ![c] = Killed(c)]
    /\ UNCHANGED <<nodeVars, call, peer, stray, pool>>

\* ListenQueue handed a message to LocalJob.  Its context is the background:
\* there is no deadline, and the command need not end.
LocalStarts(p) ==
    /\ Alive(p)
    /\ p \notin local
    /\ Spend("commands")
    /\ local' = local \cup {p}
    /\ UNCHANGED <<master, slaveList, step, cmd, seen, kills, status, clean,
                   callVars>>

LocalEnds(p) ==
    /\ p \in local
    /\ local' = local \ {p}
    /\ UNCHANGED <<supVars, callVars>>

-----------------------------------------------------------------------------
(***************************************************************************)
(* A step of the master or of a slave.                                     *)
(***************************************************************************)
\* Faulty variant: AddJob once the command has started.
CountedOnceStarted(c) == exec[c] = "run" /\ proc[c] # "none"

\* Between AddJob and FinishJob.
Counted(c) == exec[c] = "run"

\* The count of WaitRunningJob is zero.
Idle(p) == p \notin local /\ \A c \in Call : peer[c] = p => ~ Counted(c)

Passes(p, from, to) == status[p] = from /\ status'[p] = to

\* WaitRunningJob goes by the count, and what ends loses its handlers, its
\* commands and its connections.
Around ==
    /\ \A p \in Slave :
        /\ \/ Passes(p, "draining", "leaving")
           \/ Passes(p, "waiting", "woken")
           \/ Passes(p, "woken", "leaving")
           => Idle(p)
        /\ \/ Passes(p, "draining", "waiting")
           \/ Passes(p, "woken", "failed") /\ left' = left
           => ~ Idle(p)
    /\ LET ends == {p \in Slave : Ended(p)'} IN
        /\ exec' = [c \in Call |->
                IF exec[c] = "run" /\ peer[c] \in ends THEN "lost"
                                                       ELSE exec[c]]
        /\ pool' = [i \in DOMAIN pool |->
                IF pool[i] \in ends THEN NoProcess ELSE pool[i]]
        /\ local' = local \ ends
    /\ UNCHANGED <<call, peer, proc, stray>>

ClientStep(c) ==
    \/ Connect(c)
    \/ Receive(c)
    \/ ReceivePanic(c)
    \/ TimesOut(c)
    \/ Unreachable(c)

ServerStep(c) == Handle(c) \/ Spawn(c) \/ Answer(c) \/ Expire(c)

CallNext ==
    \/ \E c \in Call : \/ Begin(c) \/ ClientStep(c) \/ ServerStep(c)
                       \/ DeadlinePasses(c) \/ Breaks(c) \/ CommandEnds(c)
    \/ Reconnect
    \/ \E p \in Slave : LocalStarts(p) \/ LocalEnds(p)

Next == CallNext \/ (SupNext /\ Around)

Spec == Init /\ [][Next]_vars

\* Goroutines and processes go on and deadlines pass; a command need not end.
\* A goroutine that waits is woken when the count is zero once.
SlaveGoesOn(p) ==
    \/ Ready(p) \/ FindsNone(p) \/ Waits(p) \/ Drained(p) \/ Reused(p)
    \/ Exit(p)

Fairness ==
    /\ \A k \in Chain : /\ WF_vars(ChainStep(k) /\ Around)
                        /\ WF_vars(Kill(k) /\ Around)
    /\ WF_vars(ReloadClears /\ Around)
    /\ \A p \in Slave : /\ WF_vars(SlaveGoesOn(p) /\ Around)
                        /\ SF_vars(Woken(p) /\ Around)
    /\ \A c \in Call : /\ WF_vars(ClientStep(c))
                       /\ WF_vars(ServerStep(c))
                       /\ WF_vars(DeadlinePasses(c))

FairSpec == Spec /\ Fairness

-----------------------------------------------------------------------------
\* Types of the calls and of the connections; no call leaves more than one.
TypeOK ==
    /\ SupTypeOK
    /\ call \in [Call -> {"idle", "out", "late", "ok", "error", "timeout",
                          "unreachable"}]
    /\ peer \in [Call -> Conn]
    /\ exec \in [Call -> {"none", "run", "ok", "err", "killed", "panic",
                          "lost"}]
    /\ proc \in [Call -> {"none", "running", "ok", "err", "killed"}]
    /\ stray \subseteq Call
    /\ pool \in Seq(Conn) /\ Len(pool) <= MaxCallers
    /\ local \subseteq Slave

\* A slave that leaves in order has no handler it began before WaitRunningJob
\* returned ("等待任务执行完成").  The command of a handler that panicked is not
\* among them.
DrainWaits ==
    \A c \in Call :
        /\ Connected(c)
        /\ status[peer[c]] \in {"leaving", "left"}
        /\ exec[c] \in {"run", "lost"}
        => c \in stray

\* A handler that has answered has left no command running: only a panic and
\* the end of the process do.
AnsweredIsOver ==
    \A c \in Call : proc[c] = "running" => exec[c] \in {"run", "panic", "lost"}

\* Every call returns, whatever becomes of the slaves and of the command.
CallsReturn == \A c \in Call : (call[c] = "out") ~> ~ Out(c)

\* With one caller an old slave leaves, unless the command of a message runs
\* in it for ever: a command of a call holds it up until its timeout only, and
\* a call that comes while it leaves kills it at worst.
OldSlavesLeave ==
    left.callers < 2 => <>[](\A p \in Slave : Exiting(p) => p \in local)

\* Whatever the number of callers, and where no message has a command: a slave
\* told to leave takes no new calls ("关闭端口监听") and leaves.
ReloadCompletes == <>[](\A p \in Slave : ~ Exiting(p))

\* A call that reports a timeout has had its command stopped
\* ("执行超时, 强制结束").
TimeoutKills ==
    \A c \in Call :
        (call[c] = "timeout" /\ proc[c] = "running") ~>
            (proc[c] # "running" \/ PeerEnded(c))

\* For its caller, a call is a RemoteCommand.
Remote == INSTANCE RemoteCommand WITH
    outcome <- [c \in Call |->
        CASE Out(c) -> "none"
          [] call[c] \in {"idle", "ok"} -> call[c]
          [] OTHER -> "failed"],
    run <- proc

KeepsPromise == Remote!Spec
=============================================================================
