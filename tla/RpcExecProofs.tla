---------------------------- MODULE RpcExecProofs ----------------------------
(***************************************************************************)
(* What holds of commands run on a node for every number of slaves,        *)
(* reloads and callers, every mix of faults and every timeout.             *)
(***************************************************************************)
EXTENDS RpcExec, FiniteSetTheorems, TLAPS

\* The shape of the state, but for the number of idle connections.
Typed ==
    /\ SupTypeOK
    /\ call \in [Call -> {"idle", "out", "late", "ok", "error", "timeout",
                          "unreachable"}]
    /\ peer \in [Call -> Conn]
    /\ exec \in [Call -> {"none", "run", "ok", "err", "killed", "panic",
                          "lost"}]
    /\ proc \in [Call -> {"none", "running", "ok", "err", "killed"}]
    /\ stray \subseteq Call
    /\ pool \in Seq(Conn)
    /\ local \subseteq Slave

\* What the handler of a call says of its command: only a call that was begun
\* is handled, a handled one has a peer, a command belongs to a handler, and
\* the answer "ok" is that of a command that ended well.
HandlerInv ==
    \A c \in Call :
        /\ exec[c] # "none" => call[c] # "idle" /\ peer[c] # NoProcess
        /\ exec[c] = "none" => proc[c] = "none"
        /\ exec[c] = "ok" => proc[c] = "ok"
        /\ exec[c] = "lost" => Ended(peer[c])

Inv ==
    /\ Typed
    /\ HandlerInv
    /\ AnsweredIsOver
    /\ DrainWaits

-----------------------------------------------------------------------------
\* The initial state satisfies the invariant.
LEMMA InitInv == Init => Inv
<1> SUFFICES ASSUME Init PROVE Inv
  OBVIOUS
<1> USE DEF Init, SupInit
<1>1. Typed
  <2>1. SupTypeOK
    BY SupervisionConstantsOK DEF SupTypeOK, Status, Cmd, NoProcess
  <2> QED
    BY <2>1 DEF Typed, Conn
<1>2. HandlerInv /\ AnsweredIsOver /\ DrainWaits
  BY DEF HandlerInv, AnsweredIsOver, DrainWaits, Connected
<1> QED
  BY <1>1, <1>2 DEF Inv

\* A spent budget is a budget.
LEMMA SpendTyped ==
  ASSUME left \in Budget, NEW event \in {"reloads", "stops", "crashes",
                                        "quits", "failed", "breaks",
                                        "commands"}, Spend(event)
  PROVE  left' \in Budget
<1>1. left' = [left EXCEPT ![event] = left[event] - 1] /\ left[event] > 0
  BY DEF Spend
<1>2. CASE event = "reloads"
  BY <1>1, <1>2, SupervisionConstantsOK DEF Budget
<1>3. CASE event = "stops"
  BY <1>1, <1>3 DEF Budget
<1>4. CASE event = "crashes"
  BY <1>1, <1>4 DEF Budget
<1>5. CASE event = "failed"
  BY <1>1, <1>5 DEF Budget
<1>6. CASE event = "breaks"
  BY <1>1, <1>6 DEF Budget
<1>7. CASE event = "quits"
  BY <1>1, <1>7 DEF Budget
<1>8. CASE event = "commands"
  BY <1>1, <1>8 DEF Budget
<1> QED
  BY <1>2, <1>3, <1>4, <1>5, <1>6, <1>7, <1>8

\* The master's side keeps its types.
LEMMA SupervisionTyped == SupTypeOK /\ SupNext => SupTypeOK'
<1> SUFFICES ASSUME SupTypeOK, SupNext PROVE SupTypeOK'
  OBVIOUS
<1> USE DEF SupTypeOK, Status
<1>1. ASSUME NEW k \in Chain, ChainStep(k) PROVE SupTypeOK'
  <2>1. CASE Start(k)
    BY <2>1 DEF Start, Goto, Cmd
  <2>2. CASE AppendReads(k)
    BY <2>2 DEF AppendReads, Goto
  <2>3. CASE AppendWrites(k)
    BY <2>3 DEF AppendWrites, Goto
  <2>4. CASE Wait(k)
    BY <2>4 DEF Wait, AfterWait, Goto
  <2> QED
    BY <1>1, <2>1, <2>2, <2>3, <2>4 DEF ChainStep
<1>2. ASSUME NEW k \in Chain, StartFails(k) PROVE SupTypeOK'
  <2>1. left' \in Budget
    BY <1>2, SpendTyped DEF StartFails
  <2> QED
    BY <1>2, <2>1 DEF StartFails, Goto, Cmd, NoProcess
<1>3. ASSUME NEW k \in Chain, Kill(k) PROVE SupTypeOK'
  <2>1. Head(kills[k]) \in Cmd /\ kills' \in [Chain -> Seq(Cmd)]
    BY <1>3 DEF Kill
  <2>2. ASSUME NEW p \in Slave
        PROVE  Interrupted(p) \in Status
    BY DEF Interrupted
  <2> QED
    BY <1>3, <2>1, <2>2 DEF Kill, Cmd
<1>4. CASE ReloadReads \/ ReloadClears \/ Stop \/ StopEnds
  <2>1. CASE ReloadReads
    <3>1. left' \in Budget
      BY <2>1, SpendTyped DEF ReloadReads
    <3> QED
      BY <2>1, <3>1 DEF ReloadReads, OldSlaves, Waiting
  <2>2. CASE ReloadClears
    <3>1. step' \in [Chain -> {"none", "start", "read", "write", "wait",
                               "done"}]
      BY <2>2 DEF ReloadClears, Goto
    <3> QED
      BY <2>2, <3>1 DEF ReloadClears
  <2>3. CASE Stop
    <3>1. left' \in Budget
      BY <2>3, SpendTyped DEF Stop
    <3> QED
      BY <2>3, <3>1 DEF Stop
  <2>4. CASE StopEnds
    BY <2>4 DEF StopEnds
  <2> QED
    BY <1>4, <2>1, <2>2, <2>3, <2>4
<1>5. ASSUME NEW p \in Slave, SlaveStep(p) PROVE SupTypeOK'
  BY <1>5 DEF SlaveStep, Ready, FindsNone, Waits, Woken, Drained, Reused,
              Exit, Goes
<1>6. ASSUME NEW p \in Slave, Crash(p) \/ Quits(p) PROVE SupTypeOK'
  <2>1. left' \in Budget
    BY <1>6, SpendTyped DEF Crash, Quits
  <2> QED
    BY <1>6, <2>1 DEF Crash, Quits, Goes, Told
<1> QED
  BY <1>1, <1>2, <1>3, <1>4, <1>5, <1>6 DEF SupNext

\* A step of the master or of a slave: what has ended stays so, and a slave
\* leaves once it has waited.
Orderly ==
    /\ status' \in [Slave -> Status]
    /\ \A p \in Slave :
        /\ Ended(p) => status'[p] = status[p]
        /\ status'[p] = "left" => status[p] \in {"leaving", "left"}
        /\ status'[p] = "leaving" =>
            status[p] \in {"draining", "woken", "leaving"}

\* Every step of the supervision is orderly.
LEMMA SupervisionOrderly == Typed /\ SupNext => Orderly
<1> SUFFICES ASSUME Typed, SupNext PROVE Orderly
  OBVIOUS
<1> USE DEF Typed, SupTypeOK, Status, Ended, Orderly
<1>1. ASSUME NEW k \in Chain, ChainStep(k) \/ StartFails(k) PROVE Orderly
  <2>1. CASE Start(k)
    <3>1. PICK p \in Slave :
            /\ \A q \in Slave : status[q] = "new" <=> q >= p
            /\ status' = [status EXCEPT ![p] = "booting"]
      BY <2>1 DEF Start
    <3>2. p >= p
      BY SupervisionConstantsOK DEF Slave
    <3>3. status[p] = "new"
      BY <3>1, <3>2
    <3> QED
      BY <3>1, <3>3
  <2>2. CASE ~ Start(k)
    BY <1>1, <2>2 DEF ChainStep, StartFails, AppendReads, AppendWrites, Wait
  <2> QED
    BY <2>1, <2>2
<1>2. ASSUME NEW k \in Chain, Kill(k) PROVE Orderly
  <2>1. CASE UNCHANGED status
    BY <2>1
  <2>2. CASE \E p : status' = [status EXCEPT ![p] = Interrupted(p)]
    <3> PICK p : status' = [status EXCEPT ![p] = Interrupted(p)]
      BY <2>2
    <3>1. CASE p \in Slave
      BY <3>1 DEF Interrupted
    <3>2. CASE p \notin Slave
      BY <3>2
    <3> QED
      BY <3>1, <3>2
  <2> QED
    BY <1>2, <2>1, <2>2 DEF Kill
<1>3. CASE ReloadReads \/ ReloadClears \/ Stop \/ StopEnds
  BY <1>3 DEF ReloadReads, ReloadClears, Stop, StopEnds
<1>4. ASSUME NEW p \in Slave, SlaveStep(p) \/ Crash(p) \/ Quits(p) PROVE Orderly
  <2>1. CASE SlaveStep(p)
    BY <2>1 DEF SlaveStep, Ready, FindsNone, Waits, Woken, Drained, Reused,
                Exit, Goes
  <2>2. CASE Crash(p)
    <3>1. ~ Ended(p) /\ status' = [status EXCEPT ![p] = "failed"]
      BY <2>2 DEF Crash, Alive, Goes
    <3> QED
      BY <3>1
  <2>3. CASE Quits(p)
    <3>1. ~ Ended(p) /\ status' = [status EXCEPT ![p] = "quit"]
      BY <2>3 DEF Quits, Exiting, Goes
    <3> QED
      BY <3>1
  <2> QED
    BY <1>4, <2>1, <2>2, <2>3
<1> QED
  BY <1>1, <1>2, <1>3, <1>4 DEF SupNext

\* The invariant under a step of the master or of a slave.
LEMMA AroundInv == Inv /\ SupNext /\ Around => Inv'
<1> SUFFICES ASSUME Inv, SupNext, Around PROVE Inv'
  OBVIOUS
<1> USE DEF Inv
<1>1. Orderly
  BY SupervisionOrderly
<1>2. Typed'
  <2>1. SupTypeOK'
    BY SupervisionTyped DEF Typed
  <2>2. exec' \in [Call -> {"none", "run", "ok", "err", "killed", "panic",
                            "lost"}]
    BY DEF Around, Typed
  <2>3. pool' \in Seq(Conn)
    <3> DEFINE down(i) == pool[i] \in {p \in Slave : Ended(p)'}
    <3>1. pool' = [i \in 1..Len(pool) |->
                    IF down(i) THEN NoProcess ELSE pool[i]]
      BY DEF Around, Typed
    <3>2. \A i \in 1..Len(pool) : pool[i] \in Conn
      BY DEF Typed
    <3>3. pool' \in [1..Len(pool) -> Conn] /\ Len(pool) \in Nat
      BY <3>1, <3>2 DEF Conn, Typed
    <3> QED
      BY <3>3
  <2> QED
    BY <2>1, <2>2, <2>3 DEF Typed, Around
<1>3. /\ UNCHANGED <<call, peer, proc, stray>>
      /\ \A c \in Call : exec'[c] =
            IF exec[c] = "run" /\ peer[c] \in Slave
                               /\ Ended(peer[c])'
            THEN "lost" ELSE exec[c]
  BY DEF Around, Typed
<1>4. HandlerInv'
  BY <1>1, <1>2, <1>3 DEF HandlerInv, Orderly, Typed, Ended, Conn, NoProcess
<1>5. AnsweredIsOver'
  BY <1>3 DEF AnsweredIsOver
<1>6. DrainWaits'
  <2> SUFFICES ASSUME NEW c \in Call, peer'[c] # NoProcess,
                      status'[peer'[c]] \in {"leaving", "left"},
                      exec'[c] \in {"run", "lost"}
               PROVE  c \in stray'
    BY DEF DrainWaits, Connected
  <2>1. peer[c] \in Slave /\ peer'[c] = peer[c]
    BY <1>3 DEF Typed, Conn
  <2>2. exec[c] \in {"run", "lost"}
    BY <1>3
  <2>3. status[peer[c]] \in {"draining", "woken", "leaving", "left"}
    BY <1>1, <2>1 DEF Orderly
  <2>4. CASE status[peer[c]] \in {"draining", "woken"}
    <3>1. status'[peer[c]] = "leaving"
      BY <1>1, <2>1, <2>4 DEF Orderly
    <3>2. exec[c] # "run"
      BY <2>1, <2>4, <3>1 DEF Around, Passes, Idle, Counted
    <3>3. exec[c] # "lost"
      BY <2>1, <2>4 DEF HandlerInv, Ended
    <3> QED
      BY <2>2, <3>2, <3>3
  <2>5. CASE status[peer[c]] \in {"leaving", "left"}
    BY <1>3, <2>1, <2>2, <2>5 DEF DrainWaits, Connected, NoProcess
  <2> QED
    BY <2>3, <2>4, <2>5
<1> QED
  BY <1>2, <1>4, <1>5, <1>6 DEF Inv

-----------------------------------------------------------------------------
\* The invariant under a step of a call, which changes no slave.
LEMMA CallInv == Inv /\ CallNext => Inv'
<1> SUFFICES ASSUME Inv, CallNext PROVE Inv'
  OBVIOUS
<1> USE DEF Inv, Typed, HandlerInv, AnsweredIsOver, DrainWaits, Connected,
            Ended, Out
<1>sup. UNCHANGED nodeVars => SupTypeOK' /\ local' \subseteq Slave
  BY DEF SupTypeOK, nodeVars, supVars
<1>put. ASSUME NEW c \in Call, Put(c) PROVE pool' \in Seq(Conn)
  BY <1>put DEF Put, Conn
<1>1. ASSUME NEW c \in Call, Begin(c) PROVE Inv'
  <2>1. PICK n \in 0..Len(pool) :
            LET fresh == SubSeq(pool, n + 1, Len(pool)) IN
            /\ peer' = [peer EXCEPT ![c] = IF fresh = <<>> THEN NoProcess
                                                           ELSE Head(fresh)]
            /\ pool' = IF fresh = <<>> THEN <<>> ELSE Tail(fresh)
    BY <1>1 DEF Begin
  <2> DEFINE fresh == SubSeq(pool, n + 1, Len(pool))
  <2>2. fresh \in Seq(Conn)
    BY <2>1
  <2>3. pool' \in Seq(Conn)
    BY <2>1, <2>2
  <2>4. (IF fresh = <<>> THEN NoProcess ELSE Head(fresh)) \in Conn
    BY <2>2 DEF Conn
  <2>5. peer' \in [Call -> Conn] /\ \A d \in Call \ {c} : peer'[d] = peer[d]
    BY <2>1, <2>4
  <2> QED
    BY <1>1, <1>sup, <2>3, <2>5 DEF Begin, nodeVars, supVars
<1>2. ASSUME NEW c \in Call, ClientStep(c) PROVE Inv'
  <2>1. CASE Connect(c)
    BY <2>1, <1>sup DEF Connect, nodeVars, supVars, Conn
  <2>2. CASE Receive(c)
    BY <2>2, <1>sup, <1>put DEF Receive, Returns, Outcome, nodeVars, supVars
  <2>3. CASE ReceivePanic(c)
    BY <2>3, <1>sup DEF ReceivePanic, Returns, Outcome, nodeVars, supVars
  <2>4. CASE TimesOut(c)
    BY <2>4, <1>sup, <1>put DEF TimesOut, Returns, nodeVars, supVars
  <2>5. CASE Unreachable(c)
    BY <2>5, <1>sup DEF Unreachable, Returns, nodeVars, supVars
  <2> QED
    BY <1>2, <2>1, <2>2, <2>3, <2>4, <2>5 DEF ClientStep
<1>3. ASSUME NEW c \in Call, ServerStep(c) PROVE Inv'
  <2> USE DEF PeerUp, Accepts, Conn
  <2>1. CASE Handle(c)
    BY <2>1, <1>sup DEF Handle, Exiting, nodeVars, supVars
  <2>2. CASE Spawn(c)
    BY <2>2, <1>sup DEF Spawn, nodeVars, supVars
  <2>3. CASE Answer(c)
    BY <2>3, <1>sup DEF Answer, nodeVars, supVars
  <2>4. CASE Expire(c)
    BY <2>4, <1>sup DEF Expire, Killed, nodeVars, supVars
  <2> QED
    BY <1>3, <2>1, <2>2, <2>3, <2>4 DEF ServerStep
<1>4. ASSUME NEW c \in Call, DeadlinePasses(c) PROVE Inv'
  BY <1>4, <1>sup DEF DeadlinePasses, nodeVars, supVars
<1>5. ASSUME NEW c \in Call, Breaks(c) PROVE Inv'
  <2>1. SupTypeOK'
    <3>1. left' \in Budget
      BY <1>5, SpendTyped DEF Breaks, SupTypeOK
    <3> QED
      BY <1>5, <3>1 DEF Breaks, SupTypeOK
  <2> QED
    BY <1>5, <2>1 DEF Breaks, Returns
<1>6. ASSUME NEW c \in Call, CommandEnds(c) PROVE Inv'
  BY <1>6, <1>sup DEF CommandEnds, nodeVars, supVars
<1>7. CASE Reconnect
  <2>1. pool' \in Seq(Conn)
    BY <1>7 DEF Reconnect, Conn
  <2> QED
    BY <1>7, <1>sup, <2>1 DEF Reconnect, nodeVars, supVars
<1>8. ASSUME NEW p \in Slave, LocalStarts(p) PROVE Inv'
  <2>1. left' \in Budget
    BY <1>8, SpendTyped DEF LocalStarts, SupTypeOK
  <2>2. SupTypeOK'
    BY <1>8, <2>1 DEF LocalStarts, SupTypeOK
  <2> QED
    BY <1>8, <2>2 DEF LocalStarts, callVars
<1>9. ASSUME NEW p \in Slave, LocalEnds(p) PROVE Inv'
  <2>1. SupTypeOK' /\ local' \subseteq Slave
    BY <1>9 DEF LocalEnds, SupTypeOK, supVars
  <2> QED
    BY <1>9, <2>1 DEF LocalEnds, callVars, supVars
<1> QED
  BY <1>1, <1>2, <1>3, <1>4, <1>5, <1>6, <1>7, <1>8, <1>9 DEF CallNext

\* The invariant: an answered handler has left no command running, and a slave
\* that leaves has no handler it began before its wait ended.
THEOREM InvCorrect == Spec => []Inv
<1>1. Inv /\ [Next]_vars => Inv'
  <2>1. Inv /\ UNCHANGED vars => Inv'
    BY DEF Inv, Typed, SupTypeOK, HandlerInv, AnsweredIsOver, DrainWaits,
           Connected, Ended, vars, callVars, nodeVars, supVars
  <2> QED
    BY <2>1, AroundInv, CallInv DEF Next
<1> QED
  BY <1>1, InitInv, PTL DEF Spec

\* A handler that has answered has left no command running: only a handler
\* that panicked and the end of a slave do (ExecShell).
THEOREM AnsweredIsOverCorrect == Spec => []AnsweredIsOver
BY InvCorrect, PTL DEF Inv

\* A slave leaves with no handler it began before WaitRunningJob returned
\* (beforeExit, AddJob and FinishJob of ExecShell).
THEOREM DrainWaitsCorrect == Spec => []DrainWaits
BY InvCorrect, PTL DEF Inv

-----------------------------------------------------------------------------
(***************************************************************************)
(* The pool: a call that is out has taken the place of an idle connection, *)
(* so there are never more of both than callers.                           *)
(***************************************************************************)
OutCalls == {c \in Call : Out(c)}

PoolInv == Len(pool) + Cardinality(OutCalls) <= MaxCallers

\* There are MaxCallers calls.
LEMMA CallFinite == IsFiniteSet(Call) /\ Cardinality(Call) = MaxCallers
<1>1. MaxCallers \in Nat
  BY RpcConstantsOK
<1> QED
  BY <1>1, FS_Interval DEF Call

\* The calls under way are finitely many.
LEMMA OutCallsFinite ==
    /\ IsFiniteSet(OutCalls)
    /\ Cardinality(OutCalls) \in Nat
    /\ Cardinality(OutCalls) <= MaxCallers
<1>1. OutCalls \subseteq Call
  BY DEF OutCalls
<1> QED
  BY <1>1, CallFinite, FS_Subset, FS_CardinalityType

\* A call that returns leaves at most one connection, one that begins takes
\* one if there is one.
LEMMA PoolStep == Typed /\ PoolInv /\ [Next]_vars => PoolInv'
<1> SUFFICES ASSUME Typed, PoolInv, [Next]_vars PROVE PoolInv'
  OBVIOUS
<1>n. /\ MaxCallers \in Nat
      /\ Len(pool) \in Nat
      /\ IsFiniteSet(OutCalls) /\ Cardinality(OutCalls) \in Nat
  BY RpcConstantsOK, OutCallsFinite DEF Typed
<1>same. ASSUME OutCalls' = OutCalls, Len(pool') = Len(pool) PROVE PoolInv'
  BY <1>same DEF PoolInv
<1>back. ASSUME NEW c \in OutCalls, OutCalls' = OutCalls \ {c},
                Len(pool') \in {Len(pool), Len(pool) + 1}
         PROVE  PoolInv'
  <2>1. Cardinality(OutCalls') = Cardinality(OutCalls) - 1
    BY <1>n, <1>back, FS_RemoveElement
  <2> QED
    BY <1>n, <1>back, <2>1 DEF PoolInv
<1>out. ASSUME NEW c \in Call, Out(c), NEW r, r \notin {"out", "late"},
               Returns(c, r)
        PROVE  c \in OutCalls /\ OutCalls' = OutCalls \ {c}
  BY <1>out DEF Typed, Returns, Out, OutCalls
<1>put. ASSUME NEW c \in Call, Put(c) PROVE Len(pool') = Len(pool) + 1
  BY <1>put DEF Put, Typed, Conn
<1>1. ASSUME NEW c \in Call, Begin(c) PROVE PoolInv'
  <2>1. PICK n \in 0..Len(pool) :
            LET fresh == SubSeq(pool, n + 1, Len(pool)) IN
            pool' = IF fresh = <<>> THEN <<>> ELSE Tail(fresh)
    BY <1>1 DEF Begin
  <2> DEFINE fresh == SubSeq(pool, n + 1, Len(pool))
  <2>2. fresh \in Seq(Conn) /\ Len(fresh) = Len(pool) - n
    BY <1>n DEF Typed
  <2>3. c \notin OutCalls /\ OutCalls' = OutCalls \cup {c}
    BY <1>1 DEF Begin, Typed, Out, OutCalls
  <2>4. Cardinality(OutCalls') = Cardinality(OutCalls) + 1
    BY <1>n, <2>3, FS_AddElement
  <2>5. CASE fresh = <<>>
    <3>1. Len(pool') = 0
      BY <2>1, <2>5
    <3>2. Cardinality(OutCalls') <= MaxCallers
      <4>1. OutCalls \cup {c} \in SUBSET Call
        BY DEF OutCalls
      <4>2. Cardinality(OutCalls \cup {c}) <= Cardinality(Call)
        BY <4>1, CallFinite, FS_Subset
      <4> QED
        BY <2>3, <4>2, CallFinite
    <3> QED
      BY <1>n, <2>4, <3>1, <3>2 DEF PoolInv
  <2>6. CASE fresh # <<>>
    <3>1. Len(pool') <= Len(pool) - 1 /\ Len(pool') \in Nat
      BY <1>n, <2>1, <2>2, <2>6
    <3> QED
      BY <1>n, <2>4, <3>1 DEF PoolInv
  <2> QED
    BY <2>5, <2>6
<1>2. ASSUME NEW c \in Call, ClientStep(c) PROVE PoolInv'
  <2>1. CASE Connect(c)
    BY <2>1, <1>same DEF Connect, OutCalls, Out
  <2>2. CASE Receive(c)
    <3>1. Outcome(exec[c]) \in {"ok", "error"}
      BY <2>2 DEF Receive, Outcome
    <3> QED
      BY <2>2, <3>1, <1>out, <1>put, <1>back DEF Receive
  <2>3. CASE ReceivePanic(c)
    <3>1. Outcome(exec[c]) = "unreachable"
      BY <2>3 DEF ReceivePanic, Outcome
    <3> QED
      BY <2>3, <3>1, <1>out, <1>back DEF ReceivePanic
  <2>4. CASE TimesOut(c)
    BY <2>4, <1>out, <1>put, <1>back DEF TimesOut, Out
  <2>5. CASE Unreachable(c)
    BY <2>5, <1>out, <1>back DEF Unreachable
  <2> QED
    BY <1>2, <2>1, <2>2, <2>3, <2>4, <2>5 DEF ClientStep
<1>3. ASSUME NEW c \in Call, ServerStep(c) \/ CommandEnds(c) PROVE PoolInv'
  BY <1>3, <1>same DEF ServerStep, Handle, Spawn, Answer, Expire, CommandEnds,
     OutCalls, Out
<1>4. ASSUME NEW c \in Call, DeadlinePasses(c) PROVE PoolInv'
  <2>1. OutCalls' = OutCalls
    BY <1>4 DEF DeadlinePasses, Typed, OutCalls, Out
  <2> QED
    BY <1>4, <2>1, <1>same DEF DeadlinePasses
<1>5. ASSUME NEW c \in Call, Breaks(c) PROVE PoolInv'
  BY <1>5, <1>out, <1>back DEF Breaks
<1>6. CASE Reconnect
  BY <1>6, <1>same DEF Reconnect, OutCalls, Out, Typed
<1>7. CASE SupNext /\ Around
  <2>1. Len(pool') = Len(pool)
    BY <1>7 DEF Around, Typed
  <2> QED
    BY <1>7, <2>1, <1>same DEF Around, OutCalls, Out
<1>8. ASSUME NEW p \in Slave, LocalStarts(p) \/ LocalEnds(p) PROVE PoolInv'
  BY <1>8, <1>same DEF LocalStarts, LocalEnds, callVars, OutCalls, Out
<1>9. CASE UNCHANGED vars
  BY <1>9, <1>same DEF vars, callVars, OutCalls, Out
<1> QED
  BY <1>1, <1>2, <1>3, <1>4, <1>5, <1>6, <1>7, <1>8, <1>9 DEF Next, CallNext

\* Types of the master, its slaves, the calls and the connections: no call
\* leaves more than one connection in the pool (Pool.Get, Pool.Put, Exec).
THEOREM TypeCorrect == Spec => []TypeOK
<1>1. Init => PoolInv
  <2> SUFFICES ASSUME Init PROVE PoolInv
    OBVIOUS
  <2>1. Len(pool) = 0
    BY DEF Init
  <2> QED
    BY <2>1, OutCallsFinite, RpcConstantsOK DEF PoolInv
<1>2. Inv /\ PoolInv => TypeOK
  <2> SUFFICES ASSUME Inv, PoolInv PROVE TypeOK
    OBVIOUS
  <2>1. Len(pool) <= MaxCallers
    BY OutCallsFinite, RpcConstantsOK DEF PoolInv, Inv, Typed
  <2> QED
    BY <2>1 DEF Inv, Typed, TypeOK
<1>3. Inv => Typed
  BY DEF Inv
<1> QED
  BY <1>1, <1>2, <1>3, InvCorrect, PoolStep, PTL DEF Spec

-----------------------------------------------------------------------------
(***************************************************************************)
(* A call is a RemoteCommand for its caller.                               *)
(***************************************************************************)
Reported == [c \in Call |->
    CASE Out(c) -> "none"
      [] call[c] \in {"idle", "ok"} -> call[c]
      [] OTHER -> "failed"]

\* What a call reports, case by case.
LEMMA ReportedIs ==
  ASSUME NEW c \in Call
  PROVE  /\ Out(c) => Reported[c] = "none"
         /\ call[c] = "idle" => Reported[c] = "idle"
         /\ call[c] = "ok" => Reported[c] = "ok"
         /\ ~ Out(c) /\ call[c] \notin {"idle", "ok"} => Reported[c] = "failed"
  BY DEF Reported, Out

\* What the other calls report does not change.
LEMMA ReportedExcept ==
  ASSUME NEW c \in Call, NEW r, Typed, call' = [call EXCEPT ![c] = r]
  PROVE  Reported' = [Reported EXCEPT ![c] = Reported'[c]]
  BY DEF Reported, Out, Typed

\* Calls and commands that do not change are a stuttering step.
LEMMA CallStutters == UNCHANGED <<call, proc>> => UNCHANGED Remote!cmdVars
BY DEF Remote!cmdVars, Out

\* Every step is one of RemoteCommand, or changes nothing it speaks of.
LEMMA PromiseStep == Inv /\ [Next]_vars => [Remote!Next]_(Remote!cmdVars)
<1> SUFFICES ASSUME Inv, [Next]_vars PROVE [Remote!Next]_(Remote!cmdVars)
  OBVIOUS
<1> USE DEF Inv
<1>map. Remote!cmdVars = <<Reported, proc>>
  BY DEF Remote!cmdVars, Reported
<1>fail. ASSUME NEW c \in Call, Out(c), UNCHANGED proc, NEW r, Returns(c, r),
                r \in {"error", "timeout", "unreachable"}
         PROVE  Remote!Next
  <2>1. Reported[c] = "none" /\ Reported'[c] = "failed"
    BY <1>fail, ReportedIs DEF Returns, Reported, Out, Typed
  <2>2. Reported' = [Reported EXCEPT ![c] = "failed"]
    BY <1>fail, <2>1, ReportedExcept DEF Returns
  <2>3. Remote!ReportFailure(c)
    BY <1>fail, <2>1, <2>2 DEF Remote!ReportFailure, Reported
  <2> QED
    BY <2>3 DEF Remote!Next
<1>1. ASSUME NEW c \in Call, Begin(c) PROVE Remote!Next
  <2>1. Reported[c] # "none" /\ Reported'[c] = "none"
    BY <1>1, ReportedIs DEF Begin, Reported, Out, Typed
  <2>2. Reported' = [Reported EXCEPT ![c] = "none"]
    BY <1>1, <2>1, ReportedExcept DEF Begin
  <2>3. Remote!Begin(c)
    BY <1>1, <2>1, <2>2 DEF Begin, Remote!Begin, Reported
  <2> QED
    BY <2>3 DEF Remote!Next
<1>2. ASSUME NEW c \in Call, Receive(c) PROVE Remote!Next
  <2>1. CASE exec[c] = "ok"
    <3>1. proc[c] = "ok"
      BY <2>1 DEF HandlerInv
    <3>2. Reported[c] = "none" /\ Reported'[c] = "ok"
      BY <1>2, <2>1, ReportedIs DEF Receive, Returns, Outcome, Reported, Out,
         Typed
    <3>3. Reported' = [Reported EXCEPT ![c] = "ok"]
      BY <1>2, <3>2, ReportedExcept DEF Receive, Returns
    <3>4. Remote!ReportOk(c)
      BY <1>2, <3>1, <3>2, <3>3 DEF Receive, Remote!ReportOk, Reported
    <3> QED
      BY <3>4 DEF Remote!Next
  <2>2. CASE exec[c] # "ok"
    <3>1. Outcome(exec[c]) = "error"
      BY <1>2, <2>2 DEF Receive, Outcome
    <3> QED
      BY <1>2, <1>fail, <3>1 DEF Receive
  <2> QED
    BY <2>1, <2>2
<1>3. ASSUME NEW c \in Call, ReceivePanic(c) PROVE Remote!Next
  <2>1. Outcome(exec[c]) = "unreachable"
    BY <1>3 DEF ReceivePanic, Outcome
  <2> QED
    BY <1>3, <1>fail, <2>1 DEF ReceivePanic
<1>4. ASSUME NEW c \in Call, TimesOut(c) \/ Unreachable(c) \/ Breaks(c)
      PROVE  Remote!Next
  BY <1>4, <1>fail DEF TimesOut, Unreachable, Breaks, Out
<1>5. ASSUME NEW c \in Call, DeadlinePasses(c)
      PROVE  UNCHANGED Remote!cmdVars
  <2>1. Reported[c] = "none" /\ Reported'[c] = "none"
    BY <1>5, ReportedIs DEF DeadlinePasses, Reported, Out, Typed
  <2>2. Reported' = [Reported EXCEPT ![c] = Reported'[c]]
    BY <1>5, ReportedExcept DEF DeadlinePasses
  <2>3. Reported' = Reported
    <3>1. [Reported EXCEPT ![c] = Reported[c]] = Reported
      BY DEF Reported
    <3> QED
      BY <2>1, <2>2, <3>1
  <2> QED
    BY <1>5, <1>map, <2>3 DEF DeadlinePasses, Remote!cmdVars, Reported
<1>6. ASSUME NEW c \in Call, UNCHANGED call, call[c] # "idle", proc[c] = "none",
             proc' = [proc EXCEPT ![c] = "running"]
      PROVE  Remote!Next
  <2>1. Reported[c] # "idle" /\ UNCHANGED Reported
    BY <1>6, ReportedIs DEF Reported, Out, Typed
  <2>2. Remote!Start(c)
    BY <1>6, <2>1 DEF Remote!Start, Reported
  <2> QED
    BY <2>2 DEF Remote!Next
<1>7. ASSUME NEW c \in Call, UNCHANGED call, proc[c] = "running",
             NEW r \in {"ok", "err", "killed"}, proc' = [proc EXCEPT ![c] = r]
      PROVE  Remote!Next
  <2>1. UNCHANGED Reported
    BY <1>7 DEF Reported, Out
  <2>2. Remote!End(c)
    BY <1>7, <2>1 DEF Remote!End, Reported
  <2> QED
    BY <2>2 DEF Remote!Next
<1>8. ASSUME NEW c \in Call, Spawn(c) PROVE Remote!Next
  BY <1>6, <1>8 DEF Spawn, HandlerInv
<1>9. ASSUME NEW c \in Call, CommandEnds(c) PROVE Remote!Next
  BY <1>7, <1>9 DEF CommandEnds
<1>10. ASSUME NEW c \in Call, Expire(c) PROVE [Remote!Next]_(Remote!cmdVars)
  <2>1. CASE proc[c] = "running"
    <3>1. UNCHANGED call /\ proc' = [proc EXCEPT ![c] = "killed"]
      BY <1>10, <2>1 DEF Expire, Killed
    <3> QED
      BY <1>7, <2>1, <3>1
  <2>2. CASE proc[c] # "running"
    <3>1. UNCHANGED <<call, proc>>
      BY <1>10, <2>2 DEF Expire, Killed, Typed
    <3> QED
      BY <3>1, CallStutters
  <2> QED
    BY <2>1, <2>2
<1>11. ASSUME NEW c \in Call, Connect(c) \/ Handle(c) \/ Answer(c)
       PROVE  UNCHANGED Remote!cmdVars
  BY <1>11, CallStutters DEF Connect, Handle, Answer
<1>12. CASE Reconnect \/ (SupNext /\ Around) \/ UNCHANGED vars
  BY <1>12, CallStutters DEF Reconnect, Around, vars, callVars
<1>13. ASSUME NEW p \in Slave, LocalStarts(p) \/ LocalEnds(p)
       PROVE  UNCHANGED Remote!cmdVars
  BY <1>13, CallStutters DEF LocalStarts, LocalEnds, callVars
<1> QED
  BY <1>1, <1>2, <1>3, <1>4, <1>5, <1>8, <1>9, <1>10, <1>11, <1>12, <1>13
     DEF Next, CallNext, ClientStep, ServerStep

\* The call implements what it promises: one command, success only of a
\* command that ended well, and a report that stays (Exec, Run, ExecShell).
THEOREM KeepsPromiseCorrect == Spec => KeepsPromise
<1>1. Init => Remote!Init
  BY DEF Init, Remote!Init, Out
<1> QED
  BY <1>1, InvCorrect, PromiseStep, PTL DEF Spec, KeepsPromise, Remote!Spec

-----------------------------------------------------------------------------
(***************************************************************************)
(* The slaves of a master.  That one stays is not inductive: it needs who  *)
(* may still boot a slave.  All chains but the last one started are over;  *)
(* that one, the front, has at most one slave, and a reload tells it to    *)
(* leave before it starts a new front.                                     *)
(***************************************************************************)
\* The chain started last.
Front == NextChain - 1

\* A slave that is on its way out and has not failed.
Leaves(p) == status[p] \in {"left", "quit"} \/ (Alive(p) /\ Told(p))

\* A chain that will start nothing more.
Over(k) ==
    \/ step[k] = "done"
    \/ step[k] = "wait" /\ cmd[k] \in Slave /\ Leaves(cmd[k])

\* Chains start in turn, and there is one for every reload that may come.
ChainsInTurn ==
    /\ NextChain \in 1..(MaxReloads + 1)
    /\ \A k \in Chain : step[k] = "none" <=> k >= NextChain
    /\ \A k \in Chain : k >= NextChain => cmd[k] = NoProcess
    /\ NextChain + left.reloads <= MaxReloads + 1
    /\ master = "clearing" => NextChain + left.reloads <= MaxReloads

\* What a chain calls its slave has been started.
CmdsStarted == \A k \in Chain : cmd[k] \in Slave => status[cmd[k]] # "new"

\* Nobody has anything to signal for a reload or a stop that is to come.
KillsInTurn ==
    master \in {"up", "clearing"} =>
        /\ kills[0] = <<>>
        /\ \A k \in Chain :
            k > NextChain \/ (k = NextChain /\ master = "up") => kills[k] = <<>>

\* Only the front chain has a slave to go on, and it makes it known; while
\* the list is swapped no slave is to go on.
FrontStays ==
    /\ \A k \in Chain :
        k < Front \/ (k = Front /\ master = "clearing") => Over(k)
    /\ \A p \in Staying :
        /\ p = cmd[Front] /\ master # "clearing"
        /\ p \in Range(slaveList) \/ step[Front] \in {"read", "write"}
    /\ step[Front] = "start" => cmd[Front] \notin {p \in Slave : Alive(p)}

SupInv ==
    /\ ChainsInTurn
    /\ CmdsStarted
    /\ KillsInTurn
    /\ clean => FrontStays

\* The elements of a sequence: the first and the others, or those before the
\* one appended.
LEMMA RangeParts ==
    ASSUME NEW S, NEW s \in Seq(S)
    PROVE  /\ Range(<<>>) = {}
           /\ s # <<>> => Range(s) = {Head(s)} \cup Range(Tail(s))
           /\ \A x \in S : Range(Append(s, x)) = Range(s) \cup {x}
<1>1. Range(<<>>) = {}
  BY DEF Range
<1>2. ASSUME s # <<>> PROVE Range(s) = {Head(s)} \cup Range(Tail(s))
  <2>1. ASSUME NEW i \in DOMAIN s PROVE s[i] \in {Head(s)} \cup Range(Tail(s))
    <3>1. CASE i = 1
      BY <3>1
    <3>2. CASE i # 1
      <4>1. i - 1 \in DOMAIN Tail(s) /\ Tail(s)[i - 1] = s[i]
        BY <1>2, <3>2
      <4> QED
        BY <4>1 DEF Range
    <3> QED
      BY <3>1, <3>2
  <2>2. ASSUME NEW i \in DOMAIN Tail(s) PROVE Tail(s)[i] \in Range(s)
    <3>1. i + 1 \in DOMAIN s /\ s[i + 1] = Tail(s)[i]
      BY <1>2
    <3> QED
      BY <3>1 DEF Range
  <2>3. Head(s) \in Range(s)
    <3>1. 1 \in DOMAIN s /\ s[1] = Head(s)
      BY <1>2
    <3> QED
      BY <3>1 DEF Range
  <2> QED
    BY <2>1, <2>2, <2>3 DEF Range
<1>3. ASSUME NEW x \in S PROVE Range(Append(s, x)) = Range(s) \cup {x}
  <2> DEFINE t == Append(s, x)
  <2>1. /\ DOMAIN t = DOMAIN s \cup {Len(s) + 1}
        /\ \A i \in DOMAIN s : t[i] = s[i]
        /\ t[Len(s) + 1] = x
    OBVIOUS
  <2> HIDE DEF t
  <2>2. Range(t) = Range(s) \cup {x}
    BY <2>1 DEF Range
  <2> QED
    BY <2>2 DEF t
<1> QED
  BY <1>1, <1>2, <1>3

\* The next chain is the first that is not started.
LEMMA NextChainIs ==
    ASSUME NEW n \in 1..(MaxReloads + 1), NEW s,
           \A k \in Chain : s[k] = "none" <=> k >= n
    PROVE  Cardinality({k \in Chain : s[k] # "none"}) = n
<1>1. {k \in Chain : s[k] # "none"} = 0..(n - 1)
  BY SupervisionConstantsOK DEF Chain
<1>2. Cardinality(0..(n - 1)) = n
  BY FS_Interval
<1> QED
  BY <1>1, <1>2

\* A chain that goes on leaves the next one what it is.
LEMMA ChainGoesOn ==
    ASSUME SupTypeOK, NEW k \in Chain, step[k] # "none",
           NEW s, s # "none", Goto(k, s)
    PROVE  /\ NextChain' = NextChain
           /\ step'[k] = s
           /\ \A j \in Chain \ {k} : step'[j] = step[j]
           /\ \A j \in Chain : step'[j] = "none" <=> step[j] = "none"
<1>1. /\ step'[k] = s
      /\ \A j \in Chain \ {k} : step'[j] = step[j]
      /\ \A j \in Chain : step'[j] = "none" <=> step[j] = "none"
  BY DEF Goto, SupTypeOK
<1>2. {j \in Chain : step'[j] # "none"} = {j \in Chain : step[j] # "none"}
  BY <1>1
<1> QED
  BY <1>1, <1>2 DEF NextChain

\* The initial state: the main goroutine is about to start the first slave.
LEMMA SupInvInit == Init => SupInv
<1> SUFFICES ASSUME Init PROVE SupInv
  OBVIOUS
<1> USE SupervisionConstantsOK DEF Init, SupInit
<1>1. \A k \in Chain : step[k] = "none" <=> k >= 1
  BY DEF Chain
<1>2. NextChain = 1
  <2> DEFINE n == 1
  <2>1. n \in 1..(MaxReloads + 1) /\ \A k \in Chain : step[k] = "none" <=> k >= n
    BY <1>1
  <2> HIDE DEF n
  <2>2. Cardinality({k \in Chain : step[k] # "none"}) = n
    BY <2>1, NextChainIs
  <2> QED
    BY <2>2 DEF NextChain, n
<1>3. left.reloads \in 0..MaxReloads
  BY DEF Budget
<1>4. ChainsInTurn
  BY <1>1, <1>2, <1>3 DEF ChainsInTurn
<1>5. KillsInTurn
  BY DEF KillsInTurn, Chain
<1>6. Staying = {} /\ {p \in Slave : Alive(p)} = {}
  BY DEF Staying, Alive
<1>7. FrontStays
  BY <1>2, <1>6 DEF FrontStays, Front, Chain
<1>8. CmdsStarted
  BY DEF CmdsStarted, Slave, NoProcess
<1> QED
  BY <1>4, <1>5, <1>7, <1>8 DEF SupInv

\* With slaves and signals left alone, who leaves and who stays is the same.
LEMMA SlavesAlone ==
    ASSUME UNCHANGED <<status, kills>>
    PROVE  /\ \A p : Leaves(p)' = Leaves(p)
           /\ Staying' = Staying
           /\ \A p : Alive(p)' = Alive(p)
  BY DEF Leaves, Staying, Alive, Ended, Told, Exiting

\* Told slaves stay told, and none is brought back, if no signal is forgotten.
LEMMA StillTold ==
    ASSUME status' = status,
           \A k \in Chain : Range(kills[k]) \subseteq Range(kills'[k])
    PROVE  /\ \A p : Leaves(p) => Leaves(p)'
           /\ Staying' \subseteq Staying
           /\ \A p : Alive(p)' => Alive(p)
<1>1. \A p : Told(p) => Told(p)'
  BY DEF Told, Exiting
<1>2. \A p : Alive(p)' = Alive(p)
  BY DEF Alive, Ended
<1> QED
  BY <1>1, <1>2 DEF Leaves, Staying

\* A signal sent in a clean run: the slave it reaches is still told.
LEMMA KillTells ==
    ASSUME SupTypeOK, NEW k \in Chain, Kill(k), clean'
    PROVE  /\ \A p \in Slave : Leaves(p) => Leaves(p)'
           /\ Staying' \subseteq Staying
           /\ \A p \in Slave : Alive(p)' => Alive(p)
           /\ kills'[k] = Tail(kills[k])
           /\ \A j \in Chain \ {k} : kills'[j] = kills[j]
           /\ master' \in {master, "gone"}
           /\ clean
<1>0. PICK h \in Cmd : h = Head(kills[k])
  BY DEF Kill, SupTypeOK
<1>1. /\ kills[k] \in Seq(Cmd) /\ kills[k] # <<>>
      /\ kills'[k] = Tail(kills[k])
      /\ \A j \in Chain \ {k} : kills'[j] = kills[j]
  BY DEF Kill, SupTypeOK
<1>2. Range(kills[k]) = {h} \cup Range(kills'[k])
  BY <1>0, <1>1, RangeParts
<1>3. /\ master' \in {master, "gone"} /\ clean
      /\ h # NoProcess => /\ status' = [status EXCEPT ![h] = Interrupted(h)]
                          /\ status[h] # "booting"
      /\ h = NoProcess => status' = status
  BY <1>0 DEF Kill
<1>4. \A p \in Slave : p # h => (Told(p)' <=> Told(p)) /\ status'[p] = status[p]
  <2> SUFFICES ASSUME NEW p \in Slave, p # h
               PROVE  (Told(p)' <=> Told(p)) /\ status'[p] = status[p]
    OBVIOUS
  <2>1. status'[p] = status[p]
    BY <1>3 DEF SupTypeOK
  <2>2. \A j \in Chain : p \in Range(kills'[j]) <=> p \in Range(kills[j])
    BY <1>1, <1>2
  <2> QED
    BY <2>1, <2>2 DEF Told, Exiting
<1>5. h \in Slave =>
        /\ status[h] = "serving" => status'[h] = "draining"
        /\ status[h] # "serving" => status'[h] = status[h]
        /\ status[h] # "booting"
  <2> SUFFICES ASSUME h \in Slave
               PROVE  /\ status[h] = "serving" => status'[h] = "draining"
                      /\ status[h] # "serving" => status'[h] = status[h]
                      /\ status[h] # "booting"
    OBVIOUS
  <2>1. h # NoProcess
    BY SupervisionConstantsOK DEF Slave, NoProcess
  <2>2. status'[h] = Interrupted(h) /\ status[h] # "booting"
    BY <1>3, <2>1 DEF SupTypeOK
  <2> QED
    BY <2>2 DEF Interrupted
<1>6. \A p \in Slave : Alive(p)' <=> Alive(p)
  BY <1>4, <1>5 DEF Alive, Ended
<1>7. h \in Slave /\ Alive(h) => Told(h)'
  BY <1>5 DEF Alive, Ended, Told, Exiting, SupTypeOK, Status
<1>8. \A p \in Slave : Leaves(p) => Leaves(p)'
  BY <1>4, <1>5, <1>6, <1>7 DEF Leaves
<1>9. Staying' \subseteq Staying
  BY <1>4, <1>6, <1>7 DEF Staying
<1> QED
  BY <1>1, <1>3, <1>6, <1>8, <1>9

\* A slave's step in a clean run: told slaves leave, and none comes back.
LEMMA SlaveLeaves ==
    ASSUME SupTypeOK, NEW p \in Slave, SlaveStep(p) \/ Crash(p) \/ Quits(p),
           clean'
    PROVE  /\ \A q \in Slave : Leaves(q) => Leaves(q)'
           /\ Staying' \subseteq Staying
           /\ \A q \in Slave : Alive(q)' => Alive(q)
           /\ clean
<1>1. /\ kills' = kills /\ clean
      /\ \A q \in Slave \ {p} : status'[q] = status[q]
      /\ \/ status[p] = "booting" /\ status'[p] = "serving"
         \/ /\ status[p] \in {"draining", "waiting", "woken", "leaving"}
            /\ status'[p] \in {"waiting", "woken", "leaving", "left"}
         \/ Alive(p) /\ status'[p] = "failed" /\ ~ Told(p)
         \/ Alive(p) /\ status'[p] = "quit"
  BY DEF SlaveStep, Ready, FindsNone, Waits, Woken, Drained, Reused, Exit,
         Crash, Quits, Goes, Alive, Exiting, Ended, SupTypeOK
<1>2. \A q \in Slave \ {p} : /\ (Told(q)' <=> Told(q))
                            /\ (Alive(q)' <=> Alive(q))
                            /\ (Leaves(q)' <=> Leaves(q))
  BY <1>1 DEF Told, Exiting, Alive, Ended, Leaves
<1>3. Leaves(p) => Leaves(p)'
  BY <1>1 DEF Told, Exiting, Alive, Ended, Leaves
<1>4. Alive(p)' => Alive(p) /\ (Told(p) => Told(p)')
  BY <1>1 DEF Told, Exiting, Alive, Ended
<1> QED
  BY <1>1, <1>2, <1>3, <1>4 DEF Staying

\* No slave is new again, and a started chain has a slave that is started.
LEMMA StartedStays ==
    ASSUME SupTypeOK, CmdsStarted, SupNext
    PROVE  CmdsStarted'
<1> USE DEF CmdsStarted, SupTypeOK
<1>1. ASSUME NEW k \in Chain, Start(k) PROVE CmdsStarted'
  BY <1>1 DEF Start
<1>2. ASSUME NEW k \in Chain, StartFails(k) PROVE CmdsStarted'
  BY <1>2, SupervisionConstantsOK DEF StartFails, NoProcess, Slave
<1>3. ASSUME NEW k \in Chain, AppendReads(k) \/ AppendWrites(k) \/ Wait(k)
      PROVE  CmdsStarted'
  BY <1>3 DEF AppendReads, AppendWrites, Wait
<1>4. ASSUME NEW k \in Chain, Kill(k) PROVE CmdsStarted'
  BY <1>4 DEF Kill, Interrupted
<1>5. CASE ReloadReads \/ ReloadClears \/ Stop \/ StopEnds
  BY <1>5 DEF ReloadReads, ReloadClears, Stop, StopEnds
<1>6. ASSUME NEW p \in Slave, SlaveStep(p) \/ Crash(p) \/ Quits(p)
      PROVE  CmdsStarted'
  BY <1>6 DEF SlaveStep, Ready, FindsNone, Waits, Woken, Drained, Reused, Exit,
              Crash, Quits, Goes
<1> QED
  BY <1>1, <1>2, <1>3, <1>4, <1>5, <1>6 DEF SupNext, ChainStep

\* A step that moves no chain and leaves the list alone keeps what is said of
\* the front, if it only makes slaves leave.
LEMMA FrontKept ==
    ASSUME FrontStays, UNCHANGED <<step, cmd, slaveList>>,
           \A p \in Slave : Leaves(p) => Leaves(p)',
           Staying' \subseteq Staying,
           \A p \in Slave : Alive(p)' => Alive(p),
           master' = "clearing" => master = "clearing"
    PROVE  FrontStays'
<1>1. NextChain' = NextChain /\ Front' = Front
  BY DEF NextChain, Front
<1>2. \A k \in Chain : Over(k) => Over(k)'
  BY DEF Over
<1> QED
  BY <1>1, <1>2 DEF FrontStays

\* Who starts or records a slave is the front, and not inside a reload.
LEMMA OnlyFront ==
    ASSUME SupTypeOK, SupInv, clean, NEW k \in Chain,
           step[k] \in {"start", "read", "write"}
    PROVE  k = Front /\ master # "clearing"
<1>1. k < NextChain /\ NextChain \in Nat /\ k \in Nat
  BY DEF SupInv, ChainsInTurn, Chain
<1>2. ~ Over(k)
  BY DEF Over
<1> QED
  BY <1>1, <1>2 DEF SupInv, FrontStays, Front

\* The chains stay in turn while one of them goes on.
LEMMA TurnKept ==
    ASSUME SupTypeOK, SupInv, NEW k \in Chain, step[k] # "none",
           NEW s, s # "none", Goto(k, s),
           \A j \in Chain \ {k} : cmd'[j] = cmd[j],
           left'.reloads = left.reloads,
           UNCHANGED <<master, kills>>
    PROVE  ChainsInTurn' /\ KillsInTurn'
<1>1. /\ NextChain' = NextChain
      /\ \A j \in Chain : step'[j] = "none" <=> step[j] = "none"
  BY ChainGoesOn
<1>2. ~ (k >= NextChain)
  BY DEF SupInv, ChainsInTurn
<1>3. ChainsInTurn'
  BY <1>1, <1>2 DEF SupInv, ChainsInTurn
<1>4. KillsInTurn'
  BY <1>1 DEF SupInv, KillsInTurn
<1> QED
  BY <1>3, <1>4

\* The chains stay in turn while none of them moves.
LEMMA TurnFrame ==
    ASSUME SupInv, UNCHANGED <<step, cmd>>, left'.reloads = left.reloads,
           master' = "clearing" => master = "clearing"
    PROVE  ChainsInTurn' /\ NextChain' = NextChain
<1>1. NextChain' = NextChain
  BY DEF NextChain
<1> QED
  BY <1>1 DEF SupInv, ChainsInTurn

-----------------------------------------------------------------------------
\* The steps of a chain keep the invariant.
LEMMA ChainKeeps ==
    ASSUME SupTypeOK, SupInv, CmdsStarted', NEW k \in Chain,
           ChainStep(k) \/ StartFails(k)
    PROVE  SupInv'
<1> USE DEF SupTypeOK
<1>0. Front \in Int /\ NextChain \in Int /\ Front \in Chain
  BY SupervisionConstantsOK DEF SupInv, ChainsInTurn, Front, Chain
<1>1. CASE Start(k)
  <2>1. PICK p \in Slave :
            /\ \A q \in Slave : status[q] = "new" <=> q >= p
            /\ status' = [status EXCEPT ![p] = "booting"]
            /\ cmd' = [cmd EXCEPT ![k] = p]
    BY <1>1 DEF Start
  <2>2. /\ step[k] = "start" /\ Goto(k, "read")
        /\ UNCHANGED <<master, slaveList, seen, kills, clean, left>>
    BY <1>1 DEF Start
  <2>3. ChainsInTurn' /\ KillsInTurn'
    BY <2>1, <2>2, TurnKept
  <2>4. ASSUME clean
        PROVE  FrontStays'
    <3>1. k = Front /\ master # "clearing" /\ FrontStays
      BY <2>2, <2>4, OnlyFront DEF SupInv
    <3>2. /\ NextChain' = NextChain /\ Front' = Front /\ step'[k] = "read"
          /\ \A j \in Chain \ {k} : step'[j] = step[j]
      BY <2>2, ChainGoesOn DEF Front
    <3>3. status[p] = "new"
      BY <2>1 DEF Slave
    <3>4. \A q \in Slave : /\ q # p => status'[q] = status[q]
                           /\ Leaves(q) => Leaves(q)'
      BY <2>1, <2>2, <3>3 DEF Leaves, Alive, Ended, Told, Exiting
    <3>5. Staying' \subseteq Staying \cup {p}
      BY <2>1, <2>2, <3>4 DEF Staying, Alive, Ended, Told, Exiting
    <3>6. Staying = {}
      BY <2>2, <3>1 DEF FrontStays, Staying
    <3>7. \A j \in Chain : j < Front => Over(j)'
      <4> SUFFICES ASSUME NEW j \in Chain, j < Front PROVE Over(j)'
        OBVIOUS
      <4>1. Over(j) /\ j # k
        BY <1>0, <3>1 DEF FrontStays
      <4>2. cmd'[j] = cmd[j] /\ step'[j] = step[j]
        BY <2>1, <3>2, <4>1
      <4> QED
        BY <3>4, <4>1, <4>2 DEF Over
    <3>8. cmd'[Front] = p
      BY <2>1, <3>1
    <3> QED
      BY <2>2, <3>1, <3>2, <3>5, <3>6, <3>7, <3>8 DEF FrontStays
  <2> QED
    BY <2>2, <2>3, <2>4 DEF SupInv
<1>2. ASSUME step[k] \in {"start", "read", "write"}, NEW s, Goto(k, s),
             s \in {"read", "write", "wait"},
             UNCHANGED <<master, kills, status, clean>>,
             left'.reloads = left.reloads,
             \A j \in Chain \ {k} : cmd'[j] = cmd[j],
             step[k] = "start" \/ cmd'[k] = cmd[k],
             \/ slaveList' = slaveList /\ s # "wait"
             \/ cmd[k] \in Range(slaveList')
      PROVE  SupInv'
  <2>1. ChainsInTurn' /\ KillsInTurn'
    BY <1>2, TurnKept
  <2>2. ASSUME clean
        PROVE  FrontStays'
    <3>1. k = Front /\ master # "clearing" /\ FrontStays
      BY <1>2, <2>2, OnlyFront DEF SupInv
    <3>2. /\ NextChain' = NextChain /\ Front' = Front /\ step'[k] = s
          /\ \A j \in Chain \ {k} : step'[j] = step[j]
      BY <1>2, ChainGoesOn DEF Front
    <3>3. /\ \A p : Leaves(p)' = Leaves(p)
          /\ Staying' = Staying
      BY <1>2, SlavesAlone
    <3>4. \A j \in Chain : j < Front => Over(j)'
      <4> SUFFICES ASSUME NEW j \in Chain, j < Front PROVE Over(j)'
        OBVIOUS
      <4>1. Over(j) /\ j # k
        BY <1>0, <3>1 DEF FrontStays
      <4>2. cmd'[j] = cmd[j] /\ step'[j] = step[j]
        BY <1>2, <3>2, <4>1
      <4> QED
        BY <3>3, <4>1, <4>2 DEF Over
    <3>5. step[k] = "start" => Staying = {}
      BY <3>1 DEF FrontStays, Staying
    <3>6. \A p \in Staying : /\ p = cmd'[Front]
                             /\ p \in Range(slaveList') \/ s \in {"read", "write"}
      BY <1>2, <3>1, <3>5 DEF FrontStays
    <3> QED
      BY <1>2, <3>1, <3>2, <3>3, <3>4, <3>6 DEF FrontStays
  <2> QED
    BY <1>2, <2>1, <2>2 DEF SupInv
<1>3. CASE StartFails(k)
  <2>1. /\ step[k] = "start" /\ Goto(k, "read")
        /\ UNCHANGED <<master, slaveList, seen, kills, status, clean>>
        /\ \A j \in Chain \ {k} : cmd'[j] = cmd[j]
        /\ left'.reloads = left.reloads
    BY <1>3 DEF StartFails, Spend, Budget
  <2> QED
    BY <1>2, <2>1
<1>4. CASE AppendReads(k)
  BY <1>2, <1>4 DEF AppendReads
<1>5. CASE AppendWrites(k)
  <2>1. /\ seen[k] \in Seq(Cmd) /\ cmd[k] \in Cmd
        /\ slaveList' = Append(seen[k], cmd[k])
    BY <1>5 DEF AppendWrites
  <2>2. cmd[k] \in Range(slaveList')
    BY <2>1, RangeParts
  <2> QED
    BY <1>2, <1>5, <2>2 DEF AppendWrites
<1>6. CASE Wait(k)
  <2>1. /\ step[k] = "wait" /\ Goto(k, AfterWait(k))
        /\ cmd[k] \in Slave => Ended(cmd[k])
        /\ AfterWait(k) \in {"start", "done"}
        /\ UNCHANGED <<master, slaveList, cmd, seen, kills, status, clean, left>>
    BY <1>6 DEF Wait, AfterWait
  <2>2. ChainsInTurn' /\ KillsInTurn'
    BY <2>1, TurnKept
  <2>3. ASSUME clean
        PROVE  FrontStays'
    <3>1. FrontStays
      BY <2>3 DEF SupInv
    <3>2. /\ NextChain' = NextChain /\ Front' = Front
          /\ step'[k] = AfterWait(k)
          /\ \A j \in Chain \ {k} : step'[j] = step[j]
      BY <2>1, ChainGoesOn DEF Front
    <3>3. /\ \A p : Leaves(p)' = Leaves(p)
          /\ Staying' = Staying
          /\ \A p : Alive(p)' = Alive(p)
      BY <2>1, SlavesAlone
    <3>4. Over(k) => AfterWait(k) = "done"
      BY <2>1 DEF Over, Leaves, AfterWait, Ended, Alive, NoProcess, Slave
    <3>5. \A j \in Chain : Over(j) => Over(j)'
      BY <2>1, <3>2, <3>3, <3>4 DEF Over
    <3>6. AfterWait(k) = "start" => cmd[k] \notin {p \in Slave : Alive(p)}
      BY <2>1 DEF Ended, Alive
    <3>7. \A p \in Staying : k = Front => p \in Range(slaveList)
      BY <2>1, <3>1 DEF FrontStays
    <3>8. step'[Front] = "start" => cmd[Front] \notin {p \in Slave : Alive(p)}
      BY <3>1, <3>2, <3>6, <1>0 DEF FrontStays
    <3>9. \A p \in Staying :
            /\ p = cmd[Front] /\ master # "clearing"
            /\ p \in Range(slaveList) \/ step'[Front] \in {"read", "write"}
      BY <1>0, <3>1, <3>2, <3>7 DEF FrontStays
    <3>10. {p \in Slave : Alive(p)}' = {p \in Slave : Alive(p)}
      BY <3>3
    <3> QED
      BY <2>1, <3>1, <3>2, <3>3, <3>5, <3>8, <3>9, <3>10 DEF FrontStays
  <2> QED
    BY <2>1, <2>2, <2>3 DEF SupInv
<1> QED
  BY <1>1, <1>3, <1>4, <1>5, <1>6 DEF ChainStep

-----------------------------------------------------------------------------
\* The steps of the signal goroutine keep the invariant.
LEMMA SignalKeeps ==
    ASSUME SupTypeOK, SupInv, CmdsStarted',
           ReloadReads \/ ReloadClears \/ Stop \/ StopEnds
    PROVE  SupInv'
<1> USE DEF SupTypeOK
<1>n. PICK n \in 1..(MaxReloads + 1) : n = NextChain
  BY DEF SupInv, ChainsInTurn
<1>t. /\ Chain = 0..MaxReloads /\ n \in Int
      /\ \A k \in Chain : k \in Int
      /\ \A k \in Chain : step[k] = "none" <=> k >= n
      /\ \A k \in Chain : k >= n => cmd[k] = NoProcess
      /\ \A k \in Chain :
            (k > n /\ master \in {"up", "clearing"}) \/ (k = n /\ master = "up")
                => kills[k] = <<>>
  <2>1. /\ Chain = 0..MaxReloads /\ n \in Int
        /\ \A k \in Chain : k \in Int
    BY SupervisionConstantsOK DEF Chain
  <2>2. /\ \A k \in Chain : step[k] = "none" <=> k >= n
        /\ \A k \in Chain : k >= n => cmd[k] = NoProcess
    BY <1>n DEF SupInv, ChainsInTurn
  <2>3. ASSUME master \in {"up", "clearing"}
        PROVE  \A k \in Chain :
                  k > n \/ (k = n /\ master = "up") => kills[k] = <<>>
    BY <1>n, <2>3 DEF SupInv, KillsInTurn
  <2> QED
    BY <2>1, <2>2, <2>3
<1>0. /\ n \in 1..(MaxReloads + 1) /\ MaxReloads \in Nat
      /\ Front = n - 1 /\ Front \in Chain
      /\ left.reloads \in Nat
      /\ n + left.reloads <= MaxReloads + 1
      /\ master = "clearing" => n + left.reloads <= MaxReloads
  BY <1>n, SupervisionConstantsOK DEF SupInv, ChainsInTurn, Front, Chain, Budget
<1>1. CASE ReloadReads
  <2>1. /\ master = "up" /\ master' = "clearing"
        /\ left.reloads > 0 /\ left'.reloads = left.reloads - 1
        /\ kills' = [kills EXCEPT ![n] = slaveList]
        /\ clean' = (clean /\ \A k \in Chain : Waiting(k))
        /\ UNCHANGED <<slaveList, step, cmd, seen, status>>
    BY <1>1, <1>n DEF ReloadReads, Spend, OldSlaves, Budget
  <2>2. n \in Chain /\ n # 0
    BY <1>0, <2>1 DEF Chain
  <2>3. /\ kills[n] = <<>> /\ kills'[n] = slaveList
        /\ \A k \in Chain \ {n} : kills'[k] = kills[k]
    BY <1>0, <1>t, <2>1, <2>2
  <2>4. NextChain' = n /\ Front' = Front
    BY <1>n, <2>1 DEF NextChain, Front
  <2>5. ChainsInTurn'
    <3>1. n + left'.reloads <= MaxReloads
      BY <1>0, <2>1
    <3>2. n + left'.reloads <= MaxReloads + 1
      BY <1>0, <2>1
    <3>3. \A k \in Chain : step'[k] = "none" <=> k >= n
      BY <1>t, <2>1
    <3>4. \A k \in Chain : k >= n => cmd'[k] = NoProcess
      BY <1>t, <2>1
    <3> QED
      BY <1>0, <2>4, <3>1, <3>2, <3>3, <3>4 DEF ChainsInTurn
  <2>6. KillsInTurn'
    <3>1. kills'[0] = <<>>
      BY <2>1, <2>2, <2>3, SupervisionConstantsOK DEF SupInv, KillsInTurn, Chain
    <3>2. \A k \in Chain : k > n => kills'[k] = <<>>
      <4> SUFFICES ASSUME NEW k \in Chain, k > n PROVE kills'[k] = <<>>
        OBVIOUS
      <4>1. k # n /\ kills[k] = <<>>
        BY <1>t, <2>1
      <4> QED
        BY <2>3, <4>1
    <3> QED
      BY <2>1, <2>4, <3>1, <3>2 DEF KillsInTurn
  <2>7. ASSUME clean'
        PROVE  FrontStays'
    <3>1. FrontStays /\ Waiting(Front)
      BY <1>0, <2>1, <2>7 DEF SupInv
    <3>2. \A k \in Chain : Range(kills[k]) \subseteq Range(kills'[k])
      BY <2>3, RangeParts
    <3>3. /\ \A p : Leaves(p) => Leaves(p)'
          /\ Staying' \subseteq Staying
      BY <2>1, <3>2, StillTold
    <3>4. \A p \in Range(slaveList) : Told(p)'
      BY <2>2, <2>3 DEF Told
    <3>5. \A p \in Staying : p \in Range(slaveList)
      BY <3>1 DEF FrontStays, Waiting
    <3>6. Staying' = {}
      BY <3>3, <3>4, <3>5 DEF Staying
    <3>7. \A k \in Chain : k < Front => Over(k)'
      BY <2>1, <3>1, <3>3 DEF FrontStays, Over
    <3>8. Over(Front)'
      <4>1. step[Front] # "none"
        BY <1>0, <1>t
      <4>2. CASE step[Front] = "done"
        BY <2>1, <2>4, <4>2 DEF Over
      <4>3. CASE /\ step[Front] = "wait" /\ cmd[Front] \in Slave
                 /\ ~ Ended(cmd[Front])
        <5>1. PICK p \in Slave : p = cmd[Front]
          BY <4>3
        <5>2. Alive(p) /\ Alive(p)'
          BY <1>0, <2>1, <4>3, <5>1 DEF Alive, Ended, SupInv, CmdsStarted
        <5>3. Told(p)'
          BY <3>6, <5>2 DEF Staying
        <5>4. Leaves(p)'
          BY <5>2, <5>3 DEF Leaves
        <5> QED
          BY <2>1, <2>4, <4>3, <5>1, <5>4 DEF Over
      <4> QED
        BY <3>1, <4>1, <4>2, <4>3 DEF Waiting
    <3>9. step[Front] # "start"
      BY <3>1 DEF Waiting
    <3> QED
      BY <2>1, <2>4, <3>6, <3>7, <3>8, <3>9 DEF FrontStays
  <2> QED
    BY <2>5, <2>6, <2>7 DEF SupInv
<1>2. CASE ReloadClears
  <2>1. /\ master = "clearing" /\ master' = "up" /\ slaveList' = <<>>
        /\ step' = [step EXCEPT ![n] = "start"]
        /\ UNCHANGED <<cmd, seen, kills, status, clean, left>>
    BY <1>2, <1>n DEF ReloadClears, Goto
  <2>2. n \in Chain /\ n + 1 \in 1..(MaxReloads + 1)
    BY <1>0, <2>1 DEF Chain
  <2>3. /\ step'[n] = "start"
        /\ \A k \in Chain \ {n} : step'[k] = step[k]
    BY <2>1, <2>2
  <2>4. \A k \in Chain : step'[k] = "none" <=> k >= n + 1
    <3> SUFFICES ASSUME NEW k \in Chain
                 PROVE  step'[k] = "none" <=> k >= n + 1
      OBVIOUS
    <3>1. CASE k = n
      BY <1>t, <2>3, <3>1
    <3>2. CASE k # n
      <4>1. step'[k] = step[k]
        BY <2>3, <3>2
      <4>2. k >= n <=> k >= n + 1
        BY <1>t, <3>2
      <4> QED
        BY <1>t, <4>1, <4>2
    <3> QED
      BY <3>1, <3>2
  <2>5. NextChain' = n + 1 /\ Front' = n
    <3>1. PICK x \in 1..(MaxReloads + 1) : x = n + 1
      BY <2>2
    <3>2. PICK s : s = step'
      OBVIOUS
    <3>3. \A k \in Chain : s[k] = "none" <=> k >= x
      BY <2>4, <3>1, <3>2
    <3>4. Cardinality({k \in Chain : s[k] # "none"}) = x
      BY <3>3, NextChainIs
    <3>5. NextChain' = n + 1
      BY <3>1, <3>2, <3>4 DEF NextChain
    <3> QED
      BY <1>0, <3>5 DEF Front
  <2>6. ChainsInTurn'
    <3>1. \A k \in Chain : k >= n + 1 => cmd'[k] = NoProcess
      BY <1>t, <2>1
    <3> QED
      BY <1>0, <2>1, <2>2, <2>4, <2>5, <3>1 DEF ChainsInTurn
  <2>7. KillsInTurn'
    <3>1. kills'[0] = <<>>
      BY <2>1 DEF SupInv, KillsInTurn
    <3>2. \A k \in Chain : k >= n + 1 => kills'[k] = <<>>
      BY <1>t, <2>1
    <3> QED
      BY <1>t, <2>1, <2>5, <3>1, <3>2 DEF KillsInTurn
  <2>8. ASSUME clean
        PROVE  FrontStays'
    <3>1. FrontStays
      BY <2>8 DEF SupInv
    <3>2. /\ \A p : Leaves(p)' = Leaves(p)
          /\ Staying' = Staying
      BY <2>1, SlavesAlone
    <3>3. Staying' = {}
      BY <2>1, <3>1, <3>2 DEF FrontStays
    <3>4. \A k \in Chain : k < n => Over(k)'
      <4> SUFFICES ASSUME NEW k \in Chain, k < n PROVE Over(k)'
        OBVIOUS
      <4>1. Over(k) /\ k # n
        <5>1. k < Front \/ k = Front
          BY <1>0, <1>t
        <5> QED
          BY <1>t, <2>1, <3>1, <5>1 DEF FrontStays
      <4> QED
        BY <2>1, <2>3, <3>2, <4>1 DEF Over
    <3>5. cmd'[n] \notin Slave
      <4>1. cmd'[n] = NoProcess
        BY <1>t, <2>1, <2>2
      <4> QED
        BY <4>1 DEF NoProcess, Slave
    <3> QED
      BY <2>1, <2>5, <3>3, <3>4, <3>5 DEF FrontStays
  <2> QED
    BY <2>1, <2>6, <2>7, <2>8 DEF SupInv
<1>3. CASE Stop
  <2>1. /\ master = "up" /\ master' = "stopping"
        /\ kills' = [kills EXCEPT ![0] = slaveList]
        /\ left'.reloads = left.reloads
        /\ UNCHANGED <<slaveList, step, cmd, seen, status, clean>>
    BY <1>3 DEF Stop, Spend, Budget
  <2>2. ChainsInTurn' /\ KillsInTurn'
    BY <2>1, TurnFrame DEF KillsInTurn
  <2>3. \A k \in Chain : Range(kills[k]) \subseteq Range(kills'[k])
    <3>1. kills[0] = <<>> /\ \A k \in Chain \ {0} : kills'[k] = kills[k]
      BY <2>1 DEF SupInv, KillsInTurn
    <3> QED
      BY <3>1, RangeParts
  <2>4. clean => FrontStays'
    BY <2>1, <2>3, StillTold, FrontKept DEF SupInv
  <2> QED
    BY <2>1, <2>2, <2>4 DEF SupInv
<1>4. CASE StopEnds
  <2>1. /\ master' = "gone"
        /\ UNCHANGED <<slaveList, step, cmd, seen, kills, status, clean, left>>
    BY <1>4 DEF StopEnds
  <2>2. ChainsInTurn' /\ KillsInTurn'
    BY <2>1, TurnFrame DEF KillsInTurn
  <2>3. clean => FrontStays'
    BY <2>1, SlavesAlone, FrontKept DEF SupInv
  <2> QED
    BY <2>1, <2>2, <2>3 DEF SupInv
<1> QED
  BY <1>1, <1>2, <1>3, <1>4

\* Every step of the supervision keeps the invariant.
LEMMA SupervisionKeeps ==
    ASSUME SupTypeOK, SupInv, SupNext
    PROVE  SupInv'
<1>0. CmdsStarted'
  BY StartedStays DEF SupInv
<1>1. ASSUME NEW k \in Chain, ChainStep(k) \/ StartFails(k) PROVE SupInv'
  BY <1>0, <1>1, ChainKeeps
<1>2. ASSUME NEW k \in Chain, Kill(k) PROVE SupInv'
  <2>1. /\ UNCHANGED <<slaveList, step, cmd, left>>
        /\ master' \in {master, "gone"}
        /\ kills[k] # <<>>
        /\ \A j \in Chain \ {k} : kills'[j] = kills[j]
    BY <1>2 DEF Kill, SupTypeOK
  <2>2. ChainsInTurn' /\ NextChain' = NextChain
    BY <2>1, TurnFrame
  <2>3. KillsInTurn'
    BY <2>1, <2>2, SupervisionConstantsOK DEF SupInv, KillsInTurn, Chain
  <2>4. clean' => FrontStays'
    BY <1>2, <2>1, KillTells, FrontKept DEF SupInv
  <2> QED
    BY <1>0, <2>2, <2>3, <2>4 DEF SupInv
<1>3. CASE ReloadReads \/ ReloadClears \/ Stop \/ StopEnds
  BY <1>0, <1>3, SignalKeeps
<1>4. ASSUME NEW p \in Slave, SlaveStep(p) \/ Crash(p) \/ Quits(p) PROVE SupInv'
  <2>1. /\ UNCHANGED <<master, slaveList, step, cmd, kills>>
        /\ left'.reloads = left.reloads
    BY <1>4 DEF SlaveStep, Ready, FindsNone, Waits, Woken, Drained, Reused,
                Exit, Crash, Quits, Goes, Spend, SupTypeOK, Budget
  <2>2. ChainsInTurn' /\ NextChain' = NextChain
    BY <2>1, TurnFrame
  <2>3. KillsInTurn'
    BY <2>1, <2>2 DEF SupInv, KillsInTurn
  <2>4. clean' => FrontStays'
    BY <1>4, <2>1, SlaveLeaves, FrontKept DEF SupInv
  <2> QED
    BY <1>0, <2>2, <2>3, <2>4 DEF SupInv
<1> QED
  BY <1>1, <1>2, <1>3, <1>4 DEF SupNext

\* A call leaves master and slaves alone.
LEMMA CallLeavesSlaves ==
    ASSUME SupTypeOK, CallNext
    PROVE  /\ UNCHANGED <<master, slaveList, step, cmd, kills, status, clean>>
           /\ left'.reloads = left.reloads
<1>1. ASSUME NEW c \in Call, Breaks(c)
      PROVE  /\ UNCHANGED <<master, slaveList, step, cmd, kills, status, clean>>
             /\ left'.reloads = left.reloads
  BY <1>1 DEF Breaks, Spend, SupTypeOK, Budget
<1>2. ASSUME NEW c \in Call,
             \/ Begin(c) \/ ClientStep(c) \/ ServerStep(c)
             \/ DeadlinePasses(c) \/ CommandEnds(c)
      PROVE  UNCHANGED supVars
  BY <1>2 DEF nodeVars, Begin, ClientStep, ServerStep, DeadlinePasses, CommandEnds,
              Connect, Receive, ReceivePanic, TimesOut, Unreachable,
              Handle, Spawn, Answer, Expire
<1>3. CASE Reconnect
  BY <1>3 DEF Reconnect, nodeVars, supVars
<1>4. ASSUME NEW p \in Slave, LocalStarts(p) \/ LocalEnds(p)
      PROVE  /\ UNCHANGED <<master, slaveList, step, cmd, kills, status, clean>>
             /\ left'.reloads = left.reloads
  BY <1>4 DEF LocalStarts, LocalEnds, Spend, SupTypeOK, Budget, supVars
<1> QED
  BY <1>1, <1>2, <1>3, <1>4 DEF CallNext, supVars

\* The invariant holds beside the calls the slaves serve.
LEMMA SupInvCorrect == Spec => []SupInv
<1>1. SupTypeOK /\ SupInv /\ [Next]_vars => SupInv'
  <2> SUFFICES ASSUME SupTypeOK, SupInv, [Next]_vars PROVE SupInv'
    OBVIOUS
  <2>1. CASE SupNext
    BY <2>1, SupervisionKeeps
  <2>2. ASSUME UNCHANGED <<master, slaveList, step, cmd, kills, status, clean>>,
               left'.reloads = left.reloads
        PROVE  SupInv'
    <3>1. ChainsInTurn' /\ NextChain' = NextChain
      BY <2>2, TurnFrame
    <3>2. KillsInTurn' /\ CmdsStarted'
      BY <2>2, <3>1 DEF SupInv, KillsInTurn, CmdsStarted
    <3>3. clean => FrontStays'
      BY <2>2, SlavesAlone, FrontKept DEF SupInv
    <3> QED
      BY <2>2, <3>1, <3>2, <3>3 DEF SupInv
  <2> QED
    BY <2>1, <2>2, CallLeavesSlaves DEF Next, vars, nodeVars, supVars
<1>2. Inv => SupTypeOK
  BY DEF Inv, Typed
<1> QED
  BY <1>1, <1>2, SupInvInit, InvCorrect, PTL DEF Spec

\* A reload that finds its slaves running leaves one slave to go on, which the
\* master knows, for any number of reloads, slaves and crashes, and however
\* appends and the swap of slaveList interleave (bootSlave, Reload).
THEOREM OneSlaveStaysCorrect == Spec => []OneSlaveStays
<1>1. SupInv => OneSlaveStays
  <2> SUFFICES ASSUME SupInv, clean, NEW p \in Staying
               PROVE  Staying = {p} /\ Known(p)
    BY DEF OneSlaveStays
  <2>1. /\ \A q \in Staying : q = cmd[Front]
        /\ p \in Range(slaveList) \/ step[Front] \in {"read", "write"}
    BY DEF SupInv, FrontStays
  <2>2. Front \in Chain
    BY SupervisionConstantsOK DEF SupInv, ChainsInTurn, Front, Chain
  <2> QED
    BY <2>1, <2>2 DEF Known
<1> QED
  BY <1>1, SupInvCorrect, PTL
=============================================================================
