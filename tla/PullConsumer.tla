---------------------------- MODULE PullConsumer ----------------------------
(***************************************************************************)
(* The queue of one node: LoopPull and ConsumeWithPull of mq/rocketmq.go   *)
(* with the handler of listen/queue.go.                                    *)
(*                                                                         *)
(* A listener goroutine reads the topic's offset from the KV store, pulls  *)
(* one message from every message queue of the topic with that offset,    *)
(* writes the next offset back and only then runs the message's job.       *)
(*                                                                         *)
(* A slave that boots puts its queue into ays_queue_list (AddQueue), looks *)
(* whether it is there (QueueExists) and only then starts a listener; one  *)
(* that is told to leave takes the queue out first (DelQueue).  The two    *)
(* slaves of a reload do so at the same time and under the same name.  A   *)
(* type 2 request of a manager starts a listener whatever the list says;   *)
(* nothing keeps two listeners of a topic, in one slave or in two, from    *)
(* working at the same time.  The group of the node is taken to have MQ    *)
(* jobs; the list with its other queues is QueueRegistry's business.       *)
(*                                                                         *)
(* The broker is external: a queue is a number of messages, a pull with an *)
(* offset below it returns that message and the next offset.               *)
(***************************************************************************)
EXTENDS Naturals, FiniteSets

CONSTANTS
    Proc,           \* node slave incarnations
    Listener,       \* ListenQueue goroutines
    HostOf,         \* the slave a goroutine belongs to
    NumQueues,      \* message queues of the topic
    MaxSent,        \* bound: messages sent
    MaxErrors,      \* bound: failing reads, writes, pulls and starts
    MaxRewrites,    \* bound: writes of the queue list by others
    MaxCrashes,     \* bound: crashing slaves
    MaxReloads      \* bound: reloads, which make two slaves overlap

Queue == 1..NumQueues

ASSUME ConsumerConstantsOK ==
    /\ HostOf \in [Listener -> Proc]
    /\ \A p \in Proc : \E l \in Listener : HostOf[l] = p
    /\ NumQueues \in Nat \ {0}
    /\ MaxSent \in Nat
    /\ MaxErrors \in Nat
    /\ MaxRewrites \in Nat
    /\ MaxCrashes \in Nat
    /\ MaxReloads \in Nat

VARIABLES
    sent,       \* messages in each queue of the topic
    offset,     \* mq_<topic> in the KV store; 0 when absent
    listed,     \* whether ays_queue_list has the queue of the node
    status,     \* slave -> new, joining, checking, up, unlisting, exiting,
                \* leaving, gone
    consumer,   \* slave -> pullConsumer: none, started, broken
    pc,         \* listener -> off, call, offset, pull, set, hold, run
    at,         \* listener -> the queue the loop has reached
    off,        \* listener -> the offset it read
    held,       \* listener -> messageExts: the message pulled last, if any
    lost,       \* history: messages a slave had taken when it ended
    ran,        \* history: messages whose job was started
    budget      \* what is left of each bound

vars == <<sent, offset, listed, status, consumer, pc, at, off, held, lost, ran,
          budget>>

\* A message: where it is in the topic.
Message == [queue : Queue, index : Nat]

\* SendMessageOrderly picks the queue by a hash of Keys, the same Keys for
\* every message of a topic: one queue carries them all.
KeyQueue == 1

OfKey(i) == [queue |-> KeyQueue, index |-> i]

Up(p) == status[p] = "up"
Serving(p) == status[p] \in {"up", "unlisting", "exiting", "leaving"}
Alive(p) == status[p] \notin {"new", "gone"}

Init ==
    /\ sent = [q \in Queue |-> 0]
    /\ offset = 0
    /\ listed \in BOOLEAN
    /\ status = [p \in Proc |-> "new"]
    /\ consumer = [p \in Proc |-> "none"]
    /\ pc = [l \in Listener |-> "off"]
    /\ at = [l \in Listener |-> 1]
    /\ off = [l \in Listener |-> 0]
    /\ held = [l \in Listener |-> {}]
    /\ lost = {}
    /\ ran = {}
    /\ budget = [errors |-> MaxErrors, rewrites |-> MaxRewrites,
                 crashes |-> MaxCrashes, reloads |-> MaxReloads]

loopVars == <<pc, at, off, held>>
Goto(l, step) == pc' = [pc EXCEPT ![l] = step]
Spend(b) == /\ budget[b] > 0
            /\ budget' = [budget EXCEPT ![b] = @ - 1]

-----------------------------------------------------------------------------
(***************************************************************************)
(* The producer and the slaves.                                            *)
(***************************************************************************)
\* The queues the selector may pick for a message of the topic.
Targets == {KeyQueue}

\* MqDispatch of a manager.
Send ==
    \E q \in Targets :
        /\ sent[q] < MaxSent
        /\ sent' = [sent EXCEPT ![q] = @ + 1]
        /\ UNCHANGED <<offset, listed, status, consumer, loopVars, lost, ran,
                       budget>>

\* A manager adds or drops the queue, or a process writes back the list it
\* read before (QueueRegistry).
Rewrite ==
    /\ Spend("rewrites")
    /\ listed' \in BOOLEAN
    /\ UNCHANGED <<sent, offset, status, consumer, loopVars, lost, ran>>

\* The slave p goes on to the stage st.
Turn(p, st) ==
    /\ status' = [status EXCEPT ![p] = st]
    /\ UNCHANGED <<sent, offset, consumer, at, off, held, lost, ran>>

Boot(p) ==
    /\ status[p] = "new"
    /\ ~ \E q \in Proc : status[q] \in {"joining", "checking", "up"}
    /\ Turn(p, "joining")
    /\ UNCHANGED <<listed, pc, budget>>

\* NodeRegister's AddQueue.
AddQueue(p) ==
    /\ status[p] = "joining"
    /\ Turn(p, "checking")
    /\ listed' = TRUE
    /\ UNCHANGED <<pc, budget>>

\* QueueExists: the listener of the boot starts only if the list has the queue
\* now.
CheckQueue(p) ==
    /\ status[p] = "checking"
    /\ Turn(p, "up")
    /\ \/ ~ listed /\ UNCHANGED pc
       \/ /\ listed
          /\ \E l \in Listener :
                HostOf[l] = p /\ pc[l] = "off" /\ Goto(l, "call")
    /\ UNCHANGED <<listed, budget>>

\* An access to the list or to the list of jobs fails: the queue is not added,
\* or not found.
JoinFails(p) ==
    /\ Spend("errors")
    /\ \/ status[p] = "joining" /\ Turn(p, "checking")
       \/ status[p] = "checking" /\ Turn(p, "up")
    /\ UNCHANGED <<listed, pc>>

\* The master tells p to leave and boots q at the same time.
Reload(p, q) ==
    /\ Up(p)
    /\ status[q] = "new"
    /\ Spend("reloads")
    /\ status' = [status EXCEPT ![p] = "unlisting", ![q] = "joining"]
    /\ UNCHANGED <<sent, offset, listed, consumer, loopVars, lost, ran>>

\* NodeDelReg's DelQueue, the first thing a slave does that was told to leave.
DelQueue(p) ==
    /\ status[p] = "unlisting"
    /\ Turn(p, "exiting")
    /\ \/ listed' = FALSE /\ UNCHANGED budget
       \/ Spend("errors") /\ UNCHANGED listed
    /\ UNCHANGED pc

\* The listeners of p end with it.  A message whose offset is written is
\* lost unless its job has been started.
Ends(p) ==
    LET mine == {l \in Listener : HostOf[l] = p} IN
    /\ status' = [status EXCEPT ![p] = "gone"]
    /\ consumer' = [consumer EXCEPT ![p] = "none"]
    /\ lost' = lost \cup UNION {held[l] : l \in {m \in mine : pc[m] # "run"}}
    /\ pc' = [l \in Listener |-> IF l \in mine THEN "off" ELSE pc[l]]
    /\ at' = [l \in Listener |-> IF l \in mine THEN 1 ELSE at[l]]
    /\ off' = [l \in Listener |-> IF l \in mine THEN 0 ELSE off[l]]
    /\ held' = [l \in Listener |-> IF l \in mine THEN {} ELSE held[l]]
    /\ UNCHANGED <<sent, offset, listed, ran>>

\* WaitRunningJob returns: ExecShell counts the jobs that run, and only those.
Drained(p) ==
    /\ status[p] = "exiting"
    /\ \A l \in Listener : HostOf[l] = p => pc[l] # "run"
    /\ Turn(p, "leaving")
    /\ UNCHANGED <<listed, pc, budget>>

\* os.Exit.
Exit(p) ==
    /\ status[p] = "leaving"
    /\ Ends(p)
    /\ UNCHANGED budget

Crash(p) ==
    /\ Alive(p)
    /\ Spend("crashes")
    /\ Ends(p)

-----------------------------------------------------------------------------
(***************************************************************************)
(* A listener.  LoopPull calls ConsumeWithPull again and again and returns *)
(* when it returns an error.                                               *)
(***************************************************************************)
Runs(l) == Alive(HostOf[l])

\* ListenQueue, asked for by the type 2 request of a manager.
Listen(l) ==
    /\ Serving(HostOf[l])
    /\ pc[l] = "off"
    /\ Goto(l, "call")
    /\ UNCHANGED <<sent, offset, listed, status, consumer, at, off, held, lost,
                   ran, budget>>

\* NewPullConsume for the first caller; FetchSubscriptionMessageQueues.
Fetch(l) ==
    /\ Runs(l)
    /\ pc[l] = "call"
    /\ consumer[HostOf[l]] # "broken"
    /\ consumer' = [consumer EXCEPT ![HostOf[l]] = "started"]
    /\ Goto(l, "offset")
    /\ at' = [at EXCEPT ![l] = 1]
    /\ held' = [held EXCEPT ![l] = {}]
    /\ UNCHANGED <<sent, offset, listed, status, off, lost, ran, budget>>

\* A consumer that did not start has no message queues: the call returns no
\* message, and again after five seconds.
FetchNothing(l) ==
    /\ Runs(l)
    /\ pc[l] = "call"
    /\ consumer[HostOf[l]] = "broken"
    /\ UNCHANGED vars

\* consumer.Start fails: the listener ends, and pullConsumer stays set to a
\* consumer that has no queues.
StartFails(l) ==
    /\ Runs(l)
    /\ pc[l] = "call"
    /\ consumer[HostOf[l]] = "none"
    /\ Spend("errors")
    /\ consumer' = [consumer EXCEPT ![HostOf[l]] = "broken"]
    /\ Goto(l, "off")
    /\ UNCHANGED <<sent, offset, listed, status, at, off, held, lost, ran>>

GetOffset(l) ==
    /\ Runs(l)
    /\ pc[l] = "offset"
    /\ off' = [off EXCEPT ![l] = offset]
    /\ Goto(l, "pull")
    /\ UNCHANGED <<sent, offset, listed, status, consumer, at, held, lost, ran,
                   budget>>

\* KvGet answers "" and ParseInt 0.
GetOffsetFails(l) ==
    /\ Runs(l)
    /\ pc[l] = "offset"
    /\ Spend("errors")
    /\ off' = [off EXCEPT ![l] = 0]
    /\ Goto(l, "pull")
    /\ UNCHANGED <<sent, offset, listed, status, consumer, at, held, lost,
                   ran>>

\* The loop goes on to the next queue; after the last one the message, if
\* any, goes to the handler.
Advance(l, msgs) ==
    IF at[l] < NumQueues
    THEN /\ at' = [at EXCEPT ![l] = @ + 1]
         /\ Goto(l, "offset")
    ELSE /\ UNCHANGED at
         /\ Goto(l, IF msgs = {} THEN "call" ELSE "hold")

\* Faulty variant: the last message of a queue is not seen.
HasMessageButLast(l) == off[l] + 1 < sent[at[l]]

HasMessage(l) == off[l] < sent[at[l]]

Pull(l) ==
    /\ Runs(l)
    /\ pc[l] = "pull"
    /\ HasMessage(l)
    /\ Goto(l, "set")
    /\ UNCHANGED <<sent, offset, listed, status, consumer, at, off, held, lost,
                   ran, budget>>

PullNothing(l) ==
    /\ Runs(l)
    /\ pc[l] = "pull"
    /\ ~ HasMessage(l)
    /\ Advance(l, held[l])
    /\ UNCHANGED <<sent, offset, listed, status, consumer, off, held, lost,
                   ran, budget>>

\* The broker does not answer in time: no messages.
PullTimeout(l) ==
    /\ Runs(l)
    /\ pc[l] = "pull"
    /\ Spend("errors")
    /\ Advance(l, held[l])
    /\ UNCHANGED <<sent, offset, listed, status, consumer, off, held, lost,
                   ran>>

\* The message the pull returned.
Pulled(l) == {[queue |-> at[l], index |-> off[l]]}

\* Faulty variant: the offset skips one.
NextOffsetSkips(l) == off[l] + 2

NextOffset(l) == off[l] + 1

SetOffset(l) ==
    /\ Runs(l)
    /\ pc[l] = "set"
    /\ offset' = NextOffset(l)
    /\ held' = [held EXCEPT ![l] = Pulled(l)]
    /\ Advance(l, Pulled(l))
    /\ UNCHANGED <<sent, listed, status, consumer, off, lost, ran, budget>>

\* KvSet fails; nobody looks at its result.
SetOffsetFails(l) ==
    /\ Runs(l)
    /\ pc[l] = "set"
    /\ Spend("errors")
    /\ held' = [held EXCEPT ![l] = Pulled(l)]
    /\ Advance(l, Pulled(l))
    /\ UNCHANGED <<sent, offset, listed, status, consumer, off, lost, ran>>

\* The handler: it looks up the job log and LocalDispatch starts the job.
Handle(l) ==
    /\ Runs(l)
    /\ pc[l] = "hold"
    /\ ran' = ran \cup held[l]
    /\ Goto(l, "run")
    /\ UNCHANGED <<sent, offset, listed, status, consumer, at, off, held, lost,
                   budget>>

\* The job ends and the handler returns to LoopPull.
Return(l) ==
    /\ Runs(l)
    /\ pc[l] = "run"
    /\ Goto(l, "call")
    /\ held' = [held EXCEPT ![l] = {}]
    /\ UNCHANGED <<sent, offset, listed, status, consumer, at, off, lost, ran,
                   budget>>

-----------------------------------------------------------------------------
LoopStep(l) ==
    \/ Fetch(l)
    \/ FetchNothing(l)
    \/ GetOffset(l)
    \/ Pull(l)
    \/ PullNothing(l)
    \/ SetOffset(l)
    \/ Handle(l)

LoopFails(l) ==
    \/ StartFails(l)
    \/ GetOffsetFails(l)
    \/ PullTimeout(l)
    \/ SetOffsetFails(l)

Starts(p) == Boot(p) \/ AddQueue(p) \/ CheckQueue(p)

Leaves(p) == DelQueue(p) \/ Drained(p) \/ Exit(p)

Next ==
    \/ Send \/ Rewrite
    \/ \E p \in Proc : Starts(p) \/ JoinFails(p) \/ Leaves(p) \/ Crash(p)
    \/ \E p, q \in Proc : Reload(p, q)
    \/ \E l \in Listener :
            Listen(l) \/ LoopStep(l) \/ Return(l) \/ LoopFails(l)

\* The master boots a slave whenever it has none, slaves start and leave, and
\* a goroutine goes on.  No manager has to ask for a listener, and no job has
\* to end: LocalDispatch gives it no deadline.
Fairness ==
    /\ \A p \in Proc : WF_vars(Starts(p)) /\ WF_vars(Leaves(p))
    /\ \A l \in Listener : WF_vars(LoopStep(l))

Spec == Init /\ [][Next]_vars
FairSpec == Spec /\ Fairness

-----------------------------------------------------------------------------
Stage == {"new", "joining", "checking", "up", "unlisting", "exiting",
          "leaving", "gone"}
Budget == [errors : 0..MaxErrors, rewrites : 0..MaxRewrites,
           crashes : 0..MaxCrashes, reloads : 0..MaxReloads]

\* Types of the topic's offset and of the state of every listener.
TypeOK ==
    /\ sent \in [Queue -> 0..MaxSent]
    /\ offset \in 0..MaxSent
    /\ listed \in BOOLEAN
    /\ status \in [Proc -> Stage]
    /\ consumer \in [Proc -> {"none", "started", "broken"}]
    /\ pc \in [Listener ->
            {"off", "call", "offset", "pull", "set", "hold", "run"}]
    /\ at \in [Listener -> Queue]
    /\ off \in [Listener -> 0..MaxSent]
    /\ held \in [Listener -> SUBSET Message]
    /\ lost \in SUBSET Message
    /\ ran \in SUBSET Message
    /\ budget \in Budget

\* What the listeners have in hand.
InHand == UNION {held[l] : l \in Listener}

\* The offset never passes a message nobody took: each one below it had its
\* job started, is in hand, or was in hand of a slave that ended, however
\* many listeners share the offset and whatever reads and writes fail.
NothingSkipped ==
    \A i \in 0..(offset - 1) : OfKey(i) \in ran \cup lost \cup InHand

\* The slave the master keeps pulls nothing: its consumer failed to start, or
\* it has no listener but those that are in a job.
Deaf ==
    \E p \in Proc :
        /\ Up(p)
        /\ \/ consumer[p] = "broken"
           \/ \A l \in Listener : HostOf[l] = p => pc[l] \in {"off", "run"}

\* No message is left behind by a slave that pulls: each one sent is taken by
\* a listener, though listeners of two slaves rewind the offset and accesses
\* fail, unless the slave the master keeps stays deaf for ever.  A reload may
\* leave it so: QueueExists is asked once, and the old slave's DelQueue may
\* come between the new slave's AddQueue and it.
EveryMessageTaken ==
    \/ \A i \in 0..(MaxSent - 1) :
            i < sent[KeyQueue] ~> OfKey(i) \in ran \cup lost \cup InHand
    \/ <>[]Deaf

\* A reload does not interrupt the service ("reload（不中断服务重启）"): the
\* slave that stays has a listener.
ReloadListens ==
    <>[](\A p \in Proc :
            Up(p) => \E l \in Listener : HostOf[l] = p /\ pc[l] # "off")

\* A slave that exits in order loses no message: beforeExit waits until the
\* running jobs have ended ("等待任务执行完成").
OrderlyExitLosesNothing ==
    [][\A p \in Proc :
        status[p] = "leaving" /\ status'[p] = "gone" => lost' = lost]_vars

\* With one listener at a time and no failing access to the store, the queue
\* hands its messages over as TopicFifo promises, across crashes.
Fifo == INSTANCE TopicFifo WITH
    sent <- sent[KeyQueue],
    next <- offset,
    hand <- {m.index : m \in UNION {held[l] :
                l \in {k \in Listener : pc[k] # "run"}}},
    running <- {m.index : m \in UNION {held[l] :
                l \in {k \in Listener : pc[k] = "run"}}},
    ran <- {m.index : m \in ran}

HandsOverInOrder == Fifo!Spec
=============================================================================
