------------------------- MODULE PullConsumerProofs -------------------------
(***************************************************************************)
(* What holds of a node's queue for every number of listeners, slaves,     *)
(* message queues, messages, failures, crashes and reloads.                *)
(***************************************************************************)
EXTENDS PullConsumer, TLAPS

\* Message i was started, is in hand, or was in hand of a slave that ended.
Taken(i) ==
    \/ OfKey(i) \in ran
    \/ OfKey(i) \in lost
    \/ \E l \in Listener : OfKey(i) \in held[l]

\* Only the queue the producer picks has messages.
OtherQueuesEmpty == \A q \in Queue : q # KeyQueue => sent[q] = 0

\* What a listener may have in hand: nothing before the first pull of a call,
\* and a message whose job is running counts as started.
HandInv ==
    \A l \in Listener :
        /\ pc[l] \in {"off", "call"} => held[l] = {}
        /\ pc[l] \in {"offset", "pull", "set"} /\ at[l] = 1 => held[l] = {}
        /\ pc[l] = "run" => held[l] \subseteq ran

\* An offset about to be written has its message.
PulledInv == \A l \in Listener : pc[l] = "set" => off[l] < sent[at[l]]

\* An offset that was read is not past a message nobody took, nor is the one
\* in the store: a listener may rewind the offset, never skip with it.
ReadInv ==
    \A l \in Listener :
        pc[l] \in {"pull", "set"} => \A i \in 0..(off[l] - 1) : Taken(i)

StoreInv == \A i \in 0..(offset - 1) : Taken(i)

Inv ==
    /\ TypeOK
    /\ OtherQueuesEmpty
    /\ HandInv
    /\ PulledInv
    /\ ReadInv
    /\ StoreInv

-----------------------------------------------------------------------------
\* The initial state satisfies the invariant.
LEMMA InitInv == Init => Inv
<1> SUFFICES ASSUME Init PROVE Inv
  OBVIOUS
<1> USE ConsumerConstantsOK DEF Init
<1>1. TypeOK
  BY DEF TypeOK, Stage, Budget, Queue
<1>2. OtherQueuesEmpty /\ HandInv /\ PulledInv /\ ReadInv /\ StoreInv
  BY DEF OtherQueuesEmpty, HandInv, PulledInv, ReadInv, StoreInv
<1> QED
  BY <1>1, <1>2 DEF Inv

-----------------------------------------------------------------------------
\* What a listener takes stays taken while the history grows and every
\* message that leaves its hand enters the history.
LEMMA TakenStays ==
    ASSUME NEW i, Taken(i),
           ran \subseteq ran', lost \subseteq lost',
           \A l \in Listener : held[l] \subseteq held'[l] \cup ran' \cup lost'
    PROVE  Taken(i)'
  BY DEF Taken, OfKey, KeyQueue

\* The step of one listener that leaves every other one alone.
Others(l) ==
    /\ \A k \in Listener : k # l => /\ pc'[k] = pc[k]
                                    /\ at'[k] = at[k]
                                    /\ off'[k] = off[k]
                                    /\ held'[k] = held[k]

-----------------------------------------------------------------------------
\* The message at the offset a listener is about to write is the one it puts
\* in its hand: with it everything below the next offset is taken.
LEMMA PullTakes ==
    ASSUME Inv, NEW l \in Listener, pc[l] = "set"
    PROVE  /\ at[l] = KeyQueue
           /\ held[l] = {}
           /\ OfKey(off[l]) \in Pulled(l)
           /\ Pulled(l) \subseteq Message
           /\ NextOffset(l) \in 0..MaxSent
           /\ \A i \in 0..(NextOffset(l) - 1) : Taken(i) \/ i = off[l]
<1> USE ConsumerConstantsOK DEF Inv
<1>1. at[l] \in Queue /\ off[l] \in 0..MaxSent /\ sent[at[l]] \in 0..MaxSent
  BY DEF TypeOK
<1>2. off[l] < sent[at[l]]
  BY DEF PulledInv
<1>3. at[l] = KeyQueue
  BY <1>1, <1>2 DEF OtherQueuesEmpty
<1>4. held[l] = {}
  BY <1>3 DEF HandInv, KeyQueue
<1>5. OfKey(off[l]) \in Pulled(l) /\ Pulled(l) \subseteq Message
  BY <1>1, <1>3 DEF Pulled, OfKey, Message, Queue
<1>6. NextOffset(l) \in 0..MaxSent
  BY <1>1, <1>2 DEF NextOffset
<1>7. \A i \in 0..(NextOffset(l) - 1) : Taken(i) \/ i = off[l]
  BY <1>1 DEF NextOffset, ReadInv
<1> QED
  BY <1>3, <1>4, <1>5, <1>6, <1>7

-----------------------------------------------------------------------------
\* A step that changes no listener, no offset and no hand keeps the
\* invariant, if it keeps the types and puts no message in another queue.
LEMMA QuietStep ==
    ASSUME Inv, TypeOK', OtherQueuesEmpty',
           \A q \in Queue : sent[q] <= sent'[q],
           UNCHANGED <<offset, loopVars, lost, ran>>
    PROVE  Inv'
<1> USE DEF Inv, loopVars
<1>1. \A i : Taken(i)' <=> Taken(i)
  BY DEF Taken
<1>2. HandInv'
  BY DEF HandInv
<1>3. PulledInv'
  BY DEF PulledInv, TypeOK
<1>4. ReadInv'
  BY <1>1 DEF ReadInv
<1>5. StoreInv'
  BY <1>1 DEF StoreInv
<1> QED
  BY <1>2, <1>3, <1>4, <1>5

-----------------------------------------------------------------------------
\* Spending a bound leaves the budget well typed.
LEMMA SpendType ==
    ASSUME TypeOK, NEW b \in {"errors", "rewrites", "crashes", "reloads"}, Spend(b)
    PROVE  budget' \in Budget
  BY ConsumerConstantsOK DEF TypeOK, Spend, Budget

\* Going on to the next queue, to the handler or to the next call.
LEMMA AdvanceType ==
    ASSUME TypeOK, NEW l \in Listener, NEW msgs, Advance(l, msgs)
    PROVE  /\ at' \in [Listener -> Queue]
           /\ pc' \in [Listener ->
                {"off", "call", "offset", "pull", "set", "hold", "run"}]
           /\ at'[l] = 1 => at[l] = 1 /\ pc'[l] \in {"call", "hold"}
           /\ pc'[l] \in {"offset", "call", "hold"}
           /\ pc'[l] = "call" => msgs = {}
           /\ \A k \in Listener : k # l => pc'[k] = pc[k] /\ at'[k] = at[k]
<1> USE ConsumerConstantsOK
<1>1. /\ at \in [Listener -> Queue]
      /\ pc \in [Listener ->
            {"off", "call", "offset", "pull", "set", "hold", "run"}]
      /\ at[l] \in Nat \ {0} /\ at[l] <= NumQueues
  BY DEF TypeOK, Queue
<1>2. CASE at[l] < NumQueues
  <2>1. /\ at' = [at EXCEPT ![l] = @ + 1]
        /\ pc' = [pc EXCEPT ![l] = "offset"]
    BY <1>2 DEF Advance, Goto
  <2>2. at[l] + 1 \in Queue /\ at[l] + 1 # 1
    BY <1>1, <1>2 DEF Queue
  <2> QED
    BY <1>1, <2>1, <2>2
<1>3. CASE ~(at[l] < NumQueues)
  <2>1. /\ at' = at
        /\ pc' = [pc EXCEPT ![l] = IF msgs = {} THEN "call" ELSE "hold"]
    BY <1>3 DEF Advance, Goto
  <2> QED
    BY <1>1, <2>1
<1> QED
  BY <1>2, <1>3

\* The loss of a slave leaves every variable well typed.
LEMMA EndsType ==
    ASSUME TypeOK, NEW p \in Proc, Ends(p),
           budget' \in Budget
    PROVE  TypeOK'
<1> USE ConsumerConstantsOK
<1>1. status' \in [Proc -> Stage]
  BY DEF Ends, Stage, TypeOK
<1>2. consumer' \in [Proc -> {"none", "started", "broken"}]
  BY DEF Ends, TypeOK
<1>3. pc' \in [Listener ->
            {"off", "call", "offset", "pull", "set", "hold", "run"}]
  BY DEF Ends, TypeOK
<1>4. at' \in [Listener -> Queue]
  BY DEF Ends, TypeOK, Queue
<1>5. off' \in [Listener -> 0..MaxSent]
  BY DEF Ends, TypeOK
<1>6. held' \in [Listener -> SUBSET Message]
  BY DEF Ends, TypeOK
<1>7. lost' \in SUBSET Message
  BY DEF Ends, TypeOK
<1>8. /\ sent' \in [Queue -> 0..MaxSent]
      /\ offset' \in 0..MaxSent
      /\ ran' \in SUBSET Message /\ listed' \in BOOLEAN
  BY DEF Ends, TypeOK
<1> QED
  BY <1>1, <1>2, <1>3, <1>4, <1>5, <1>6, <1>7, <1>8 DEF TypeOK

\* A slave that ends moves what its listeners have in hand to the history.
LEMMA EndsInv ==
    ASSUME Inv, NEW p \in Proc, Ends(p), TypeOK'
    PROVE  Inv'
<1> USE DEF Inv
<1> DEFINE mine == {l \in Listener : HostOf[l] = p}
<1>1. /\ sent' = sent /\ offset' = offset /\ ran' = ran
      /\ lost' = lost \cup UNION {held[l] : l \in {m \in mine : pc[m] # "run"}}
      /\ pc' = [l \in Listener |-> IF l \in mine THEN "off" ELSE pc[l]]
      /\ at' = [l \in Listener |-> IF l \in mine THEN 1 ELSE at[l]]
      /\ off' = [l \in Listener |-> IF l \in mine THEN 0 ELSE off[l]]
      /\ held' = [l \in Listener |-> IF l \in mine THEN {} ELSE held[l]]
  BY DEF Ends
<1>2. \A l \in Listener : held[l] \subseteq held'[l] \cup ran' \cup lost'
  <2> SUFFICES ASSUME NEW l \in Listener
               PROVE  held[l] \subseteq held'[l] \cup ran' \cup lost'
    OBVIOUS
  <2>1. CASE l \in mine /\ pc[l] = "run"
    BY <2>1, <1>1 DEF HandInv
  <2>2. CASE l \in mine /\ pc[l] # "run"
    <3>1. l \in {m \in mine : pc[m] # "run"}
      BY <2>2
    <3> QED
      BY <3>1, <1>1
  <2>3. CASE l \notin mine
    BY <2>3, <1>1
  <2> QED
    BY <2>1, <2>2, <2>3
<1>3. \A i : Taken(i) => Taken(i)'
  BY <1>1, <1>2, TakenStays
<1> HIDE DEF mine
<1>4. HandInv'
  BY <1>1 DEF HandInv
<1>5. PulledInv'
  BY <1>1 DEF PulledInv
<1>6. ReadInv'
  BY <1>1, <1>3 DEF ReadInv
<1>7. StoreInv' /\ OtherQueuesEmpty'
  BY <1>1, <1>3 DEF StoreInv, OtherQueuesEmpty
<1> QED
  BY <1>4, <1>5, <1>6, <1>7

-----------------------------------------------------------------------------
\* A step of one listener keeps the invariant if it keeps that listener's
\* part of it and nothing that was taken gets lost.
LEMMA ListenerInv ==
    ASSUME Inv, NEW l \in Listener, TypeOK', Others(l),
           sent' = sent,
           ran \subseteq ran', lost' = lost,
           held[l] \subseteq held'[l] \cup ran',
           \A i \in 0..(offset' - 1) : Taken(i)',
           pc'[l] \in {"off", "call"} => held'[l] = {},
           pc'[l] \in {"offset", "pull", "set"} /\ at'[l] = 1 => held'[l] = {},
           pc'[l] = "run" => held'[l] \subseteq ran',
           pc'[l] = "set" => off'[l] < sent[at'[l]],
           pc'[l] \in {"pull", "set"} =>
                \A i \in 0..(off'[l] - 1) : Taken(i)
    PROVE  Inv'
<1> USE DEF Inv
<1>1. \A k \in Listener : held[k] \subseteq held'[k] \cup ran' \cup lost'
  BY DEF Others
<1>2. \A i : Taken(i) => Taken(i)'
  BY <1>1, TakenStays
<1>3. HandInv'
  BY DEF HandInv, Others
<1>4. PulledInv'
  BY DEF PulledInv, Others
<1>5. ReadInv'
  <2> SUFFICES ASSUME NEW k \in Listener, pc'[k] \in {"pull", "set"}
               PROVE  \A i \in 0..(off'[k] - 1) : Taken(i)'
    BY DEF ReadInv
  <2>1. CASE k = l
    BY <2>1, <1>2
  <2>2. CASE k # l
    BY <2>2, <1>2 DEF ReadInv, Others
  <2> QED
    BY <2>1, <2>2
<1>6. StoreInv' /\ OtherQueuesEmpty'
  BY DEF StoreInv, OtherQueuesEmpty
<1> QED
  BY <1>3, <1>4, <1>5, <1>6

-----------------------------------------------------------------------------
\* A pull without a message keeps the invariant.
LEMMA AdvanceKeepsHand ==
    ASSUME Inv, NEW l \in Listener, pc[l] = "pull", Advance(l, held[l]),
           UNCHANGED <<sent, offset, listed, status, consumer, off, held, lost,
                       ran>>,
           budget' \in Budget
    PROVE  Inv'
<1> USE DEF Inv
<1>1. /\ at' \in [Listener -> Queue]
      /\ pc' \in [Listener ->
            {"off", "call", "offset", "pull", "set", "hold", "run"}]
      /\ at'[l] = 1 => at[l] = 1 /\ pc'[l] \in {"call", "hold"}
      /\ pc'[l] \in {"offset", "call", "hold"}
      /\ pc'[l] = "call" => held[l] = {}
      /\ \A k \in Listener : k # l => pc'[k] = pc[k] /\ at'[k] = at[k]
  BY AdvanceType
<1>2. TypeOK'
  BY <1>1 DEF TypeOK
<1>3. Others(l)
  BY <1>1 DEF Others
<1>4. \A i \in 0..(offset' - 1) : Taken(i)'
  BY DEF StoreInv, Taken
<1> QED
  BY <1>1, <1>2, <1>3, <1>4, ListenerInv

\* Writing the next offset, or failing to, puts the message in hand.
LEMMA SetInv ==
    ASSUME Inv, NEW l \in Listener, pc[l] = "set",
           held' = [held EXCEPT ![l] = Pulled(l)],
           Advance(l, Pulled(l)),
           offset' = NextOffset(l) \/ offset' = offset,
           UNCHANGED <<sent, listed, status, consumer, off, lost, ran>>,
           budget' \in Budget
    PROVE  Inv'
<1> USE DEF Inv
<1>1. /\ held[l] = {}
      /\ OfKey(off[l]) \in Pulled(l)
      /\ Pulled(l) \subseteq Message
      /\ NextOffset(l) \in 0..MaxSent
      /\ \A i \in 0..(NextOffset(l) - 1) : Taken(i) \/ i = off[l]
  BY PullTakes
<1>2. /\ at' \in [Listener -> Queue]
      /\ pc' \in [Listener ->
            {"off", "call", "offset", "pull", "set", "hold", "run"}]
      /\ at'[l] = 1 => at[l] = 1 /\ pc'[l] \in {"call", "hold"}
      /\ pc'[l] \in {"offset", "call", "hold"}
      /\ pc'[l] = "call" => Pulled(l) = {}
      /\ \A k \in Listener : k # l => pc'[k] = pc[k] /\ at'[k] = at[k]
  BY AdvanceType
<1>3. pc'[l] \in {"offset", "hold"}
  BY <1>1, <1>2
<1>4. held'[l] = Pulled(l) /\ \A k \in Listener : k # l => held'[k] = held[k]
  BY DEF TypeOK
<1>5. TypeOK'
  BY <1>1, <1>2 DEF TypeOK
<1>6. Others(l)
  BY <1>2, <1>4 DEF Others
<1>7. \A k \in Listener : held[k] \subseteq held'[k]
  BY <1>1, <1>4
<1>8. \A i : Taken(i) => Taken(i)'
  BY <1>7, TakenStays
<1>9. Taken(off[l])'
  BY <1>1, <1>4 DEF Taken, OfKey, KeyQueue
<1>10. \A i \in 0..(offset' - 1) : Taken(i)'
  BY <1>1, <1>8, <1>9 DEF StoreInv
<1> QED
  BY <1>1, <1>2, <1>3, <1>5, <1>6, <1>7, <1>10, ListenerInv

-----------------------------------------------------------------------------
\* Every step of the loop that fails nowhere keeps the invariant.
LEMMA LoopInv == ASSUME Inv, NEW l \in Listener, LoopStep(l) \/ Return(l)
                 PROVE  Inv'
<1> USE ConsumerConstantsOK DEF Inv
<1>1. CASE Fetch(l)
  <2>1. TypeOK'
    <3>1. /\ consumer' \in [Proc -> {"none", "started", "broken"}]
          /\ pc' \in [Listener ->
                {"off", "call", "offset", "pull", "set", "hold", "run"}]
          /\ at' \in [Listener -> Queue]
          /\ held' \in [Listener -> SUBSET Message]
      BY <1>1 DEF Fetch, Goto, TypeOK, Queue
    <3> QED
      BY <1>1, <3>1 DEF Fetch, TypeOK
  <2>2. Others(l)
    BY <1>1 DEF Fetch, Goto, Others, TypeOK
  <2>3. held[l] = {} /\ held'[l] = {} /\ pc'[l] = "offset"
    BY <1>1 DEF Fetch, Goto, HandInv, TypeOK
  <2>4. \A i \in 0..(offset' - 1) : Taken(i)'
    <3>1. \A k \in Listener : held[k] \subseteq held'[k]
      BY <2>2, <2>3 DEF Others
    <3> QED
      BY <1>1, <3>1, TakenStays DEF Fetch, StoreInv
  <2> QED
    BY <1>1, <2>1, <2>2, <2>3, <2>4, ListenerInv DEF Fetch
<1>2. CASE FetchNothing(l)
  BY <1>2, QuietStep DEF FetchNothing, vars, loopVars, OtherQueuesEmpty, TypeOK
<1>3. CASE GetOffset(l)
  <2>1. TypeOK'
    BY <1>3 DEF GetOffset, Goto, TypeOK
  <2>2. Others(l)
    BY <1>3 DEF GetOffset, Goto, Others, TypeOK
  <2>3. /\ held' = held /\ pc'[l] = "pull" /\ off'[l] = offset
        /\ at'[l] = 1 => held'[l] = {}
    BY <1>3 DEF GetOffset, Goto, HandInv, TypeOK
  <2>4. \A i \in 0..(offset' - 1) : Taken(i)'
    BY <1>3 DEF GetOffset, StoreInv, Taken
  <2>5. \A i \in 0..(off'[l] - 1) : Taken(i)
    BY <2>3 DEF StoreInv
  <2> QED
    BY <1>3, <2>1, <2>2, <2>3, <2>4, <2>5, ListenerInv DEF GetOffset
<1>4. CASE Pull(l)
  <2>1. TypeOK'
    BY <1>4 DEF Pull, Goto, TypeOK
  <2>2. Others(l)
    BY <1>4 DEF Pull, Goto, Others, TypeOK
  <2>3. /\ held' = held /\ pc'[l] = "set" /\ off' = off /\ at' = at
        /\ at'[l] = 1 => held'[l] = {}
        /\ off[l] < sent[at[l]]
    BY <1>4 DEF Pull, HasMessage, Goto, HandInv, TypeOK
  <2>4. \A i \in 0..(offset' - 1) : Taken(i)'
    BY <1>4 DEF Pull, StoreInv, Taken
  <2>5. \A i \in 0..(off'[l] - 1) : Taken(i)
    BY <1>4, <2>3 DEF Pull, ReadInv
  <2> QED
    BY <1>4, <2>1, <2>2, <2>3, <2>4, <2>5, ListenerInv DEF Pull
<1>5. CASE PullNothing(l)
  <2>1. budget' \in Budget
    BY <1>5 DEF PullNothing, TypeOK
  <2> QED
    BY <1>5, <2>1, AdvanceKeepsHand DEF PullNothing
<1>6. CASE SetOffset(l)
  <2>1. budget' \in Budget
    BY <1>6 DEF SetOffset, TypeOK
  <2> QED
    BY <1>6, <2>1, SetInv DEF SetOffset
<1>7. CASE Handle(l)
  <2>1. TypeOK'
    BY <1>7 DEF Handle, Goto, TypeOK
  <2>2. Others(l)
    BY <1>7 DEF Handle, Goto, Others, TypeOK
  <2>3. held' = held /\ pc'[l] = "run" /\ held'[l] \subseteq ran'
        /\ ran \subseteq ran'
    BY <1>7 DEF Handle, Goto, TypeOK
  <2>4. \A i \in 0..(offset' - 1) : Taken(i)'
    BY <1>7, <2>3, TakenStays DEF Handle, StoreInv
  <2> QED
    BY <1>7, <2>1, <2>2, <2>3, <2>4, ListenerInv DEF Handle
<1>8. CASE Return(l)
  <2>1. TypeOK'
    BY <1>8 DEF Return, Goto, TypeOK
  <2>2. Others(l)
    BY <1>8 DEF Return, Goto, Others, TypeOK
  <2>3. held'[l] = {} /\ pc'[l] = "call" /\ held[l] \subseteq ran
    BY <1>8 DEF Return, Goto, TypeOK, HandInv
  <2>4. \A i \in 0..(offset' - 1) : Taken(i)'
    <3>1. \A k \in Listener : held[k] \subseteq held'[k] \cup ran' \cup lost'
      BY <1>8, <2>2, <2>3 DEF Others, Return
    <3> QED
      BY <1>8, <3>1, TakenStays DEF Return, StoreInv
  <2> QED
    BY <1>8, <2>1, <2>2, <2>3, <2>4, ListenerInv DEF Return
<1> QED
  BY <1>1, <1>2, <1>3, <1>4, <1>5, <1>6, <1>7, <1>8 DEF LoopStep

\* Every failing step of the loop keeps the invariant.
LEMMA FailInv == ASSUME Inv, NEW l \in Listener, LoopFails(l) PROVE Inv'
<1> USE ConsumerConstantsOK DEF Inv
<1>1. Spend("errors")
  BY DEF LoopFails, StartFails, GetOffsetFails, PullTimeout, SetOffsetFails
<1>2. budget' \in Budget
  BY <1>1, SpendType
<1>3. CASE StartFails(l)
  <2>1. TypeOK'
    <3>1. /\ consumer' \in [Proc -> {"none", "started", "broken"}]
          /\ pc' \in [Listener ->
                {"off", "call", "offset", "pull", "set", "hold", "run"}]
      BY <1>3 DEF StartFails, Goto, TypeOK
    <3> QED
      BY <1>2, <1>3, <3>1 DEF StartFails, TypeOK
  <2>2. Others(l)
    BY <1>3 DEF StartFails, Goto, Others, TypeOK
  <2>3. held' = held /\ pc'[l] = "off" /\ held'[l] = {}
    BY <1>3 DEF StartFails, Goto, HandInv, TypeOK
  <2>4. \A i \in 0..(offset' - 1) : Taken(i)'
    BY <1>3 DEF StartFails, StoreInv, Taken
  <2> QED
    BY <1>3, <2>1, <2>2, <2>3, <2>4, ListenerInv DEF StartFails
<1>4. CASE GetOffsetFails(l)
  <2>1. TypeOK'
    <3>1. /\ off' \in [Listener -> 0..MaxSent]
          /\ pc' \in [Listener ->
                {"off", "call", "offset", "pull", "set", "hold", "run"}]
      BY <1>4 DEF GetOffsetFails, Goto, TypeOK
    <3> QED
      BY <1>2, <1>4, <3>1 DEF GetOffsetFails, TypeOK
  <2>2. Others(l)
    BY <1>4 DEF GetOffsetFails, Goto, Others, TypeOK
  <2>3. /\ held' = held /\ pc'[l] = "pull" /\ off'[l] = 0
        /\ at'[l] = 1 => held'[l] = {}
    BY <1>4 DEF GetOffsetFails, Goto, HandInv, TypeOK
  <2>4. \A i \in 0..(offset' - 1) : Taken(i)'
    BY <1>4 DEF GetOffsetFails, StoreInv, Taken
  <2>5. \A i \in 0..(off'[l] - 1) : Taken(i)
    BY <2>3
  <2> QED
    BY <1>4, <2>1, <2>2, <2>3, <2>4, <2>5, ListenerInv DEF GetOffsetFails
<1>5. CASE PullTimeout(l)
  BY <1>2, <1>5, AdvanceKeepsHand DEF PullTimeout
<1>6. CASE SetOffsetFails(l)
  BY <1>2, <1>6, SetInv DEF SetOffsetFails
<1> QED
  BY <1>3, <1>4, <1>5, <1>6 DEF LoopFails

\* Every step keeps the invariant.
LEMMA NextInv == Inv /\ [Next]_vars => Inv'
<1> SUFFICES ASSUME Inv, [Next]_vars PROVE Inv'
  OBVIOUS
<1> USE ConsumerConstantsOK
<1>1. CASE UNCHANGED vars
  BY <1>1, QuietStep
     DEF vars, loopVars, Inv, OtherQueuesEmpty, TypeOK
<1>2. CASE Send
  <2>1. /\ sent[KeyQueue] < MaxSent
        /\ sent' = [sent EXCEPT ![KeyQueue] = @ + 1]
        /\ UNCHANGED <<offset, listed, status, consumer, loopVars, lost, ran,
                       budget>>
    BY <1>2 DEF Send, Targets
  <2> DEFINE n == sent[KeyQueue]
  <2>a. n \in 0..MaxSent /\ n + 1 \in 0..MaxSent
    BY <2>1 DEF Inv, TypeOK, KeyQueue, Queue
  <2>2. /\ sent' \in [Queue -> 0..MaxSent]
        /\ \A q \in Queue : sent[q] <= sent'[q]
    <3>1. sent' \in [Queue -> 0..MaxSent]
      BY <2>1, <2>a DEF Inv, TypeOK
    <3>2. ASSUME NEW q \in Queue PROVE sent[q] <= sent'[q]
      <4>1. sent[q] \in 0..MaxSent
        BY DEF Inv, TypeOK
      <4> QED
        BY <2>1, <2>a, <4>1 DEF Inv, TypeOK
    <3> QED
      BY <3>1, <3>2
  <2>3. TypeOK'
    BY <2>1, <2>2 DEF Inv, TypeOK, loopVars
  <2>4. OtherQueuesEmpty'
    BY <2>1 DEF Inv, TypeOK, OtherQueuesEmpty
  <2> QED
    BY <2>1, <2>2, <2>3, <2>4, QuietStep
<1>3. ASSUME NEW p \in Proc,
             \/ Boot(p) \/ AddQueue(p) \/ (CheckQueue(p) /\ UNCHANGED pc)
             \/ JoinFails(p) \/ DelQueue(p) \/ Drained(p)
      PROVE  Inv'
  <2>1. /\ UNCHANGED <<sent, offset, consumer, loopVars, lost, ran>>
        /\ \E st \in Stage : status' = [status EXCEPT ![p] = st]
    BY <1>3 DEF Boot, AddQueue, CheckQueue, JoinFails, DelQueue, Drained, Turn,
                Stage, loopVars
  <2>2. listed' \in BOOLEAN
    BY <1>3 DEF Boot, AddQueue, CheckQueue, JoinFails, DelQueue, Drained, Inv,
                TypeOK
  <2>3. budget' \in Budget
    <3>1. budget' = budget \/ Spend("errors")
      BY <1>3 DEF Boot, AddQueue, CheckQueue, JoinFails, DelQueue, Drained
    <3> QED
      BY <3>1, SpendType DEF Inv, TypeOK
  <2>4. TypeOK' /\ OtherQueuesEmpty' /\ \A q \in Queue : sent[q] <= sent'[q]
    BY <2>1, <2>2, <2>3 DEF Inv, TypeOK, OtherQueuesEmpty, loopVars
  <2> QED
    BY <2>1, <2>4, QuietStep
<1>4. ASSUME NEW p \in Proc, NEW q \in Proc, Reload(p, q)
      PROVE  Inv'
  <2>1. budget' \in Budget
    BY <1>4, SpendType DEF Reload, Inv
  <2>2. TypeOK' /\ OtherQueuesEmpty' /\ \A r \in Queue : sent[r] <= sent'[r]
    BY <1>4, <2>1 DEF Reload, Stage, Inv, TypeOK, OtherQueuesEmpty, loopVars
  <2> QED
    BY <1>4, <2>2, QuietStep DEF Reload
<1>5. ASSUME NEW p \in Proc, Exit(p) \/ Crash(p)
      PROVE  Inv'
  <2>1. budget' \in Budget
    BY <1>5, SpendType DEF Exit, Crash, Inv, TypeOK
  <2> QED
    BY <1>5, <2>1, EndsType, EndsInv DEF Exit, Crash, Inv
<1>6. ASSUME NEW l \in Listener, pc[l] = "off", Goto(l, "call"), TypeOK',
             UNCHANGED <<sent, offset, at, off, held, lost, ran>>
      PROVE  Inv'
  <2> USE DEF Inv
  <2>1. Others(l)
    BY <1>6 DEF Goto, Others, TypeOK
  <2>2. held' = held /\ pc'[l] = "call" /\ held'[l] = {}
    BY <1>6 DEF Goto, HandInv, TypeOK
  <2>3. \A i \in 0..(offset' - 1) : Taken(i)'
    BY <1>6 DEF StoreInv, Taken
  <2> QED
    BY <1>6, <2>1, <2>2, <2>3, ListenerInv
<1>7. ASSUME NEW l \in Listener, Listen(l)
      PROVE  Inv'
  <2>1. TypeOK'
    BY <1>7 DEF Listen, Goto, Inv, TypeOK
  <2> QED
    BY <1>6, <1>7, <2>1 DEF Listen
<1>8. ASSUME NEW p \in Proc, CheckQueue(p)
      PROVE  Inv'
  <2>1. CASE UNCHANGED pc
    BY <1>3, <1>8, <2>1
  <2>2. CASE ~ UNCHANGED pc
    <3>1. PICK l \in Listener : pc[l] = "off" /\ Goto(l, "call")
      BY <1>8, <2>2 DEF CheckQueue
    <3>2. status' \in [Proc -> Stage]
      BY <1>8 DEF CheckQueue, Turn, Stage, Inv, TypeOK
    <3>3. TypeOK'
      BY <1>8, <3>1, <3>2 DEF CheckQueue, Turn, Goto, Inv, TypeOK
    <3> QED
      BY <1>6, <1>8, <3>1, <3>3 DEF CheckQueue, Turn
  <2> QED
    BY <2>1, <2>2
<1>9. CASE Rewrite
  <2>1. budget' \in Budget
    BY <1>9, SpendType DEF Rewrite, Inv
  <2>2. TypeOK' /\ OtherQueuesEmpty' /\ \A r \in Queue : sent[r] <= sent'[r]
    BY <1>9, <2>1 DEF Rewrite, Inv, TypeOK, OtherQueuesEmpty, loopVars
  <2> QED
    BY <1>9, <2>2, QuietStep DEF Rewrite
<1>10. ASSUME NEW p \in Proc, Starts(p) \/ JoinFails(p) \/ Leaves(p) \/ Crash(p)
       PROVE  Inv'
  <2>1. CASE Boot(p) \/ AddQueue(p) \/ JoinFails(p) \/ DelQueue(p) \/ Drained(p)
    BY <1>3, <2>1
  <2>2. CASE Exit(p) \/ Crash(p)
    BY <1>5, <2>2
  <2>3. CASE CheckQueue(p)
    BY <1>8, <2>3
  <2> QED
    BY <1>10, <2>1, <2>2, <2>3 DEF Starts, Leaves
<1>11. ASSUME NEW l \in Listener,
              Listen(l) \/ LoopStep(l) \/ Return(l) \/ LoopFails(l)
       PROVE  Inv'
  BY <1>7, <1>11, LoopInv, FailInv DEF Inv
<1> QED
  BY <1>1, <1>2, <1>4, <1>9, <1>10, <1>11 DEF Next

-----------------------------------------------------------------------------
\* The invariant is about NothingSkipped.
LEMMA InvSkips == Inv => NothingSkipped
<1> SUFFICES ASSUME Inv, NEW i \in 0..(offset - 1)
             PROVE  OfKey(i) \in ran \cup lost \cup InHand
  BY DEF NothingSkipped
<1>1. Taken(i)
  BY DEF Inv, StoreInv
<1>2. ASSUME NEW l \in Listener, OfKey(i) \in held[l]
      PROVE  OfKey(i) \in InHand
  BY <1>2 DEF InHand
<1> QED
  BY <1>1, <1>2 DEF Taken

\* The types of the offset, the listeners and the slaves.
THEOREM ConsumerTypeCorrect == Spec => []TypeOK
<1>1. Inv => TypeOK
  BY DEF Inv
<1> QED
  BY InitInv, NextInv, <1>1, PTL DEF Spec

\* The offset of a queue never passes a message that no listener took,
\* whatever listeners share it and whatever fails (LoopPull, setOffset).
THEOREM NothingSkippedCorrect == Spec => []NothingSkipped
<1> QED
  BY InitInv, NextInv, InvSkips, PTL DEF Spec

-----------------------------------------------------------------------------
(***************************************************************************)
(* One listener at a time and a store that does not fail: the queue is a   *)
(* TopicFifo.  Inv is not enough: the offset a listener read must still be *)
(* the one in the store when it writes the next, and the message in hand   *)
(* must be the last one below the offset.                                  *)
(***************************************************************************)
\* Each slave has one listener.
OnePerSlave == \A l, k \in Listener : HostOf[l] = HostOf[k] => l = k

\* No access fails, no reload makes slaves overlap, and the listener of a
\* slave that does not live does nothing.
Lone ==
    /\ budget.errors = 0 /\ budget.reloads = 0
    /\ \A p \in Proc :
            status[p] \in {"new", "joining", "checking", "up", "gone"}
    /\ \A p, q \in Proc : Alive(p) /\ Alive(q) => p = q
    /\ \A l \in Listener : ~ Alive(HostOf[l]) => pc[l] = "off"

\* Offsets that were read are current, the message in hand is the last one
\* below the offset, and it comes after every message started before.
InOrder ==
    /\ \A l \in Listener : pc[l] \in {"pull", "set"} => off[l] = offset
    /\ \A l \in Listener : \A m \in held[l] :
        /\ m.queue = KeyQueue /\ m.index + 1 = offset
        /\ pc[l] # "run" => \A n \in ran : n.index < m.index
    /\ \A n \in ran : n.index < offset

FifoInv == Inv /\ Lone /\ InOrder

\* A listener that runs is the only one that is not off.
LEMMA SoleListener ==
    ASSUME FifoInv, OnePerSlave, NEW l \in Listener, Runs(l)
    PROVE  \A k \in Listener : k # l => pc[k] = "off" /\ held[k] = {}
<1>1. \A k \in Listener : HostOf[k] \in Proc
  BY ConsumerConstantsOK
<1>2. Alive(HostOf[l])
  BY DEF Runs
<1>3. ASSUME NEW k \in Listener, k # l
      PROVE  pc[k] = "off" /\ held[k] = {}
  <2>1. ~ Alive(HostOf[k])
    BY <1>1, <1>2, <1>3 DEF FifoInv, Lone, OnePerSlave
  <2> QED
    BY <2>1 DEF FifoInv, Lone, Inv, HandInv
<1> QED
  BY <1>3

\* A listener's step keeps Lone if no slave changes and nothing is spent.
LEMMA LoneStays ==
    ASSUME FifoInv, OnePerSlave, NEW l \in Listener, Runs(l), Others(l),
           UNCHANGED <<status, budget>>
    PROVE  Lone'
  BY SoleListener DEF Lone, Alive, Runs, FifoInv, Others

\* A listener's step keeps InOrder if that listener keeps its part.
LEMMA InOrderStays ==
    ASSUME FifoInv, OnePerSlave, NEW l \in Listener, Runs(l), Others(l),
           pc'[l] \in {"pull", "set"} => off'[l] = offset',
           \A m \in held'[l] :
                /\ m.queue = KeyQueue /\ m.index + 1 = offset'
                /\ pc'[l] # "run" => \A n \in ran' : n.index < m.index,
           \A n \in ran' : n.index < offset'
    PROVE  InOrder'
<1>1. \A k \in Listener : k # l => pc'[k] = "off" /\ held'[k] = {}
  BY SoleListener DEF Others
<1> QED
  BY <1>1 DEF InOrder

\* No access fails when there is no error to spend.
LEMMA NoFailure == ASSUME FifoInv, NEW l \in Listener PROVE ~ LoopFails(l)
<1>1. ~ Spend("errors")
  BY DEF FifoInv, Lone, Spend
<1> QED
  BY <1>1 DEF LoopFails, StartFails, GetOffsetFails, PullTimeout,
              SetOffsetFails

\* Writing the next offset while it is the one in the store.
LEMMA SetTakesNext ==
    ASSUME FifoInv, OnePerSlave, NEW l \in Listener, SetOffset(l)
    PROVE  /\ offset \in Nat /\ offset < sent[KeyQueue]
           /\ offset' = offset + 1
           /\ held[l] = {}
           /\ held'[l] = {OfKey(offset)}
           /\ pc[l] = "set" /\ pc'[l] # "run" /\ pc'[l] \notin {"pull", "set"}
           /\ Others(l)
<1>1. /\ pc[l] = "set" /\ Advance(l, Pulled(l)) /\ off' = off
      /\ held' = [held EXCEPT ![l] = Pulled(l)]
      /\ offset' = NextOffset(l)
    BY DEF SetOffset
<1>2. Inv /\ TypeOK
  BY DEF FifoInv, Inv
<1>3. at[l] = KeyQueue /\ held[l] = {}
  BY <1>1, <1>2, PullTakes
<1>4. off[l] = offset /\ off[l] < sent[at[l]]
  BY <1>1, <1>2 DEF FifoInv, InOrder, Inv, PulledInv
<1>5. Pulled(l) = {OfKey(offset)}
  BY <1>3, <1>4 DEF Pulled, OfKey
<1>6. /\ pc'[l] \in {"offset", "call", "hold"}
      /\ \A k \in Listener : k # l => pc'[k] = pc[k] /\ at'[k] = at[k]
  BY <1>1, <1>2, AdvanceType
<1>7. offset \in Nat /\ held \in [Listener -> SUBSET Message]
  BY <1>2 DEF TypeOK
<1> QED
  BY <1>1, <1>3, <1>4, <1>5, <1>6, <1>7 DEF NextOffset, Others

\* Every step keeps the order.
LEMMA FifoStep ==
    ASSUME FifoInv, OnePerSlave, [Next]_vars
    PROVE  FifoInv'
<1>1. Inv /\ Inv' /\ TypeOK
  BY NextInv DEF FifoInv, Inv
<1>2. ASSUME Lone', UNCHANGED <<offset, loopVars, ran>>
      PROVE  FifoInv'
  BY <1>1, <1>2 DEF loopVars, FifoInv, InOrder
<1>3. CASE UNCHANGED vars \/ Send
  <2>1. UNCHANGED <<offset, status, loopVars, ran, budget>>
    BY <1>3 DEF vars, Send, loopVars
  <2>2. Lone'
    BY <2>1 DEF FifoInv, Lone, Alive, loopVars
  <2> QED
    BY <1>2, <2>1, <2>2
<1>4. ASSUME NEW p, (p \in Proc /\ (Boot(p) \/ AddQueue(p))) \/ Rewrite
      PROVE  FifoInv'
  <2>1. /\ UNCHANGED <<offset, loopVars, ran>>
        /\ budget'.errors = budget.errors /\ budget'.reloads = budget.reloads
    BY <1>1, <1>4 DEF Boot, AddQueue, Rewrite, Turn, Spend, TypeOK, Budget,
                      loopVars
  <2>2. \/ status' = status
        \/ /\ status[p] = "joining" /\ status' = [status EXCEPT ![p] = "checking"]
        \/ /\ status' = [status EXCEPT ![p] = "joining"]
           /\ \A q \in Proc : status[q] \notin {"joining", "checking", "up"}
    BY <1>4 DEF Boot, AddQueue, Rewrite, Turn
  <2>3. Lone'
    BY <1>1, <2>1, <2>2, ConsumerConstantsOK
       DEF FifoInv, Lone, Alive, loopVars, TypeOK
  <2> QED
    BY <1>2, <2>1, <2>3
<1>5. ASSUME NEW p \in Proc, Crash(p)
      PROVE  FifoInv'
  <2>1. /\ status' = [status EXCEPT ![p] = "gone"]
        /\ pc' = [l \in Listener |-> IF HostOf[l] = p THEN "off" ELSE pc[l]]
        /\ off' = [l \in Listener |-> IF HostOf[l] = p THEN 0 ELSE off[l]]
        /\ held' = [l \in Listener |-> IF HostOf[l] = p THEN {} ELSE held[l]]
        /\ UNCHANGED <<offset, ran>>
        /\ budget'.errors = budget.errors /\ budget'.reloads = budget.reloads
    BY <1>1, <1>5 DEF Crash, Ends, Spend, TypeOK, Budget
  <2>2. Lone'
    BY <1>1, <2>1, ConsumerConstantsOK DEF FifoInv, Lone, Alive, TypeOK
  <2>3. InOrder'
    BY <2>1 DEF FifoInv, InOrder
  <2> QED
    BY <1>1, <2>2, <2>3 DEF FifoInv
<1>6. ASSUME NEW p \in Proc
      PROVE  /\ ~ DelQueue(p) /\ ~ Drained(p) /\ ~ Exit(p) /\ ~ JoinFails(p)
             /\ \A q \in Proc : ~ Reload(p, q)
  BY DEF FifoInv, Lone, DelQueue, Drained, Exit, JoinFails, Reload, Spend
<1>7. ASSUME NEW l \in Listener, Runs(l), Others(l), UNCHANGED <<status, budget>>,
             pc'[l] \in {"pull", "set"} => off'[l] = offset,
             pc[l] # "run",
             UNCHANGED <<offset, ran>>, held'[l] = held[l]
      PROVE  FifoInv'
  <2>1. \A m \in held'[l] :
            /\ m.queue = KeyQueue /\ m.index + 1 = offset'
            /\ \A n \in ran' : n.index < m.index
    BY <1>7 DEF FifoInv, InOrder
  <2>2. \A n \in ran' : n.index < offset'
    BY <1>7 DEF FifoInv, InOrder
  <2> QED
    BY <1>1, <1>7, <2>1, <2>2, LoneStays, InOrderStays DEF FifoInv
<1>8. ASSUME NEW l \in Listener,
             Listen(l) \/ Fetch(l) \/ GetOffset(l) \/ Pull(l)
      PROVE  FifoInv'
  <2>1. /\ Runs(l) /\ UNCHANGED <<status, budget, offset, ran>>
        /\ pc[l] # "run"
    BY <1>8 DEF Listen, Fetch, GetOffset, Pull, Serving, Runs, Alive
  <2>2. Others(l)
    BY <1>1, <1>8 DEF Listen, Fetch, GetOffset, Pull, Goto, Others, TypeOK
  <2>3. held'[l] = held[l]
    BY <1>1, <1>8 DEF Listen, Fetch, GetOffset, Pull, Inv, HandInv, TypeOK
  <2>4. pc'[l] \in {"pull", "set"} => off'[l] = offset
    BY <1>1, <1>8 DEF Listen, Fetch, GetOffset, Pull, Goto, TypeOK, FifoInv,
                      InOrder
  <2> QED
    BY <1>7, <2>1, <2>2, <2>3, <2>4
<1>9. ASSUME NEW l \in Listener, FetchNothing(l)
      PROVE  FifoInv'
  BY <1>3, <1>9 DEF FetchNothing
<1>10. ASSUME NEW l \in Listener, PullNothing(l)
       PROVE  FifoInv'
  <2>1. /\ pc'[l] \in {"offset", "call", "hold"}
        /\ \A k \in Listener : k # l => pc'[k] = pc[k] /\ at'[k] = at[k]
    BY <1>1, <1>10, AdvanceType DEF PullNothing
  <2>2. Others(l)
    BY <1>10, <2>1 DEF PullNothing, Others
  <2> QED
    BY <1>7, <1>10, <2>1, <2>2 DEF PullNothing
<1>11. ASSUME NEW l \in Listener, SetOffset(l)
       PROVE  FifoInv'
  <2>1. /\ offset \in Nat /\ offset' = offset + 1
        /\ held'[l] = {OfKey(offset)}
        /\ pc'[l] \notin {"pull", "set"} /\ Others(l)
    BY <1>11, SetTakesNext
  <2>2. Runs(l) /\ UNCHANGED <<status, budget, ran>>
    BY <1>11 DEF SetOffset
  <2>3. \A n \in ran : n.index \in Nat /\ n.index < offset
    BY <1>1 DEF FifoInv, InOrder, TypeOK, Message
  <2>4. \A m \in held'[l] :
            /\ m.queue = KeyQueue /\ m.index + 1 = offset'
            /\ pc'[l] # "run" => \A n \in ran' : n.index < m.index
    BY <2>1, <2>2, <2>3 DEF OfKey
  <2>5. \A n \in ran' : n.index < offset'
    BY <2>1, <2>2, <2>3
  <2> QED
    BY <1>1, <2>1, <2>2, <2>4, <2>5, LoneStays, InOrderStays DEF FifoInv
<1>12. ASSUME NEW l \in Listener, Handle(l)
       PROVE  FifoInv'
  <2>1. /\ Runs(l) /\ UNCHANGED <<status, budget, offset, held>>
        /\ ran' = ran \cup held[l] /\ pc'[l] = "run"
    BY <1>1, <1>12 DEF Handle, Goto, TypeOK
  <2>2. Others(l)
    BY <1>1, <1>12 DEF Handle, Goto, Others, TypeOK
  <2>3. \A m \in held[l] :
            m.queue = KeyQueue /\ m.index + 1 = offset /\ m.index \in Nat
    BY <1>1 DEF FifoInv, InOrder, TypeOK, Message
  <2>4. \A n \in ran' : n.index < offset'
    BY <2>1, <2>3 DEF FifoInv, InOrder
  <2> QED
    BY <1>1, <2>1, <2>2, <2>3, <2>4, LoneStays, InOrderStays DEF FifoInv
<1>13. ASSUME NEW l \in Listener, Return(l)
       PROVE  FifoInv'
  <2>1. /\ Runs(l) /\ UNCHANGED <<status, budget, offset, ran>>
        /\ held'[l] = {} /\ pc'[l] = "call"
    BY <1>1, <1>13 DEF Return, Goto, TypeOK
  <2>2. Others(l)
    BY <1>1, <1>13 DEF Return, Goto, Others, TypeOK
  <2>3. \A n \in ran' : n.index < offset'
    BY <2>1 DEF FifoInv, InOrder
  <2> QED
    BY <1>1, <2>1, <2>2, <2>3, LoneStays, InOrderStays DEF FifoInv
<1>14. ASSUME NEW p \in Proc, CheckQueue(p)
       PROVE  FifoInv'
  <2>1. /\ status[p] = "checking" /\ status' = [status EXCEPT ![p] = "up"]
        /\ UNCHANGED <<offset, off, held, ran, budget>>
    BY <1>14 DEF CheckQueue, Turn
  <2>2. \A l \in Listener :
            \/ pc'[l] = pc[l]
            \/ (HostOf[l] = p /\ pc[l] = "off" /\ pc'[l] = "call")
    <3>1. \/ pc' = pc
          \/ \E k \in Listener : HostOf[k] = p /\ pc[k] = "off" /\ Goto(k, "call")
      BY <1>14 DEF CheckQueue
    <3>2. ASSUME NEW k \in Listener, HostOf[k] = p, pc[k] = "off", Goto(k, "call")
          PROVE  \A l \in Listener :
                    \/ pc'[l] = pc[l]
                    \/ (HostOf[l] = p /\ pc[l] = "off" /\ pc'[l] = "call")
      BY <1>1, <3>2 DEF Goto, TypeOK
    <3> QED
      BY <3>1, <3>2
  <2>3. Lone'
    <3>1. status' \in [Proc -> Stage] /\ \A q \in Proc : Alive(q)' = Alive(q)
      BY <1>1, <2>1 DEF Alive, TypeOK, Stage
    <3>2. \A l \in Listener : ~ Alive(HostOf[l])' => pc'[l] = "off"
      BY <2>1, <2>2, <3>1, ConsumerConstantsOK DEF FifoInv, Lone, Alive
    <3> QED
      BY <1>1, <2>1, <3>1, <3>2 DEF FifoInv, Lone, TypeOK
  <2>4. InOrder'
    BY <2>1, <2>2 DEF FifoInv, InOrder
  <2> QED
    BY <1>1, <2>3, <2>4 DEF FifoInv
<1> QED
  BY <1>3, <1>4, <1>5, <1>6, <1>8, <1>9, <1>10, <1>11, <1>12, <1>13, <1>14,
     NoFailure
     DEF Next, LoopStep, Starts, Leaves

-----------------------------------------------------------------------------
\* The messages in hand and not started, and those whose job runs, as the
\* refinement takes them from the hands h and the places c of the listeners.
Waiting(h, c) ==
    {m.index : m \in UNION {h[l] : l \in {k \in Listener : c[k] # "run"}}}
Started(h, c) ==
    {m.index : m \in UNION {h[l] : l \in {k \in Listener : c[k] = "run"}}}

\* With one hand full at most, the refinement sees that hand.
LEMMA OneHand ==
    ASSUME NEW h, NEW c, NEW l \in Listener,
           \A k \in Listener : k # l => h[k] = {}
    PROVE  /\ c[l] # "run" => /\ Waiting(h, c) = {m.index : m \in h[l]}
                              /\ Started(h, c) = {}
           /\ c[l] = "run" => /\ Waiting(h, c) = {}
                              /\ Started(h, c) = {m.index : m \in h[l]}
<1>1. CASE c[l] # "run"
  <2>1. /\ UNION {h[k] : k \in {j \in Listener : c[j] # "run"}} = h[l]
        /\ UNION {h[k] : k \in {j \in Listener : c[j] = "run"}} = {}
    BY <1>1
  <2> QED
    BY <1>1, <2>1 DEF Waiting, Started
<1>2. CASE c[l] = "run"
  <2>1. /\ UNION {h[k] : k \in {j \in Listener : c[j] # "run"}} = {}
        /\ UNION {h[k] : k \in {j \in Listener : c[j] = "run"}} = h[l]
    BY <1>2
  <2> QED
    BY <1>2, <2>1 DEF Waiting, Started
<1> QED
  BY <1>1, <1>2

\* With every hand empty, it sees nothing.
LEMMA EmptyHands ==
    ASSUME NEW h, NEW c, \A k \in Listener : h[k] = {}
    PROVE  Waiting(h, c) = {} /\ Started(h, c) = {}
  BY DEF Waiting, Started

\* What the refinement sees does not change with the place of a listener that
\* neither starts nor ends a job.
LEMMA SameHands ==
    ASSUME UNCHANGED <<offset, held, ran>>, sent'[KeyQueue] = sent[KeyQueue],
           \A k \in Listener : pc'[k] = "run" <=> pc[k] = "run"
    PROVE  UNCHANGED Fifo!vars
<1>1. {k \in Listener : pc'[k] = "run"} = {k \in Listener : pc[k] = "run"}
  OBVIOUS
<1>2. {k \in Listener : pc'[k] # "run"} = {k \in Listener : pc[k] # "run"}
  OBVIOUS
<1> QED
  BY <1>1, <1>2 DEF Fifo!vars

\* Every step is a step of the abstract queue or changes nothing of it.
LEMMA FifoSimulation ==
    ASSUME FifoInv, OnePerSlave, [Next]_vars
    PROVE  [Fifo!Next]_(Fifo!vars)
<1>1. Inv /\ TypeOK /\ ConsumerConstantsOK
  BY ConsumerConstantsOK DEF FifoInv, Inv
<1>2. CASE UNCHANGED vars
  BY <1>2, SameHands DEF vars
<1>3. CASE Send
  <2>1. /\ sent[KeyQueue] < MaxSent /\ sent'[KeyQueue] = sent[KeyQueue] + 1
        /\ UNCHANGED <<offset, held, pc, ran>>
    BY <1>1, <1>3 DEF Send, Targets, loopVars, TypeOK, KeyQueue, Queue
  <2>2. Fifo!Send
    BY <2>1 DEF Fifo!Send
  <2> QED
    BY <2>2 DEF Fifo!Next
<1>4. ASSUME NEW p, Boot(p) \/ AddQueue(p) \/ CheckQueue(p) \/ Rewrite
      PROVE  UNCHANGED Fifo!vars
  <2>1. /\ UNCHANGED <<sent, offset, held, ran>>
        /\ \A k \in Listener : pc'[k] = "run" <=> pc[k] = "run"
    BY <1>1, <1>4 DEF Boot, AddQueue, CheckQueue, Rewrite, Turn, Goto, TypeOK,
                      loopVars
  <2> QED
    BY <2>1, SameHands
<1>5. ASSUME NEW p \in Proc
      PROVE  /\ ~ DelQueue(p) /\ ~ Drained(p) /\ ~ Exit(p) /\ ~ JoinFails(p)
             /\ \A q \in Proc : ~ Reload(p, q)
  BY DEF FifoInv, Lone, DelQueue, Drained, Exit, JoinFails, Reload, Spend
<1>6. ASSUME NEW p \in Proc, Crash(p)
      PROVE  [Fifo!Next]_(Fifo!vars)
  <2>1. /\ UNCHANGED <<sent, offset, ran>> /\ Alive(p)
        /\ held' = [l \in Listener |-> IF HostOf[l] = p THEN {} ELSE held[l]]
    BY <1>6 DEF Crash, Ends
  <2>2. \A k \in Listener : HostOf[k] # p => held[k] = {}
    BY <1>1, <2>1 DEF FifoInv, Lone, Inv, HandInv
  <2>3. Waiting(held, pc)' = {} /\ Started(held, pc)' = {}
    <3>1. \A k \in Listener : held'[k] = {}
      BY <2>1, <2>2
    <3>2. Waiting(held', pc') = {} /\ Started(held', pc') = {}
      BY <3>1, EmptyHands
    <3> QED
      BY <3>2 DEF Waiting, Started
  <2>4. Waiting(held, pc) = {} \/ Started(held, pc) = {}
    <3>1. CASE \E l \in Listener : HostOf[l] = p
      <4>1. PICK l \in Listener : HostOf[l] = p
        BY <3>1
      <4>2. \A k \in Listener : k # l => held[k] = {}
        BY <2>2, <4>1 DEF OnePerSlave
      <4> QED
        BY <4>2, OneHand
    <3>2. CASE ~ \E l \in Listener : HostOf[l] = p
      BY <2>2, <3>2, EmptyHands
    <3> QED
      BY <3>1, <3>2
  <2>5. \/ Fifo!Lose
        \/ Fifo!Finish
        \/ UNCHANGED Fifo!vars
    BY <2>1, <2>3, <2>4
       DEF Fifo!Lose, Fifo!Finish, Fifo!vars, Waiting, Started
  <2> QED
    BY <2>5 DEF Fifo!Next
<1>7. ASSUME NEW l \in Listener, Listen(l) \/ GetOffset(l) \/ Pull(l)
      PROVE  UNCHANGED Fifo!vars
  <2>1. /\ UNCHANGED <<sent, offset, held, ran>>
        /\ \A k \in Listener : pc'[k] = "run" <=> pc[k] = "run"
    BY <1>1, <1>7 DEF Listen, GetOffset, Pull, Goto, TypeOK
  <2> QED
    BY <2>1, SameHands
<1>8. ASSUME NEW l \in Listener, Fetch(l)
      PROVE  UNCHANGED Fifo!vars
  <2>1. held[l] = {}
    BY <1>1, <1>8 DEF Fetch, Inv, HandInv
  <2>2. /\ UNCHANGED <<sent, offset, held, ran>>
        /\ \A k \in Listener : pc'[k] = "run" <=> pc[k] = "run"
    BY <1>1, <1>8, <2>1 DEF Fetch, Goto, TypeOK
  <2> QED
    BY <2>2, SameHands
<1>9. ASSUME NEW l \in Listener, PullNothing(l)
      PROVE  UNCHANGED Fifo!vars
  <2>1. /\ pc'[l] \in {"offset", "call", "hold"}
        /\ \A k \in Listener : k # l => pc'[k] = pc[k] /\ at'[k] = at[k]
    BY <1>1, <1>9, AdvanceType DEF PullNothing
  <2>2. \A k \in Listener : pc'[k] = "run" <=> pc[k] = "run"
    BY <1>9, <2>1 DEF PullNothing
  <2> QED
    BY <1>9, <2>2, SameHands DEF PullNothing
<1>10. ASSUME NEW l \in Listener, SetOffset(l)
       PROVE  Fifo!Take
  <2>1. /\ offset < sent[KeyQueue] /\ offset' = offset + 1
        /\ held[l] = {} /\ held'[l] = {OfKey(offset)}
        /\ pc[l] = "set" /\ pc'[l] # "run" /\ Others(l)
    BY <1>10, SetTakesNext
  <2>2. \A k \in Listener : k # l => held[k] = {} /\ held'[k] = {}
    BY <1>10, <2>1, SoleListener DEF SetOffset, Others
  <2>3. Waiting(held, pc) = {} /\ Started(held, pc) = {}
    BY <2>1, <2>2, EmptyHands
  <2>4. /\ Waiting(held', pc') = {m.index : m \in held'[l]}
        /\ Started(held', pc') = {}
    BY <2>1, <2>2, OneHand
  <2>5. {m.index : m \in held'[l]} = {offset}
    BY <2>1 DEF OfKey
  <2> QED
    BY <1>10, <2>1, <2>3, <2>4, <2>5
       DEF SetOffset, Fifo!Take, Waiting, Started
<1>11. ASSUME NEW l \in Listener, Handle(l)
       PROVE  [Fifo!Next]_(Fifo!vars)
  <2>1. /\ UNCHANGED <<sent, offset, held>> /\ ran' = ran \cup held[l]
        /\ pc[l] = "hold" /\ pc'[l] = "run"
        /\ \A k \in Listener : k # l => pc'[k] = pc[k] /\ held[k] = {}
    BY <1>1, <1>11, SoleListener DEF Handle, Goto, TypeOK
  <2>2. /\ Waiting(held, pc) = {m.index : m \in held[l]}
        /\ Started(held, pc) = {}
    BY <2>1, OneHand
  <2>3. /\ Waiting(held', pc') = {}
        /\ Started(held', pc') = {m.index : m \in held[l]}
    BY <2>1, OneHand
  <2>4. CASE held[l] = {}
    <3>1. UNCHANGED ran /\ {m.index : m \in held[l]} = {}
      BY <2>1, <2>4
    <3>2. UNCHANGED Fifo!vars
      BY <2>1, <2>2, <2>3, <3>1 DEF Fifo!vars, Waiting, Started
    <3> QED
      BY <3>2
  <2>5. CASE held[l] # {}
    <3>1. PICK m \in held[l] : TRUE
      BY <2>5
    <3>2. \A n \in held[l] : n = m
      <4> SUFFICES ASSUME NEW n \in held[l] PROVE n = m
        OBVIOUS
      <4>1. n \in Message /\ m \in Message
        BY <1>1, <3>1 DEF TypeOK
      <4>2. /\ n.queue = m.queue
            /\ n.index + 1 = offset /\ m.index + 1 = offset
        BY <3>1 DEF FifoInv, InOrder
      <4>3. n.index = m.index
        BY <4>1, <4>2 DEF Message
      <4> QED
        BY <4>1, <4>2, <4>3 DEF Message
    <3>3. {n.index : n \in held[l]} = {m.index}
      BY <3>1, <3>2
    <3>4. \A n \in ran : n.index < m.index
      BY <2>1, <3>1 DEF FifoInv, InOrder
    <3>5. {n.index : n \in ran'} = {n.index : n \in ran} \cup {m.index}
      BY <2>1, <3>1, <3>2
    <3>6. m.index \in Waiting(held, pc) /\ Started(held', pc') = {m.index}
      BY <2>2, <2>3, <3>3
    <3>7. \A n \in {k.index : k \in ran} : n < m.index
      BY <3>4
    <3> DEFINE x == m.index
    <3> HIDE DEF x
    <3>8. /\ x \in Waiting(held, pc) /\ Started(held', pc') = {x}
          /\ \A n \in {k.index : k \in ran} : n < x
          /\ {n.index : n \in ran'} = {n.index : n \in ran} \cup {x}
      BY <3>5, <3>6, <3>7 DEF x
    <3>9. Fifo!Start
      BY <2>1, <2>3, <3>8 DEF Fifo!Start, Waiting, Started
    <3> QED
      BY <3>9 DEF Fifo!Next
  <2> QED
    BY <2>4, <2>5
<1>12. ASSUME NEW l \in Listener, Return(l)
       PROVE  [Fifo!Next]_(Fifo!vars)
  <2>1. /\ UNCHANGED <<sent, offset, ran>> /\ pc[l] = "run"
        /\ \A k \in Listener : held'[k] = {}
        /\ \A k \in Listener : k # l => held[k] = {}
    BY <1>1, <1>12, SoleListener DEF Return, TypeOK
  <2>2. /\ Waiting(held, pc) = {}
        /\ Started(held, pc) = {m.index : m \in held[l]}
    BY <2>1, OneHand
  <2>3. Waiting(held', pc') = {} /\ Started(held', pc') = {}
    BY <2>1, EmptyHands
  <2>4. Fifo!Finish \/ UNCHANGED Fifo!vars
    BY <2>1, <2>2, <2>3 DEF Fifo!Finish, Fifo!vars, Waiting, Started
  <2> QED
    BY <2>4 DEF Fifo!Next
<1>13. ASSUME NEW l \in Listener, FetchNothing(l)
       PROVE  UNCHANGED Fifo!vars
  BY <1>13, <1>2, SameHands DEF FetchNothing, vars
<1>14. Fifo!Take => Fifo!Next
  BY DEF Fifo!Next
<1> QED
  BY <1>2, <1>3, <1>4, <1>5, <1>6, <1>7, <1>8, <1>9, <1>10, <1>11, <1>12,
     <1>13, <1>14, NoFailure
     DEF Next, LoopStep, Starts, Leaves

\* A node's queue is the abstract one: with one listener in a slave, no reload
\* and a store that answers, its messages are handed over in order, each at
\* most once, across any number of crashes (LoopPull, ConsumeWithPull).
THEOREM HandsOverInOrderCorrect ==
    ASSUME OnePerSlave, MaxErrors = 0, MaxReloads = 0
    PROVE  Spec => HandsOverInOrder
<1>1. Init => FifoInv
  <2> SUFFICES ASSUME Init PROVE FifoInv
    OBVIOUS
  <2>1. Lone /\ InOrder
    BY DEF Init, Lone, InOrder, Alive
  <2> QED
    BY <2>1, InitInv DEF FifoInv
<1>2. Init => Fifo!Init
  <2> SUFFICES ASSUME Init PROVE Fifo!Init
    OBVIOUS
  <2>1. Waiting(held, pc) = {} /\ Started(held, pc) = {}
    BY EmptyHands DEF Init
  <2>2. sent[KeyQueue] = 0
    BY ConsumerConstantsOK DEF Init, KeyQueue, Queue
  <2> QED
    BY <2>1, <2>2 DEF Init, Fifo!Init, Waiting, Started
<1>3. FifoInv /\ [Next]_vars => FifoInv'
  BY FifoStep
<1>4. FifoInv /\ [Next]_vars => [Fifo!Next]_(Fifo!vars)
  BY FifoSimulation
<1> QED
  BY <1>1, <1>2, <1>3, <1>4, PTL DEF Spec, HandsOverInOrder, Fifo!Spec
=============================================================================
