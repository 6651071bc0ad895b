------------------------------ MODULE TopicFifo ------------------------------
(***************************************************************************)
(* What a node's queue promises its jobs: the messages of the topic are    *)
(* handed over in order, each at most once and one at a time; a message in *)
(* hand may be lost with the process that holds it, never another one.     *)
(***************************************************************************)
EXTENDS Naturals

CONSTANT MaxSent    \* bound: messages sent

VARIABLES
    sent,       \* messages the topic has: 0..sent-1
    next,       \* the first message not handed over yet
    hand,       \* the message handed over and not started, if any
    running,    \* the message whose job runs, if any
    ran         \* the messages started so far

vars == <<sent, next, hand, running, ran>>

Init ==
    /\ sent = 0
    /\ next = 0
    /\ hand = {}
    /\ running = {}
    /\ ran = {}

Send ==
    /\ sent < MaxSent
    /\ sent' = sent + 1
    /\ UNCHANGED <<next, hand, running, ran>>

Take ==
    /\ next < sent
    /\ hand = {}
    /\ running = {}
    /\ hand' = {next}
    /\ next' = next + 1
    /\ UNCHANGED <<sent, running, ran>>

Start ==
    /\ \E m \in hand :
        /\ \A n \in ran : n < m
        /\ running' = {m}
        /\ ran' = ran \cup {m}
    /\ hand' = {}
    /\ UNCHANGED <<sent, next>>

Finish ==
    /\ running # {}
    /\ running' = {}
    /\ UNCHANGED <<sent, next, hand, ran>>

Lose ==
    /\ hand # {}
    /\ hand' = {}
    /\ UNCHANGED <<sent, next, running, ran>>

Next == Send \/ Take \/ Start \/ Finish \/ Lose

Spec == Init /\ [][Next]_vars
=============================================================================
