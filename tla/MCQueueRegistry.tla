--------------------------- MODULE MCQueueRegistry ---------------------------
(* QueueRegistry for TLC: nodes a1, with slaves s1 and s2 in turn, and a2 in *)
(* the first group; the node a3 of the second is never started.              *)
EXTENDS QueueRegistry, TLC

CONSTANTS s1, s2, s3, a1, a2, a3, g1, g2

Symmetry == Permutations(Handler) \cup Permutations(Job)

SlaveAddrs == s1 :> a1 @@ s2 :> a1 @@ s3 :> a2
AddrGroups == a1 :> g1 @@ a2 :> g1 @@ a3 :> g2

NoEvent == [requests |-> 0, moves |-> 0, removals |-> 0, overlaps |-> 0,
            meets |-> 0, reloads |-> 0, crashes |-> 0]

\* Requests, one after the other.
InTurn == {[NoEvent EXCEPT !.requests = 3]}

\* A request while slaves start.
OneRequest == {[NoEvent EXCEPT !.requests = 1, !.overlaps = 1, !.reloads = 1]}

\* Requests in turn, jobs that change their group, a slave that dies, a request
\* beside another's queues, beside a reload and beside the deletion of a node.
Mixes == {
    [NoEvent EXCEPT !.requests = 3, !.moves = 1],
    [NoEvent EXCEPT !.requests = 2, !.crashes = 1],
    [NoEvent EXCEPT !.requests = 2, !.overlaps = 1],
    [NoEvent EXCEPT !.requests = 1, !.overlaps = 1, !.reloads = 1],
    [NoEvent EXCEPT !.requests = 1, !.removals = 1, !.overlaps = 1]}
==============================================================================
