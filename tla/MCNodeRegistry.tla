--------------------------- MODULE MCNodeRegistry ---------------------------
(* Instances of NodeRegistry for TLC.                                       *)
EXTENDS NodeRegistry, TLC

CONSTANTS s1, s2, a1, a2

\* Two incarnations of one node; two nodes.
OneNode == s1 :> a1 @@ s2 :> a1
TwoNodes == s1 :> a1 @@ s2 :> a2

NoFaults == {[errors |-> 0, polls |-> 0, crashes |-> 0, signals |-> 0,
              deletes |-> 0]}

\* One fault of each kind and a signal; or a request of the API beside a
\* signal and a crash.
MCBudgets ==
    {[errors |-> 1, polls |-> 1, crashes |-> 1, signals |-> 1, deletes |-> 0],
     [errors |-> 0, polls |-> 0, crashes |-> 1, signals |-> 1, deletes |-> 1]}
=============================================================================
