--------------------------- MODULE MCPullConsumer ---------------------------
(* PullConsumer for TLC.                                                    *)
EXTENDS PullConsumer, TLC

CONSTANTS p1, p2, p3, l1, l2, l3

\* One listener in each of two slaves.
OneEach == l1 :> p1 @@ l2 :> p2

\* A second listener in the slave that a reload starts.
TwoInSecond == l1 :> p1 @@ l2 :> p2 @@ l3 :> p2
=============================================================================
