---------------------------- MODULE MCNodeHealth ----------------------------
(* NodeHealth for TLC: two incarnations of one node; a failing poll, a       *)
(* failing callback, or a request whose lookup may fail.                     *)
EXTENDS NodeHealth, TLC

CONSTANTS s1, s2, a1

MCAddrOf == s1 :> a1 @@ s2 :> a1
OneRequest == {[polls |-> 0, errors |-> 0, lookups |-> 0, requests |-> 1]}
OneFault == {[polls |-> 1, errors |-> 0, lookups |-> 0, requests |-> 0],
             [polls |-> 0, errors |-> 1, lookups |-> 0, requests |-> 0],
             [polls |-> 0, errors |-> 0, lookups |-> 1, requests |-> 1]}
=============================================================================
