---------------------------- MODULE RemoteCommand ----------------------------
(***************************************************************************)
(* What a remote call promises to the dispatch that makes it: its command  *)
(* is started at most once, success is reported only of a command that     *)
(* ended well, and what is reported stays.  Failure may be reported at any *)
(* time and says nothing of the command, which may run on, or start later. *)
(***************************************************************************)
CONSTANT Call

VARIABLES
    outcome,    \* call -> idle, none, ok, failed
    run         \* call -> none, running, ok, err, killed

cmdVars == <<outcome, run>>

Init ==
    /\ outcome = [c \in Call |-> "idle"]
    /\ run = [c \in Call |-> "none"]

Begin(c) ==
    /\ outcome[c] # "none"
    /\ run[c] # "running"
    /\ outcome' = [outcome EXCEPT ![c] = "none"]
    /\ run' = [run EXCEPT ![c] = "none"]

Start(c) ==
    /\ outcome[c] # "idle"
    /\ run[c] = "none"
    /\ run' = [run EXCEPT ![c] = "running"]
    /\ UNCHANGED outcome

End(c) ==
    /\ run[c] = "running"
    /\ \E r \in {"ok", "err", "killed"} : run' = [run EXCEPT ![c] = r]
    /\ UNCHANGED outcome

ReportOk(c) ==
    /\ outcome[c] = "none"
    /\ run[c] = "ok"
    /\ outcome' = [outcome EXCEPT ![c] = "ok"]
    /\ UNCHANGED run

ReportFailure(c) ==
    /\ outcome[c] = "none"
    /\ outcome' = [outcome EXCEPT ![c] = "failed"]
    /\ UNCHANGED run

Next ==
    \E c \in Call :
        Begin(c) \/ Start(c) \/ End(c) \/ ReportOk(c) \/ ReportFailure(c)

Spec == Init /\ [][Next]_cmdVars
=============================================================================
