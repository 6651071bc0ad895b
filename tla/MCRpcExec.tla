------------------------------ MODULE MCRpcExec ------------------------------
EXTENDS RpcExec

\* Mixes of one event of each kind of a set, and a number of callers.
Once(kinds, callers) ==
    [e \in {"reloads", "stops", "crashes", "quits", "failed", "breaks",
            "commands", "callers"} |->
        IF e = "callers" THEN callers ELSE IF e \in kinds THEN 1 ELSE 0]

MCBudgets ==
    {Once({"reloads", "stops", "crashes"}, 0), Once({"reloads", "failed"}, 0),
     Once({"reloads", "quits"}, 0), Once({"reloads", "commands"}, 0),
     Once({"reloads"}, 1), Once({"stops", "commands"}, 1),
     Once({"stops", "breaks"}, 1), Once({"crashes"}, 1), Once({"quits"}, 1),
     Once({"breaks"}, 2)}

MCDrainBudgets == {Once({"reloads"}, 2)}

MCCrashBudgets == {Once({"reloads", "crashes"}, 0)}

MCOne == {Once({"reloads", "crashes"}, 1)}

\* One job with a timeout and one without.
MCTimeOut == [c \in Call |-> c - 1]
=============================================================================
