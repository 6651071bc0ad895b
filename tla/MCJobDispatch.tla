---------------------------- MODULE MCJobDispatch ----------------------------
(* JobDispatch for TLC: an RPC job, an HTTP job, two MQ jobs, a job without  *)
(* a way to dispatch it and the mail job.                                    *)
EXTENDS JobDispatch, TLC

CONSTANTS rpc, http, mq, bad, odd, mail

Kinds == rpc :> "rpc" @@ http :> "http" @@ mq :> "mq" @@ bad :> "mq"
            @@ odd :> "other" @@ mail :> "http"
Depends == rpc :> 2 @@ http :> 2 @@ mq :> 2 @@ bad :> 2 @@ odd :> 1 @@ mail :> 1

\* A successful RPC job is followed by two HTTP jobs, an MQ job by one with a
\* forbidden command, and the API dispatches the RPC job with the odd one.
ChildrenOf == rpc :> <<http, http>> @@ http :> <<>> @@ mq :> <<bad>>
                @@ bad :> <<>> @@ odd :> <<rpc>> @@ mail :> <<>>

Routes == [j \in Job |-> IF j = mq THEN 4 ELSE 1]
=============================================================================
