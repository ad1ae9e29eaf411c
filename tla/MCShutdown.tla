----------------------------- MODULE MCShutdown -----------------------------
(* One z_sendmany, one z_getoperationresult and one longpoll, two HTTP       *)
(* workers and the one worker of the operations.                            *)
EXTENDS Shutdown

CONSTANTS send, result, poll

MCKind == [r \in Req |-> IF r = send THEN "send" ELSE IF r = result THEN "result" ELSE "longpoll"]

=============================================================================
