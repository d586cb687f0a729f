---------------------------- MODULE TaskProtocol -----------------------------
(***************************************************************************)
(* What an A2A client may see of a task it reads up to its end: the states *)
(* and the artifact that functions/agent/skills.py announces at its top. A *)
(* task is accepted, brings one artifact and completes, or it fails, or it *)
(* is cancelled; and then nothing more is seen.                            *)
(***************************************************************************)
EXTENDS Sequences

CONSTANT Task

VARIABLE seen    \* the events a client has seen of each task

Final == {"completed", "failed", "canceled"}

Init == seen = [t \in Task |-> <<>>]

Ended(t) == \E i \in DOMAIN seen[t] : seen[t][i] \in Final

See(t, e) == seen' = [seen EXCEPT ![t] = Append(@, e)]

Accepted(t) == seen[t] = <<>> /\ See(t, "working")

Delivered(t) == seen[t] = <<"working">> /\ See(t, "artifact")

Completed(t) == seen[t] = <<"working", "artifact">> /\ See(t, "completed")

Failed(t) == seen[t] \in {<<>>, <<"working">>} /\ See(t, "failed")

Canceled(t) == ~Ended(t) /\ See(t, "canceled")

Next ==
    \E t \in Task :
        Accepted(t) \/ Delivered(t) \/ Completed(t) \/ Failed(t) \/ Canceled(t)

Spec == Init /\ [][Next]_seen
=============================================================================
