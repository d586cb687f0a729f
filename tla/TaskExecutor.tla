---------------------------- MODULE TaskExecutor -----------------------------
(***************************************************************************)
(* ResearchAgentExecutor (functions/agent/skills.py): for each task one    *)
(* execute(), which brackets the pipeline's run with events, and any       *)
(* cancel() the SDK calls beside it. cancel() emits its final event and    *)
(* stops nothing; it is the SDK that may cancel execute(), which emits     *)
(* nothing then, as CancelledError is no Exception.                        *)
(*                                                                         *)
(* Abstractions. A query is "text", or "blank" if no part of the message   *)
(* holds any. An event is the state it announces, or "artifact". Tasks     *)
(* share the pipeline only, whose runs are ResearchPipeline's: here a run  *)
(* returns or raises. The SDK, and what it does with the events, is        *)
(* external.                                                               *)
(***************************************************************************)
EXTENDS Naturals, Sequences

CONSTANTS
    Task,
    MaxCancels   \* bound: calls of cancel() per task

ASSUME MaxCancelsAssumption == MaxCancels \in Nat

VARIABLES
    query,     \* what _extract_query finds
    step,      \* where execute() is suspended
    events,    \* the events of each task, in the order they were enqueued
    asked,     \* history: pipeline.run was called
    cancels    \* calls of cancel() so far

taskVars == <<query, step, events, asked, cancels>>

Final == {"completed", "failed", "canceled"}
Event == {"working", "artifact"} \cup Final

TaskInit ==
    /\ query \in [Task -> {"text", "blank"}]
    /\ step = [t \in Task |-> "new"]
    /\ events = [t \in Task |-> <<>>]
    /\ asked = [t \in Task |-> FALSE]
    /\ cancels = [t \in Task |-> 0]

----------------------------------------------------------------------------
Emit(t, e) == events' = [events EXCEPT ![t] = Append(@, e)]

At(t, here, there) == step[t] = here /\ step' = [step EXCEPT ![t] = there]

\* A query without text fails at once.
Refuse(t) ==
    /\ query[t] = "blank"
    /\ At(t, "new", "over")
    /\ Emit(t, "failed")
    /\ UNCHANGED <<query, asked, cancels>>

Accept(t) ==
    /\ query[t] = "text"
    /\ At(t, "new", "accepted")
    /\ Emit(t, "working")
    /\ UNCHANGED <<query, asked, cancels>>

Delegate(t) ==
    /\ At(t, "accepted", "running")
    /\ asked' = [asked EXCEPT ![t] = TRUE]
    /\ UNCHANGED <<query, events, cancels>>

\* Mutant: the return of the except branch is missing.
RaisedAndOn(t) == At(t, "running", "delivered")

Raised(t) == At(t, "running", "over")

\* Any Exception of the pipeline becomes a failed task.
PipelineRaises(t) ==
    /\ Raised(t)
    /\ Emit(t, "failed")
    /\ UNCHANGED <<query, asked, cancels>>

\* Mutant: the artifact is emitted after the task was marked complete.
CompleteFirst(t) == IF step[t] = "running" THEN "completed" ELSE "artifact"

\* What the rest of execute() emits once the pipeline has returned.
Outcome(t) == IF step[t] = "running" THEN "artifact" ELSE "completed"

PipelineReturns(t) ==
    /\ At(t, "running", "delivered")
    /\ Emit(t, Outcome(t))
    /\ UNCHANGED <<query, asked, cancels>>

\* Mutant: the completed event is never sent.
HeldBack(t) == FALSE

Closes(t) == step[t] = "delivered"

Complete(t) ==
    /\ Closes(t)
    /\ At(t, "delivered", "over")
    /\ Emit(t, Outcome(t))
    /\ UNCHANGED <<query, asked, cancels>>

\* The SDK cancels execute() at one of its awaits.
Kill(t) ==
    /\ step[t] \in {"accepted", "running", "delivered"}
    /\ step' = [step EXCEPT ![t] = "killed"]
    /\ UNCHANGED <<query, events, asked, cancels>>

\* cancel(): one final event, whatever execute() has done or will do.
CancelTask(t) ==
    /\ step[t] # "new"
    /\ cancels[t] < MaxCancels
    /\ cancels' = [cancels EXCEPT ![t] = @ + 1]
    /\ Emit(t, "canceled")
    /\ UNCHANGED <<query, step, asked>>

Begin(t) == Refuse(t) \/ Accept(t)

\* execute() once begun.
Run(t) == Delegate(t) \/ PipelineRaises(t) \/ PipelineReturns(t) \/ Complete(t)

TaskNext == \E t \in Task : Begin(t) \/ Run(t) \/ Kill(t) \/ CancelTask(t)

TaskSpec == TaskInit /\ [][TaskNext]_taskVars

----------------------------------------------------------------------------
(* Properties. *)

TaskTypeOK ==
    /\ query \in [Task -> {"text", "blank"}]
    /\ step \in [Task -> {"new", "accepted", "running", "delivered", "over", "killed"}]
    /\ events \in [Task -> Seq(Event)]
    /\ asked \in [Task -> BOOLEAN]
    /\ cancels \in [Task -> 0..MaxCancels]

FinalAt(t) == {i \in DOMAIN events[t] : events[t][i] \in Final}

\* A client reads a task up to its first final event.
Cut(t) ==
    IF FinalAt(t) = {} THEN Len(events[t])
    ELSE CHOOSE i \in FinalAt(t) : \A j \in FinalAt(t) : i <= j
View == [t \in Task |-> SubSeq(events[t], 1, Cut(t))]

\* Whatever cancel() and the SDK do beside execute(), that client sees a task
\* of the protocol: working, one artifact, completed; or cut short by failed
\* or by canceled.
Protocol == INSTANCE TaskProtocol WITH seen <- View
ClientSeesTheProtocol == Protocol!Spec

\* An event follows a final one only if one of the two is cancel()'s.
OnlyCancelsOverlap ==
    \A t \in Task : \A i \in FinalAt(t), j \in DOMAIN events[t] :
        i < j => events[t][i] = "canceled" \/ events[t][j] = "canceled"

\* skills.py:18 "Missing/empty queries short-circuit to state=failed": they
\* cost no run of the pipeline, and a failed task has no artifact.
FailedTasksAreEmpty ==
    \A t \in Task :
        LET told == {events[t][i] : i \in DOMAIN events[t]}
        IN  /\ query[t] = "blank" => ~asked[t] /\ told \subseteq {"failed", "canceled"}
            /\ "failed" \in told => "artifact" \notin told
            /\ "artifact" \in told => asked[t]

\* Beyond the first final event, too, execute() tells one story: it ends a
\* task once, is silent afterwards, and does not mix failure and result.
OneStory == OnlyCancelsOverlap /\ FailedTasksAreEmpty

Settled(t) == FinalAt(t) # {}
=============================================================================
