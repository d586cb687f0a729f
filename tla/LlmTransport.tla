----------------------------- MODULE LlmTransport -----------------------------
(***************************************************************************)
(* The two call functions of functions/llm/client.py, under the retry      *)
(* envelope that awaits them. default_call_fn hands the synchronous Gemini *)
(* SDK to a thread of the event loop's executor, and asyncio.wait_for      *)
(* bounds how long the caller waits for it: when the timer goes off, a job *)
(* that no thread has taken yet is dropped, but a thread that runs goes    *)
(* on, and what it brings is nobody's. default_litellm_call_fn posts from  *)
(* the event loop, where the timer ends the request itself.                *)
(*                                                                         *)
(* Abstractions. A caller makes its attempts one after the other; the      *)
(* cache and the back-off between them are LlmClient's. What a backend     *)
(* sends is one of a few bodies. The SDK may never return. The executor is *)
(* external (the standard library's): it starts jobs in the order they     *)
(* were handed in, on at most Workers threads.                             *)
(***************************************************************************)
EXTENDS Integers, FiniteSets, Sequences

CONSTANTS
    Caller,    \* coroutines in the retry envelope
    Workers,   \* threads of the executor
    Attempts,  \* llm.retries + 1
    Nothing    \* no answer

ASSUME ConstantsAssumption == Workers \in Nat \ {0} /\ Attempts \in Nat \ {0}

Job == Caller \X (1..Attempts)

\* What may come back: a text, an empty one, a well-formed response that
\* holds no text, or a failure (no connection, a status that is an error, a
\* body that is not the JSON expected).
Body == {"text", "empty", "no text", "failure"}

\* What a caller is answered: the body, what was read in it, and which attempt
\* brought it.
Answers == [by : Job, body : Body, text : {"text", "empty"}]

ASSUME NothingAssumption == Nothing \notin Answers

VARIABLES
    backend,  \* settings.llm.backend
    pc,       \* where each caller is
    attempt,  \* attempts each caller has begun
    line,     \* jobs handed to the executor that no thread has taken
    job,      \* the state of each attempt's request, or the body that came back
    answer,   \* what each caller was answered, and by which of its attempts
    lapsed    \* history: attempts whose caller stopped waiting

vars == <<backend, pc, attempt, line, job, answer, lapsed>>

Init ==
    /\ backend \in {"gemini", "litellm"}
    /\ pc = [c \in Caller |-> "idle"]
    /\ attempt = [c \in Caller |-> 0]
    /\ line = <<>>
    /\ job = [j \in Job |-> "none"]
    /\ answer = [c \in Caller |-> Nothing]
    /\ lapsed = {}

Current(c) == <<c, attempt[c]>>
Running == {j \in Job : job[j] = "running"}
Ended == {"answered", "failed", "cancelled"}

----------------------------------------------------------------------------
\* What the caller makes of a body.  The SDK's "resp.text or ''" takes no text
\* for an empty one; the proxy's missing choices or content are an error.
Reading(b) ==
    IF b = "no text" THEN IF backend = "gemini" THEN "empty" ELSE "failure" ELSE b

\* An attempt goes out: to the executor's line, or on the wire.
Begin(c) ==
    /\ pc[c] \in {"idle", "resting"}
    /\ pc' = [pc EXCEPT ![c] = "waiting"]
    /\ attempt' = [attempt EXCEPT ![c] = @ + 1]
    /\ LET j == <<c, attempt[c] + 1>>
       IN  IF backend = "gemini"
             THEN /\ job' = [job EXCEPT ![j] = "queued"]
                  /\ line' = Append(line, j)
             ELSE /\ job' = [job EXCEPT ![j] = "running"]
                  /\ UNCHANGED line
    /\ UNCHANGED <<backend, answer, lapsed>>

\* A thread that takes a job finds it to be run, or cancelled in the line.
Taken(j) == IF j \in lapsed THEN "over" ELSE "running"

\* Mutant: a caller that stops waiting never gives its thread back.
IdleIfUsedUp == Cardinality(Running \cup lapsed) < Workers

Idle == Cardinality(Running) < Workers

Take ==
    /\ line # <<>>
    /\ Idle
    /\ job' = [job EXCEPT ![Head(line)] = Taken(Head(line))]
    /\ line' = Tail(line)
    /\ UNCHANGED <<backend, pc, attempt, answer, lapsed>>

\* The request ends in its thread; the event loop is yet to hear of it.
Respond(j, b) ==
    /\ job[j] = "running"
    /\ job' = [job EXCEPT ![j] = b]
    /\ UNCHANGED <<backend, pc, attempt, line, answer, lapsed>>

\* Mutant: whatever came back for the caller, a late answer to an attempt it
\* gave up included, is what it was waiting for.
AwaitedAnyOfMine(c, j) == pc[c] = "waiting" /\ j[1] = c

Awaited(c, j) == pc[c] = "waiting" /\ j = Current(c)

\* Mutant: off by one, an attempt too many.
GivesUpLate(c) == [pc EXCEPT ![c] = IF attempt[c] <= Attempts THEN "resting" ELSE "failed"]

\* An attempt that did not answer: the envelope rests, or is exhausted.
GivesUp(c) == [pc EXCEPT ![c] = IF attempt[c] < Attempts THEN "resting" ELSE "failed"]

\* The event loop hands a body to the caller that awaits it.
Deliver(c, j) ==
    /\ job[j] \in Body
    /\ Awaited(c, j)
    /\ job' = [job EXCEPT ![j] = "over"]
    /\ IF Reading(job[j]) = "failure"
         THEN pc' = GivesUp(c) /\ UNCHANGED answer
         ELSE /\ pc' = [pc EXCEPT ![c] = "answered"]
              /\ answer' = [answer EXCEPT ![c] =
                     [by |-> j, body |-> job[j], text |-> Reading(job[j])]]
    /\ UNCHANGED <<backend, attempt, line, lapsed>>

\* What comes back to nobody is dropped.
Drop(j) ==
    /\ job[j] \in Body
    /\ j \in lapsed
    /\ job' = [job EXCEPT ![j] = "over"]
    /\ UNCHANGED <<backend, pc, attempt, line, answer, lapsed>>

\* Mutant: no wait_for around the post, only the one around the thread.
AbandonedOnWire(j) == job

\* What the end of the wait does to the request: on the wire it is closed; a
\* thread cannot be stopped, and a job in the line is found cancelled there.
Abandoned(j) ==
    IF backend = "litellm" /\ job[j] = "running" THEN [job EXCEPT ![j] = "over"] ELSE job

\* Mutant: the timer starts with the thread (a timeout of the SDK's own).
TimerOfThread(c) == pc[c] = "waiting" /\ job[Current(c)] # "queued"

Timer(c) == pc[c] = "waiting"

StopWaiting(c) ==
    /\ lapsed' = lapsed \cup {Current(c)}
    /\ job' = Abandoned(Current(c))
    /\ UNCHANGED <<backend, attempt, line, answer>>

\* wait_for's timer goes off, perhaps with the answer already on its way.
Timeout(c) == Timer(c) /\ pc' = GivesUp(c) /\ StopWaiting(c)

\* The coroutine itself is cancelled while it waits.
Cancel(c) == pc[c] = "waiting" /\ pc' = [pc EXCEPT ![c] = "cancelled"] /\ StopWaiting(c)

\* The callers have ended; threads may still run, and jobs be in the line.
Done == (\A c \in Caller : pc[c] \in Ended) /\ UNCHANGED vars

Next ==
    \/ \E c \in Caller : Begin(c) \/ Timeout(c) \/ Cancel(c)
    \/ Take
    \/ \E j \in Job : Drop(j)
    \/ \E j \in Job, b \in Body : Respond(j, b)
    \/ \E c \in Caller, j \in Job : Deliver(c, j)
    \/ Done

\* Timers go off, an idle thread takes what is in the line, and the event
\* loop runs its callbacks.  Nothing makes the SDK return.
Fairness ==
    /\ \A c \in Caller : WF_vars(Timeout(c))
    /\ WF_vars(Take)
    /\ \A j \in Job : WF_vars(Drop(j))

Spec == Init /\ [][Next]_vars /\ Fairness

----------------------------------------------------------------------------
(* Properties. *)

TypeOK ==
    /\ backend \in {"gemini", "litellm"}
    /\ pc \in [Caller -> {"idle", "waiting", "resting"} \cup Ended]
    /\ attempt \in [Caller -> 0..Attempts]
    /\ line \in Seq(Job)
    /\ job \in [Job -> {"none", "queued", "running", "over"} \cup Body]
    /\ answer \in [Caller -> Answers \cup {Nothing}]
    /\ lapsed \subseteq Job

\* A caller is answered by the attempt it was waiting for, never by the late
\* end of one it gave up; and the proxy's missing content is no answer.
AnswerIsCurrent ==
    \A c \in Caller :
        /\ pc[c] = "answered" <=> answer[c] # Nothing
        /\ pc[c] = "answered" =>
              /\ answer[c].by = Current(c)
              /\ Current(c) \notin lapsed
              /\ answer[c].text # answer[c].body =>
                    backend = "gemini" /\ answer[c].body = "no text"

\* Two requests of one caller are out at once only after a timeout, only in
\* threads, and never in more of them than the executor has: through the
\* proxy a retry never runs beside the attempt it repeats.
OverlapOnlyInThreads ==
    /\ \A j \in Running :
          \/ pc[j[1]] = "waiting" /\ j = Current(j[1])
          \/ backend = "gemini" /\ j \in lapsed
    /\ backend = "gemini" => Cardinality(Running) <= Workers

\* Every attempt ends, even if every thread hangs for good with the line full
\* behind it.  This is what LlmClient takes for granted of a call function.
EveryAttemptEnds ==
    \A c \in Caller : pc[c] = "waiting" ~> pc[c] # "waiting"

\* Hung threads are the only thing that keeps the executor from recovering:
\* unless a call hangs, the threads and the line run empty in the end.
Drained == line = <<>> /\ Running = {}
RecoversFromSlowCalls == ([]<>(Running = {})) => <>[]Drained
=============================================================================
