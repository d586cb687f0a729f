------------------------------ MODULE A2AServer ------------------------------
(***************************************************************************)
(* The application functions/agent/server.py builds: the middleware of     *)
(* LegacyCompat around the A2A SDK, whose request handler drives the       *)
(* executor of TaskExecutor, one task for each accepted request.           *)
(*                                                                         *)
(* The SDK is external and modelled by what the agent's code relies on: it *)
(* reads one request, refuses what is not a v0.3 one, answers a            *)
(* "message/send" when the task's first final event is there and streams   *)
(* the events of a "message/stream" while it listens for a disconnect,     *)
(* calls cancel() when some client asks for it, and may cancel execute().  *)
(***************************************************************************)
EXTENDS LegacyCompat, TaskExecutor

\* One task for each request.
ASSUME TaskAssumption == Task = Conn

vars == <<compatVars, taskVars>>

\* _extract_query, of whatever message the request holds.
Parts(r) ==
    IF Has(r.params, "message") /\ Has(r.params.message, "parts")
      THEN r.params.message.parts ELSE <<>>

\* The parts of a message are a list of objects.
ASSUME PartsAssumption ==
    \A r \in Request : r.form = "object" =>
        /\ Parts(r) \in Seq(Range(Parts(r)))
        /\ \A i \in DOMAIN Parts(r) :
              Parts(r)[i] = [f \in DOMAIN Parts(r)[i] |-> Parts(r)[i][f]]

QueryOf(r) == IF \E i \in DOMAIN Parts(r) : Parts(r)[i].text = "text" THEN "text" ELSE "blank"

Init ==
    /\ CompatInit
    /\ TaskInit
    /\ query = [c \in Conn |-> QueryOf(request[c])]

----------------------------------------------------------------------------
(* The SDK. *)

Methods == {"message/send", "message/stream"}

\* A v0.3 request: whole, named, with parts that say what they are.
Valid(c) ==
    LET r == given[c]
    IN  /\ r.form = "object" /\ r.method \in Methods
        /\ Parts(r) # <<>> /\ \A i \in DOMAIN Parts(r) : Has(Parts(r)[i], "kind")
        /\ Has(r.params.message, "messageId")

Streams(c) == given[c].method = "message/stream"

\* The application has its request and is not done with it.
Serving(c) == mw[c] = "app" /\ heard[c] # <<>>

Submit(c) ==
    /\ Serving(c) /\ Valid(c)
    /\ Begin(c)
    /\ UNCHANGED compatVars

\* What execute() delivers.
Artifact == [parts |-> <<[kind |-> "text", text |-> "summary"]>>]

\* The message of a task as the SDK files it: named after its task and context.
Filed(msg) ==
    Default(Default(With(msg, "kind", "message"), "taskId", "server"), "contextId", "fresh")

\* The task as the SDK keeps it.
TaskOf(c) ==
    LET msg == Filed(given[c].params.message)
        states == SelectSeq(View[c], LAMBDA e : e # "artifact")
    IN  [kind |-> "task", id |-> "server", state |-> Last(states),
         contextId |-> msg.contextId, history |-> <<msg>>,
         artifacts |-> IF Contains(View[c], "artifact") THEN <<Artifact>> ELSE <<>>]

AnswerTask(c) ==
    /\ Valid(c) /\ ~Streams(c)
    /\ Settled(c) \/ step[c] = "killed"
    /\ SendStart(c, [result |-> TaskOf(c)])

AnswerError(c) ==
    /\ ~Valid(c)
    /\ SendStart(c, [error |-> "invalid"])

AnswerBody(c) ==
    /\ ~Valid(c) \/ ~Streams(c)
    /\ \E more \in BOOLEAN :
          /\ more => Len(pieces[c]) + 1 < MaxChunks
          /\ SendBody(c, "part", more)

StreamStart(c) ==
    /\ Valid(c) /\ Streams(c)
    /\ SendStart(c, [stream |-> "events"])

StreamEvent(c) ==
    /\ Valid(c) /\ Streams(c)
    /\ Len(pieces[c]) < Len(View[c])
    /\ LET e == View[c][Len(pieces[c]) + 1] IN SendBody(c, e, e \notin Final)

\* The listener heard a disconnect, or nothing more will come.
StreamCut(c) ==
    /\ Valid(c) /\ Streams(c)
    /\ \/ Contains(heard[c], "disconnect")
       \/ step[c] = "killed" /\ ~Settled(c)
    /\ SendBody(c, "cut", FALSE)

App(c) ==
    /\ Serving(c)
    /\ \/ AnswerTask(c) \/ AnswerError(c) \/ AnswerBody(c)
       \/ StreamStart(c) \/ StreamEvent(c) \/ StreamCut(c)

----------------------------------------------------------------------------
\* The body is read once; a stream that has begun listens for a disconnect.
Hears(c) ==
    /\ \/ heard[c] = <<>>
       \/ Len(heard[c]) = 1 /\ Valid(c) /\ Streams(c) /\ answer[c] # Nothing
    /\ Receive(c)

Web(c) == (Hears(c) \/ App(c) \/ Flush(c)) /\ UNCHANGED taskVars

Work(c) == Run(c) /\ UNCHANGED compatVars

Environment(c) ==
    \/ (Read(c) \/ Disconnect(c) \/ Raise(c)) /\ UNCHANGED taskVars
    \/ (Kill(c) \/ CancelTask(c)) /\ UNCHANGED compatVars

Done ==
    /\ \A c \in Conn : mw[c] \in {"done", "raised"} /\ step[c] \in {"new", "over", "killed"}
    /\ UNCHANGED vars

Next ==
    \/ \E c \in Conn : Submit(c) \/ Web(c) \/ Work(c) \/ Environment(c)
    \/ Done

\* The event loop runs what is ready.  How long a run of the pipeline takes is
\* not for it to say (a page may never end), nothing makes a client send or
\* stay, and nobody is bound to cancel anything.
Fairness ==
    \A c \in Conn : /\ WF_vars(Submit(c) \/ Web(c))
                    /\ WF_vars(step[c] # "running" /\ Work(c))

Spec == Init /\ [][Next]_vars /\ Fairness

----------------------------------------------------------------------------
(* Properties. *)

TypeOK == CompatTypeOK /\ TaskTypeOK

\* An old request whose message has parts that name their type is a v0.3
\* request when the middleware has done with it.
OldRequestsAreUnderstood ==
    \A c \in Conn :
        /\ IsOld(c) /\ Parts(request[c]) # <<>>
        /\ \A i \in DOMAIN Parts(request[c]) : Has(Parts(request[c])[i], "type")
        /\ given[c] # Nothing
        => Valid(c)

\* No field that only the new protocol has.
Old(o) == ~Has(o, "kind") /\ ~Has(o, "contextId")

\* The message m is what the client wrote, as to every field but those whose
\* names the protocols do not share; a part comes back as it was if it named
\* its type.  It has no other fields than the session and its names.
Recognizable(m, written) ==
    /\ Old(m)
    /\ \A f \in DOMAIN written \ {"kind", "contextId", "sessionId", "parts"} :
          Has(m, f) /\ m[f] = written[f]
    /\ DOMAIN m \subseteq DOMAIN written \cup {"sessionId", "messageId", "taskId"}
    /\ DOMAIN m.parts = DOMAIN written.parts
    /\ \A i \in DOMAIN written.parts :
          Has(written.parts[i], "type") => m.parts[i] = written.parts[i]

\* The task an old client is answered with has the client's own task id and
\* session, parts that name their type, and neither a `kind` nor a `contextId`;
\* nor has the message in its history, which the client recognizes as its own.
\* It is not quite what was sent: the messageId the middleware made up for the
\* SDK (legacy_compat.py:118) stays, as the SDK's taskId does.
OldClientsReadTheirOwnWords ==
    \A c \in Conn :
        IsOld(c) /\ Len(out[c]) = 2 /\ Has(out[c][2].content, "result") =>
            LET task == out[c][2].content.result
                params == request[c].params
            IN  /\ Old(task)
                /\ Has(params, "id") => task.id = params.id
                /\ Has(params, "sessionId") /\ ~Has(params.message, "contextId") =>
                      task.sessionId = params.sessionId
                /\ \A i \in DOMAIN task.artifacts :
                      \A j \in DOMAIN task.artifacts[i].parts :
                         Has(task.artifacts[i].parts[j], "type")
                /\ Recognizable(task.history[1], params.message)

\* Unless a run of the pipeline goes on for ever, every request the application
\* is given is answered to its end, or an exception ends it; and a task that
\* began gets a final event, whether or not anyone still listens, unless
\* execute() was cancelled.
EveryRequestIsAnswered ==
    \A c \in Conn : []<>(step[c] # "running") =>
        /\ mw[c] = "app" ~> mw[c] \in {"done", "raised"}
        /\ step[c] = "accepted" ~> Settled(c) \/ step[c] = "killed"
=============================================================================
