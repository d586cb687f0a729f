----------------------------- MODULE LegacyCompat -----------------------------
(***************************************************************************)
(* LegacyA2ACompatMiddleware (functions/agent/legacy_compat.py): it reads  *)
(* the whole body of a POST, upgrades a "tasks/send" request to v0.3, and  *)
(* calls the application with a receive() that replays the body once. The  *)
(* answer to an upgraded request is held back until it is whole, rewritten *)
(* in the words of the old protocol and sent in one piece; every other one *)
(* goes through as it comes.                                               *)
(*                                                                         *)
(* Abstractions. A JSON object is a function from the fields it has;       *)
(* texts, ids and states are members of small sets, and the messageId the  *)
(* middleware makes up is "new". A length is named by the content it is    *)
(* the length of. A client sends its body in up to MaxChunks chunks, of    *)
(* which the last says that it is the last or is followed by an empty one  *)
(* that does, and may go away at any time. The application and the server  *)
(* (Starlette, the SDK, uvicorn) are external: the application may call    *)
(* receive() again, send its answer in pieces, or raise.                   *)
(***************************************************************************)
EXTENDS Naturals, SequencesExt, Functions

CONSTANTS
    Conn,       \* HTTP requests, one connection each
    Request,    \* what a client may post
    Absent,     \* no task id
    MaxChunks   \* bound: chunks of a request's body, pieces of an answer

ASSUME MaxChunksAssumption == MaxChunks \in Nat \ {0}

VARIABLES
    request,   \* what the client of each connection posts
    unsent,    \* chunks of it, but for an empty one at the end, not sent yet
    gone,      \* the client has disconnected
    mw,        \* where the middleware is
    legacy,    \* is_legacy
    taskId,    \* client_task_id
    given,     \* the request the application was given
    heard,     \* what the application's calls of receive() returned
    answer,    \* the answer the application has begun to send
    pieces,    \* the pieces of it that the application has sent
    out        \* what the client was sent

\* No message captured; no request.
Nothing == <<>>

compatVars ==
    <<request, unsent, gone, mw, legacy, taskId, given, heard, answer, pieces, out>>

CompatInit ==
    /\ request \in [Conn -> Request]
    /\ unsent \in [Conn -> 1..MaxChunks]
    /\ gone = [c \in Conn |-> FALSE]
    /\ mw = [c \in Conn |-> "reading"]
    /\ legacy = [c \in Conn |-> FALSE]
    /\ taskId = [c \in Conn |-> Absent]
    /\ given = [c \in Conn |-> Nothing]
    /\ heard = [c \in Conn |-> <<>>]
    /\ answer = [c \in Conn |-> Nothing]
    /\ pieces = [c \in Conn |-> <<>>]
    /\ out = [c \in Conn |-> <<>>]

----------------------------------------------------------------------------
(* The two rewritings. *)

Has(o, f) == f \in DOMAIN o

\* A request has these fields, and an id that is null is none.
ASSUME RequestAssumption ==
    \A r \in Request :
        /\ r = [form |-> r.form, method |-> r.method, params |-> r.params]
        /\ Has(r.params, "id") => r.params.id # Absent

With(o, f, v) == [x \in {f} \cup DOMAIN o |-> IF x = f THEN v ELSE o[x]]
Renamed(o, old, new) == With(Restrict(o, DOMAIN o \ {old}), new, o[old])
OnEach(o, f, Op(_)) ==
    IF Has(o, f) THEN With(o, f, [i \in DOMAIN o[f] |-> Op(o[f][i])]) ELSE o

UpgradedPart(p) == IF Has(p, "type") /\ ~Has(p, "kind") THEN Renamed(p, "type", "kind") ELSE p

DowngradedPart(p) == IF Has(p, "kind") /\ ~Has(p, "type") THEN Renamed(p, "kind", "type") ELSE p

\* setdefault
Default(o, f, v) == IF Has(o, f) THEN o ELSE With(o, f, v)

\* Mutant: the messageId is left to the client.
NamedByClient(msg) == msg

Named(msg) == Default(msg, "messageId", "new")

\* The params of "tasks/send" as those of "message/send".
Upgraded(params) ==
    LET msg == IF Has(params, "message") THEN OnEach(params.message, "parts", UpgradedPart)
               ELSE <<>>
        moves == Has(params, "sessionId") /\ ~Has(msg, "contextId")
        placed == IF moves THEN With(msg, "contextId", params.sessionId) ELSE msg
        dropped == {"id"} \cup (IF moves THEN {"sessionId"} ELSE {})
    IN  With(Restrict(params, DOMAIN params \ dropped), "message", Named(placed))

DowngradedHead(o) ==
    LET bare == Restrict(o, DOMAIN o \ {"kind"})
    IN  IF Has(bare, "contextId") THEN Renamed(bare, "contextId", "sessionId") ELSE bare

DowngradedParts(o) == OnEach(o, "parts", DowngradedPart)

\* A body that is not JSON.
Garbled == [form |-> "text", method |-> "none", params |-> <<>>]

\* Mutant: the messages of the history are left as they are.
DowngradedExceptHistory(task) == OnEach(DowngradedHead(task), "artifacts", DowngradedParts)

DowngradedTask(task) ==
    OnEach(OnEach(DowngradedHead(task), "artifacts", DowngradedParts),
           "history", LAMBDA m : DowngradedParts(DowngradedHead(m)))

\* An answer holds a task, or an error, which passes as it is.
Rewritten(a, id) ==
    IF ~Has(a, "result") THEN a
    ELSE LET task == DowngradedTask(a.result)
         IN  With(a, "result", IF id = Absent THEN task ELSE With(task, "id", id))

----------------------------------------------------------------------------
(* The request. *)

\* Mutant: the method of the new protocol is rewritten, too.
OldMethodAndNew == {"tasks/send", "message/send"}

OldMethod == {"tasks/send"}

\* The body r has ended.  An old request is upgraded.  If something in it is
\* not the object it should be that fails: with an AttributeError, which
\* escapes, or with a TypeError, after which the body goes on as it came.
Inspect(c, r) ==
    LET isOld == r.form # "text" /\ r.method \in OldMethod
        old == isOld /\ r.form = "object"
    IN  IF isOld /\ r.form = "misnested"
          THEN mw' = [mw EXCEPT ![c] = "raised"] /\ UNCHANGED <<legacy, taskId, given>>
          ELSE /\ mw' = [mw EXCEPT ![c] = "app"]
               /\ legacy' = [legacy EXCEPT ![c] = old]
               /\ taskId' = [taskId EXCEPT ![c] =
                      IF old /\ Has(r.params, "id") THEN r.params.id ELSE Absent]
               /\ given' = [given EXCEPT ![c] =
                      IF old THEN [r EXCEPT !.method = "message/send",
                                            !.params = Upgraded(r.params)]
                      ELSE r]

\* Mutant: a message without more_body is not the last one.
ReadsOn(c) == mw[c] = "reading"

Incomplete(c) == unsent[c] # 0

\* One http.request message with bytes of the body.  The last one has no
\* more_body, unless an empty one follows.
ReadChunk(c) ==
    /\ mw[c] = "reading" /\ ~gone[c] /\ Incomplete(c)
    /\ unsent' = [unsent EXCEPT ![c] = @ - 1]
    /\ \/ unsent[c] = 1 /\ Inspect(c, request[c])
       \/ UNCHANGED <<mw, legacy, taskId, given>>
    /\ UNCHANGED <<request, gone, heard, answer, pieces, out>>

\* The empty one.
ReadEnd(c) ==
    /\ mw[c] = "reading" /\ ~gone[c] /\ unsent[c] = 0
    /\ Inspect(c, request[c])
    /\ UNCHANGED <<request, unsent, gone, heard, answer, pieces, out>>

\* http.disconnect has neither body nor more_body: it is taken for the end of
\* the body, and what was read so far for all of it.  That is no JSON unless
\* only the empty chunk was missing.
ReadDisconnect(c) ==
    /\ mw[c] = "reading" /\ gone[c]
    /\ Inspect(c, IF unsent[c] = 0 THEN request[c] ELSE Garbled)
    /\ UNCHANGED <<request, unsent, gone, heard, answer, pieces, out>>

Replayed(c) == IF heard[c] = <<>> THEN "request" ELSE "disconnect"

\* replay_receive
Receive(c) ==
    /\ mw[c] = "app"
    /\ heard' = [heard EXCEPT ![c] = Append(@, Replayed(c))]
    /\ UNCHANGED <<request, unsent, gone, mw, legacy, taskId, given, answer, pieces, out>>

----------------------------------------------------------------------------
(* The answer. *)

Start(content) == [type |-> "start", length |-> content]
Piece(content, more) == [type |-> "body", content |-> content, more |-> more]
Sent(c, m) == out' = [out EXCEPT ![c] = Append(@, m)]

\* The application sends http.response.start for the answer a.
SendStart(c, a) ==
    /\ mw[c] = "app" /\ answer[c] = Nothing
    /\ answer' = [answer EXCEPT ![c] = a]
    /\ IF legacy[c] THEN UNCHANGED out ELSE Sent(c, Start(a))
    /\ UNCHANGED <<request, unsent, gone, mw, legacy, taskId, given, heard, pieces>>

\* ... and http.response.body: the last one of a legacy answer sets off the
\* rewriting.
SendBody(c, p, more) ==
    /\ mw[c] = "app" /\ answer[c] # Nothing
    /\ pieces' = [pieces EXCEPT ![c] = Append(@, Piece(p, more))]
    /\ IF legacy[c] THEN UNCHANGED out ELSE Sent(c, Piece(p, more))
    /\ mw' = [mw EXCEPT ![c] =
           IF more THEN "app" ELSE IF legacy[c] THEN "flushing" ELSE "done"]
    /\ UNCHANGED <<request, unsent, gone, legacy, taskId, given, heard, answer>>

\* Mutant: the Content-Length of the application's answer is kept.
LengthKept(c) == answer[c]

Length(c) == Rewritten(answer[c], taskId[c])

\* The start and the body are two sends, with a suspension between them.
Flush(c) ==
    /\ mw[c] = "flushing"
    /\ IF out[c] = <<>>
         THEN Sent(c, Start(Length(c))) /\ UNCHANGED mw
         ELSE /\ Sent(c, Piece(Rewritten(answer[c], taskId[c]), FALSE))
              /\ mw' = [mw EXCEPT ![c] = "done"]
    /\ UNCHANGED <<request, unsent, gone, legacy, taskId, given, heard, answer, pieces>>

\* The application raises, or an await of the middleware's does; what was
\* sent of a legacy answer by then is lost with it, or a start stays alone.
Raise(c) ==
    /\ mw[c] \in {"app", "flushing"}
    /\ mw' = [mw EXCEPT ![c] = "raised"]
    /\ UNCHANGED <<request, unsent, gone, legacy, taskId, given,
                   heard, answer, pieces, out>>

Disconnect(c) ==
    /\ ~gone[c]
    /\ gone' = [gone EXCEPT ![c] = TRUE]
    /\ UNCHANGED <<request, unsent, mw, legacy, taskId, given,
                   heard, answer, pieces, out>>

Read(c) == ReadChunk(c) \/ ReadEnd(c) \/ ReadDisconnect(c)

----------------------------------------------------------------------------
(* Properties. *)

CompatTypeOK ==
    /\ request \in [Conn -> Request]
    /\ unsent \in [Conn -> 0..MaxChunks]
    /\ gone \in [Conn -> BOOLEAN]
    /\ mw \in [Conn -> {"reading", "app", "flushing", "done", "raised"}]
    /\ legacy \in [Conn -> BOOLEAN]
    /\ \A c \in Conn : heard[c] \in Seq({"request", "disconnect"})

\* A request of the old protocol, whole and of the shape expected.
IsOld(c) == request[c].method = "tasks/send" /\ request[c].form = "object" /\ unsent[c] = 0

\* An old client is sent nothing until the application has sent its last
\* piece; then one start and one body, whose length is the one the start
\* declares.  Only an exception between the two sends leaves a start alone.
LegacyAnswersAreWhole ==
    \A c \in Conn : IsOld(c) =>
        /\ out[c] # <<>> => pieces[c] # <<>> /\ ~Last(pieces[c]).more
        /\ mw[c] = "done" => Len(out[c]) = 2
        /\ Len(out[c]) <= 2
        /\ Len(out[c]) = 2 =>
              out[c] = <<Start(out[c][2].content), Piece(out[c][2].content, FALSE)>>

\* legacy_compat.py:14 "Non-legacy requests ... pass through untouched": the
\* application is given what the client posted (and, if it was cut short, what
\* is no JSON), and the client what the application sent, piece by piece and
\* in that order.
OthersPassThrough ==
    \A c \in Conn : ~IsOld(c) /\ mw[c] # "reading" =>
        /\ given[c] \in {request[c], Garbled, Nothing}
        /\ given[c] = Garbled => unsent[c] > 0 \/ request[c] = Garbled
        /\ given[c] = Nothing => mw[c] = "raised"
        /\ out[c] = IF answer[c] = Nothing THEN <<>> ELSE <<Start(answer[c])>> \o pieces[c]

\* The same sentence, of what the application hears: a client of the new
\* protocol that it is told has disconnected has disconnected.
DisconnectsAreReal ==
    \A c \in Conn : ~IsOld(c) /\ Contains(heard[c], "disconnect") => gone[c]
=============================================================================
