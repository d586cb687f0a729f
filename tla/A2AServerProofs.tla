--------------------------- MODULE A2AServerProofs ----------------------------
(***************************************************************************)
(* Proofs about A2AServer, for every set of connections and requests.  The   *)
(* server drives its tasks as TaskExecutor allows, so that what is proved of *)
(* them there holds of the tasks behind the middleware; and the middleware   *)
(* keeps ServerInv, from which the promises to old clients and to new ones   *)
(* follow.                                                                   *)
(***************************************************************************)
EXTENDS A2AServer, TaskExecutorProofs

\* The server's steps are steps of the tasks, or leave them alone.
LEMMA ServerStep ==
    ASSUME [Next]_vars PROVE [TaskNext]_taskVars
<1> USE TaskAssumption
<1>1. ASSUME NEW c \in Conn, Submit(c) PROVE TaskNext
  BY <1>1 DEF Submit, TaskNext
<1>2. ASSUME NEW c \in Conn, Web(c) PROVE UNCHANGED taskVars
  BY <1>2 DEF Web
<1>3. ASSUME NEW c \in Conn, Work(c) PROVE TaskNext
  BY <1>3 DEF Work, TaskNext
<1>4. ASSUME NEW c \in Conn, Environment(c) PROVE [TaskNext]_taskVars
  BY <1>4 DEF Environment, TaskNext
<1>5. CASE Done \/ UNCHANGED vars BY <1>5 DEF Done, vars
<1> QED BY <1>1, <1>2, <1>3, <1>4, <1>5 DEF Next

\* The composition implements the executor.
THEOREM ServerRunsTasks == Spec => TaskSpec
<1>1. Init => TaskInit BY DEF Init
<1>2. [Next]_vars => [TaskNext]_taskVars BY ServerStep
<1> QED BY <1>1, <1>2, PTL DEF Spec, TaskSpec

\* Behind the middleware, too, execution is one story, and a client that reads
\* its task to the first final event sees the protocol.
THEOREM ServedTasksKeepTheProtocol == Spec => []OneStory /\ ClientSeesTheProtocol
BY ServerRunsTasks, OneExecution, ClientsSeeTheProtocol, PTL

----------------------------------------------------------------------------
(* What the two rewritings do to an object, field by field. *)

\* A part that names its type says what it is once it is upgraded, and is what
\* it was when it is downgraded again.
LEMMA PartThereAndBack ==
    ASSUME NEW p, p = [f \in DOMAIN p |-> p[f]], Has(p, "type")
    PROVE  Has(UpgradedPart(p), "kind") /\ DowngradedPart(UpgradedPart(p)) = p
<1>1. CASE Has(p, "kind") BY <1>1 DEF UpgradedPart, DowngradedPart
<1>2. CASE ~Has(p, "kind")
  <2>1. PICK u : u = Renamed(p, "type", "kind") OBVIOUS
  <2>2. PICK d : d = Renamed(u, "kind", "type") OBVIOUS
  <2>3. "kind" # "type" /\ "type" # "kind" OBVIOUS
  <2>4. /\ DOMAIN u = {"kind"} \cup (DOMAIN p \ {"type"})
        /\ u["kind"] = p["type"]
        /\ \A x \in DOMAIN p \ {"type"} : x # "kind" => u[x] = p[x]
    <3>1. /\ DOMAIN Renamed(p, "type", "kind") = {"kind"} \cup (DOMAIN p \ {"type"})
          /\ Renamed(p, "type", "kind")["kind"] = p["type"]
          /\ \A x \in DOMAIN p \ {"type"} : x # "kind" => Renamed(p, "type", "kind")[x] = p[x]
      BY <2>3 DEF Renamed, With, Restrict
    <3> QED BY <2>1, <3>1
  <2>5. /\ DOMAIN d = {"type"} \cup (DOMAIN u \ {"kind"})
        /\ d["type"] = u["kind"]
        /\ \A x \in DOMAIN u \ {"kind"} : x # "type" => d[x] = u[x]
    <3>1. /\ DOMAIN Renamed(u, "kind", "type") = {"type"} \cup (DOMAIN u \ {"kind"})
          /\ Renamed(u, "kind", "type")["type"] = u["kind"]
          /\ \A x \in DOMAIN u \ {"kind"} : x # "type" => Renamed(u, "kind", "type")[x] = u[x]
      BY <2>3 DEF Renamed, With, Restrict
    <3> QED BY <2>2, <3>1
  <2>6. d = [x \in DOMAIN d |-> d[x]] BY <2>2 DEF Renamed, With
  <2>7. UpgradedPart(p) = u BY <1>2, <2>1 DEF UpgradedPart
  <2>8. DowngradedPart(u) = d BY <2>2, <2>4 DEF DowngradedPart, Has
  <2>9. DOMAIN d = DOMAIN p BY <1>2, <2>4, <2>5 DEF Has
  <2>10. ASSUME NEW x \in DOMAIN p PROVE d[x] = p[x] BY <1>2, <2>4, <2>5 DEF Has
  <2>11. d = p BY <2>6, <2>9, <2>10
  <2> QED BY <2>4, <2>7, <2>8, <2>11 DEF Has
<1> QED BY <1>1, <1>2

\* The message of an upgraded request: it has a messageId and a part for each
\* part, and the session is its context unless it had one.
LEMMA UpgradedMessage ==
    ASSUME NEW params
    PROVE  LET up == Upgraded(params)
               msg == up.message
           IN  /\ Has(up, "message") /\ Has(msg, "messageId")
               /\ Has(msg, "parts") <=> Has(params, "message") /\ Has(params.message, "parts")
               /\ Has(msg, "parts") =>
                     msg.parts = [i \in DOMAIN params.message.parts |->
                                     UpgradedPart(params.message.parts[i])]
               /\ Has(params, "sessionId") /\ ~Has(params.message, "contextId") =>
                     Has(msg, "contextId") /\ msg.contextId = params.sessionId
               /\ Has(params, "message") =>
                     /\ \A f \in DOMAIN params.message \ {"parts"} :
                           Has(msg, f) /\ msg[f] = params.message[f]
                     /\ DOMAIN msg \subseteq
                           DOMAIN params.message \cup {"contextId", "messageId"}
<1> DEFINE old == IF Has(params, "message") THEN OnEach(params.message, "parts", UpgradedPart)
                  ELSE <<>>
           moves == Has(params, "sessionId") /\ ~Has(old, "contextId")
           placed == IF moves THEN With(old, "contextId", params.sessionId) ELSE old
           up == Upgraded(params)
<1>1. up.message = Named(placed) /\ Has(up, "message") BY DEF Upgraded, With, Has
<1>2. DOMAIN <<>> = {} BY EmptySeq
<1>3. /\ Has(old, "parts") <=> Has(params, "message") /\ Has(params.message, "parts")
      /\ Has(old, "parts") => old.parts = [i \in DOMAIN params.message.parts |->
                                              UpgradedPart(params.message.parts[i])]
      /\ Has(old, "contextId") => Has(params, "message") /\ Has(params.message, "contextId")
      /\ Has(params, "message") =>
            /\ DOMAIN old = DOMAIN params.message
            /\ \A f \in DOMAIN old \ {"parts"} : old[f] = params.message[f]
  BY <1>2 DEF OnEach, With, Has
<1> HIDE DEF old, up
<1>4. /\ Has(placed, "parts") <=> Has(old, "parts")
      /\ Has(old, "parts") => placed.parts = old.parts
      /\ moves => Has(placed, "contextId") /\ placed.contextId = params.sessionId
      /\ DOMAIN old \subseteq DOMAIN placed
      /\ DOMAIN placed \subseteq DOMAIN old \cup {"contextId"}
      /\ \A f \in DOMAIN old : placed[f] = old[f]
  BY DEF With, Has
<1>5. Has(params, "sessionId") /\ ~Has(params.message, "contextId") => moves BY <1>3
<1> HIDE DEF placed, moves
<1>6. /\ Has(Named(placed), "messageId")
      /\ Has(Named(placed), "parts") <=> Has(placed, "parts")
      /\ Has(placed, "parts") => Named(placed).parts = placed.parts
      /\ Has(placed, "contextId") =>
            Has(Named(placed), "contextId") /\ Named(placed).contextId = placed.contextId
      /\ DOMAIN placed \subseteq DOMAIN Named(placed)
      /\ DOMAIN Named(placed) \subseteq DOMAIN placed \cup {"messageId"}
      /\ \A f \in DOMAIN placed : Named(placed)[f] = placed[f]
  BY DEF Named, Default, With, Has
<1>7. /\ Has(up.message, "messageId")
      /\ Has(up.message, "parts") <=> Has(params, "message") /\ Has(params.message, "parts")
      /\ Has(up.message, "parts") =>
            up.message.parts = [i \in DOMAIN params.message.parts |->
                                   UpgradedPart(params.message.parts[i])]
      /\ Has(params, "sessionId") /\ ~Has(params.message, "contextId") =>
            Has(up.message, "contextId") /\ up.message.contextId = params.sessionId
  BY <1>1, <1>3, <1>4, <1>5, <1>6
<1>8. Has(params, "message") =>
         /\ \A f \in DOMAIN params.message \ {"parts"} :
               Has(up.message, f) /\ up.message[f] = params.message[f]
         /\ DOMAIN up.message \subseteq
               DOMAIN params.message \cup {"contextId", "messageId"}
  BY <1>1, <1>3, <1>4, <1>6 DEF Has
<1> QED BY <1>1, <1>7, <1>8 DEF up

----------------------------------------------------------------------------
(* What holds of a connection, by where its middleware is. *)

IsList(s) == s \in Seq(Range(s))

Shape ==
    /\ request \in [Conn -> Request]
    /\ unsent \in [Conn -> 0..MaxChunks]
    /\ gone \in [Conn -> BOOLEAN]
    /\ mw \in [Conn -> {"reading", "app", "flushing", "done", "raised"}]
    /\ legacy \in [Conn -> BOOLEAN]
    /\ DOMAIN taskId = Conn /\ DOMAIN given = Conn /\ DOMAIN heard = Conn
    /\ DOMAIN answer = Conn /\ DOMAIN pieces = Conn /\ DOMAIN out = Conn

\* While the body is read there is nothing else.
Fresh(c) ==
    mw[c] = "reading" =>
        /\ ~legacy[c]
        /\ given[c] = Nothing /\ answer[c] = Nothing
        /\ heard[c] = <<>> /\ pieces[c] = <<>> /\ out[c] = <<>>

\* The lists are lists, and an answer comes before its pieces.
Lists(c) ==
    /\ heard[c] \in Seq({"request", "disconnect"})
    /\ IsList(pieces[c])
    /\ answer[c] = Nothing => pieces[c] = <<>>

\* The middleware knows an old request when the whole body is there.
Sorted(c) == mw[c] # "reading" => (legacy[c] <=> IsOld(c))

\* Every other one passes through.
Passed(c) ==
    mw[c] # "reading" /\ ~legacy[c] =>
        /\ mw[c] # "flushing"
        /\ given[c] \in {request[c], Garbled, Nothing}
        /\ given[c] = Garbled => unsent[c] > 0 \/ request[c] = Garbled
        /\ given[c] = Nothing => mw[c] = "raised"
        /\ out[c] = IF answer[c] = Nothing THEN <<>> ELSE <<Start(answer[c])>> \o pieces[c]

\* An old request is given to the application in the new words ...
Translated(c) ==
    legacy[c] =>
        /\ given[c] = [form |-> "object", method |-> "message/send",
                       params |-> Upgraded(request[c].params)]
        /\ taskId[c] = IF Has(request[c].params, "id") THEN request[c].params.id ELSE Absent

\* ... which answers with an error or with a task that holds the message ...
TaskWith(msg, state, artifacts) ==
    [kind |-> "task", id |-> "server", state |-> state,
     contextId |-> msg.contextId, history |-> <<msg>>, artifacts |-> artifacts]

IsTaskOf(a, msg) ==
    \E artifacts \in {<<>>, <<Artifact>>} :
        /\ Has(a, "result") /\ Has(a.result, "state")
        /\ a = [result |-> TaskWith(Filed(msg), a.result.state, artifacts)]

Answered(c) ==
    legacy[c] =>
        \/ answer[c] \in {Nothing, [error |-> "invalid"]}
        \/ Valid(c) /\ IsTaskOf(answer[c], given[c].params.message)

\* ... and the answer is held back until it is whole.
Held(c) ==
    legacy[c] =>
        /\ mw[c] = "app" => out[c] = <<>>
        /\ mw[c] \in {"flushing", "raised"} => out[c] \in {<<>>, <<Start(Length(c))>>}
        /\ mw[c] = "done" => out[c] = <<Start(Length(c)), Piece(Length(c), FALSE)>>
        /\ mw[c] \in {"flushing", "done"} \/ out[c] # <<>> =>
              pieces[c] # <<>> /\ ~Last(pieces[c]).more

ConnInv(c) ==
    /\ Fresh(c) /\ Lists(c) /\ Sorted(c) /\ Passed(c)
    /\ Translated(c) /\ Answered(c) /\ Held(c)

ServerInv == Shape /\ \A c \in Conn : ConnInv(c)

\* A downgraded object has none of the new fields, and its context is its
\* session; the other fields stay.
LEMMA HeadFields ==
    ASSUME NEW o
    PROVE  LET d == DowngradedHead(o)
           IN  /\ Old(d)
               /\ Has(o, "contextId") => Has(d, "sessionId") /\ d.sessionId = o.contextId
               /\ \A f \in {"id", "artifacts", "history", "parts"} :
                     /\ Has(d, f) <=> Has(o, f)
                     /\ Has(o, f) => d[f] = o[f]
               /\ \A f \in DOMAIN o \ {"kind", "contextId", "sessionId"} :
                     Has(d, f) /\ d[f] = o[f]
               /\ DOMAIN d \subseteq DOMAIN o \cup {"sessionId"}
<1> DEFINE d == DowngradedHead(o)
<1>1. PICK bare : bare = Restrict(o, DOMAIN o \ {"kind"}) OBVIOUS
<1>2. DOMAIN bare = DOMAIN o \ {"kind"} /\ \A f \in DOMAIN bare : bare[f] = o[f]
  BY <1>1 DEF Restrict
<1>3. CASE ~Has(bare, "contextId")
  <2>1. d = bare BY <1>1, <1>3 DEF DowngradedHead
  <2> QED BY <1>2, <1>3, <2>1 DEF Old, Has
<1>4. CASE Has(bare, "contextId")
  <2>1. d = Renamed(bare, "contextId", "sessionId") BY <1>1, <1>4 DEF DowngradedHead
  <2>2. /\ DOMAIN d = {"sessionId"} \cup (DOMAIN bare \ {"contextId"})
        /\ d["sessionId"] = bare["contextId"]
        /\ \A f \in DOMAIN bare \ {"contextId", "sessionId"} : d[f] = bare[f]
    BY <2>1 DEF Renamed, With, Restrict
  <2> HIDE DEF d
  <2> QED BY <1>2, <1>4, <2>2 DEF d, Old, Has
<1> QED BY <1>3, <1>4

\* Its parts are downgraded in their places.
LEMMA PartsFields ==
    ASSUME NEW o
    PROVE  LET d == DowngradedParts(o)
           IN  /\ DOMAIN d = DOMAIN o
               /\ \A f \in DOMAIN o \ {"parts"} : d[f] = o[f]
               /\ Has(o, "parts") =>
                     d.parts = [i \in DOMAIN o.parts |-> DowngradedPart(o.parts[i])]
BY DEF DowngradedParts, OnEach, With, Has

\* The SDK leaves the fields of the message as they are, but for its kind.
LEMMA FiledFields ==
    ASSUME NEW msg
    PROVE  LET m == Filed(msg)
           IN  /\ Has(m, "contextId")
               /\ \A f \in DOMAIN msg \ {"kind"} : Has(m, f) /\ m[f] = msg[f]
               /\ DOMAIN m \subseteq DOMAIN msg \cup {"kind", "taskId", "contextId"}
<1>1. PICK a : a = With(msg, "kind", "message") OBVIOUS
<1>2. PICK b : b = Default(a, "taskId", "server") OBVIOUS
<1>3. PICK m : m = Default(b, "contextId", "fresh") OBVIOUS
<1>4. /\ DOMAIN a = DOMAIN msg \cup {"kind"}
      /\ \A f \in DOMAIN msg \ {"kind"} : a[f] = msg[f]
  BY <1>1 DEF With
<1>5. /\ DOMAIN b = DOMAIN a \cup {"taskId"} /\ \A f \in DOMAIN a : b[f] = a[f]
  BY <1>2 DEF Default, With, Has
<1>6. /\ DOMAIN m = DOMAIN b \cup {"contextId"} /\ \A f \in DOMAIN b : m[f] = b[f]
  BY <1>3 DEF Default, With, Has
<1>7. m = Filed(msg) BY <1>1, <1>2, <1>3 DEF Filed
<1> QED BY <1>4, <1>5, <1>6, <1>7 DEF Has

LEMMA ArtifactFields ==
    /\ Has(DowngradedParts(Artifact), "parts")
    /\ \A j \in DOMAIN DowngradedParts(Artifact).parts :
          Has(DowngradedParts(Artifact).parts[j], "type")
<1>1. PICK p : p = [kind |-> "text", text |-> "summary"] OBVIOUS
<1>2. Has(DowngradedPart(p), "type")
  <2>1. Has(p, "kind") /\ ~Has(p, "type") BY <1>1 DEF Has
  <2> QED BY <2>1 DEF DowngradedPart, Renamed, With, Has
<1>3. Has(Artifact, "parts") /\ Artifact.parts = <<p>> BY <1>1 DEF Artifact, Has
<1>4. DOMAIN <<p>> = {1} /\ <<p>>[1] = p OBVIOUS
<1>5. PICK d : d = DowngradedParts(Artifact) OBVIOUS
<1>6. /\ DOMAIN d = DOMAIN Artifact
      /\ d.parts = [i \in DOMAIN Artifact.parts |->
                       DowngradedPart(Artifact.parts[i])]
  BY <1>3, <1>5, PartsFields
<1>7. DOMAIN d.parts = {1} /\ d.parts[1] = DowngradedPart(p) BY <1>3, <1>4, <1>6
<1> QED BY <1>2, <1>3, <1>5, <1>6, <1>7 DEF Has

\* The task, downgraded.
LEMMA TaskFields ==
    ASSUME NEW msg, NEW state, NEW artifacts
    PROVE  LET t == TaskWith(msg, state, artifacts)
               d == DowngradedTask(t)
           IN  /\ Old(d) /\ Has(d, "sessionId") /\ Has(d, "artifacts") /\ Has(d, "history")
               /\ d.sessionId = t.contextId
               /\ DOMAIN d.artifacts = DOMAIN artifacts
               /\ \A i \in DOMAIN artifacts : d.artifacts[i] = DowngradedParts(artifacts[i])
               /\ DOMAIN d.history = {1}
               /\ d.history[1] = DowngradedParts(DowngradedHead(msg))
<1>1. PICK t : t = TaskWith(msg, state, artifacts) OBVIOUS
<1>2. PICK h : h = DowngradedHead(t) OBVIOUS
<1>3. PICK m : m = msg OBVIOUS
<1>4. /\ Has(t, "contextId") /\ Has(t, "artifacts") /\ Has(t, "history")
      /\ t.artifacts = artifacts /\ t.history = <<m>>
  BY <1>1, <1>3 DEF TaskWith, Has
<1>5. /\ Old(h) /\ Has(h, "sessionId") /\ h.sessionId = t.contextId
      /\ Has(h, "artifacts") /\ h.artifacts = artifacts
      /\ Has(h, "history") /\ h.history = <<m>>
  BY <1>2, <1>4, HeadFields
<1>6. PICK g : g = OnEach(h, "artifacts", DowngradedParts) OBVIOUS
<1>7. /\ DOMAIN g = DOMAIN h /\ \A f \in DOMAIN h : f # "artifacts" => g[f] = h[f]
      /\ g.artifacts = [i \in DOMAIN artifacts |-> DowngradedParts(artifacts[i])]
  BY <1>5, <1>6 DEF OnEach, With, Has
<1>8. PICK d : d = OnEach(g, "history", LAMBDA x : DowngradedParts(DowngradedHead(x))) OBVIOUS
<1>9. DowngradedTask(t) = d BY <1>2, <1>6, <1>8 DEF DowngradedTask
<1>10. Has(g, "history") /\ g.history = <<m>> BY <1>5, <1>7 DEF Has
<1>11. /\ DOMAIN d = DOMAIN h /\ \A f \in DOMAIN h : f # "history" => d[f] = g[f]
       /\ d.history = [i \in {1} |-> DowngradedParts(DowngradedHead(m))]
  <2>1. DOMAIN <<m>> = {1} /\ <<m>>[1] = m OBVIOUS
  <2> QED BY <1>7, <1>8, <1>10, <2>1 DEF OnEach, With, Has
<1>12. /\ Old(d) /\ d.sessionId = t.contextId
       /\ Has(d, "sessionId") /\ Has(d, "artifacts") /\ Has(d, "history")
  BY <1>5, <1>7, <1>11 DEF Old, Has
<1> QED BY <1>1, <1>3, <1>5, <1>7, <1>9, <1>11, <1>12 DEF Has

----------------------------------------------------------------------------
(* It holds throughout. *)

\* What happens on one connection leaves the others as they are.
Others(c) ==
    \A d \in Conn \ {c} :
        /\ unsent'[d] = unsent[d] /\ mw'[d] = mw[d] /\ legacy'[d] = legacy[d]
        /\ taskId'[d] = taskId[d] /\ given'[d] = given[d] /\ heard'[d] = heard[d]
        /\ answer'[d] = answer[d] /\ pieces'[d] = pieces[d] /\ out'[d] = out[d]

LEMMA OthersKeep ==
    ASSUME NEW c \in Conn, Others(c), request' = request,
           NEW d \in Conn \ {c}, ConnInv(d)
    PROVE  ConnInv(d)'
<1>1. /\ request'[d] = request[d]
      /\ unsent'[d] = unsent[d] /\ mw'[d] = mw[d] /\ legacy'[d] = legacy[d]
      /\ taskId'[d] = taskId[d] /\ given'[d] = given[d] /\ heard'[d] = heard[d]
      /\ answer'[d] = answer[d] /\ pieces'[d] = pieces[d] /\ out'[d] = out[d]
  BY DEF Others
<1>2. Fresh(d)' BY <1>1 DEF ConnInv, Fresh
<1>3. Lists(d)' BY <1>1 DEF ConnInv, Lists
<1>4. Sorted(d)' BY <1>1 DEF ConnInv, Sorted, IsOld
<1>5. Passed(d)' BY <1>1 DEF ConnInv, Passed
<1>6. Translated(d)' BY <1>1 DEF ConnInv, Translated
<1>7. Answered(d)' BY <1>1 DEF ConnInv, Answered, Valid
<1>8. Held(d)' BY <1>1 DEF ConnInv, Held, Length
<1> QED BY <1>2, <1>3, <1>4, <1>5, <1>6, <1>7, <1>8 DEF ConnInv

\* A list with one more is a list.
LEMMA OneMoreInList ==
    ASSUME NEW s, IsList(s), NEW e
    PROVE  /\ IsList(Append(s, e)) /\ Append(s, e) # <<>> /\ Last(Append(s, e)) = e
           /\ \A x : <<x>> \o Append(s, e) = Append(<<x>> \o s, e)
<1>1. s \in Seq(Range(s)) BY DEF IsList
<1>2. \A S : Range(s) \subseteq S => s \in Seq(S) BY <1>1, SeqMonotonic, Zenon
<1>3. PICK t : t = Append(s, e) OBVIOUS
<1>4. /\ t \in Seq(Range(s) \cup {e})
      /\ Len(s) \in Nat /\ DOMAIN s = 1..Len(s)
      /\ Len(t) = Len(s) + 1 /\ DOMAIN t = 1..Len(t)
      /\ \A i \in 1..Len(s) : t[i] = s[i]
      /\ t[Len(s) + 1] = e
  <2>1. PICK S : S = Range(s) \cup {e} OBVIOUS
  <2>2. s \in Seq(S) BY <1>2, <2>1
  <2>3. /\ t \in Seq(S)
        /\ Len(t) = Len(s) + 1
        /\ \A i \in 1..Len(s) : t[i] = s[i]
        /\ t[Len(s) + 1] = e
    BY <1>3, <2>1, <2>2, AppendProperties
  <2>4. Len(s) \in Nat /\ DOMAIN s = 1..Len(s) BY <2>2, LenProperties
  <2>5. DOMAIN t = 1..Len(t) BY <2>3, LenProperties
  <2> QED BY <2>1, <2>3, <2>4, <2>5
<1>5. \A i \in 1..Len(t) : t[i] \in Range(t) BY <1>4 DEF Range
<1>6. IsList(t)
  <2>1. PICK n, R : n = Len(t) /\ R = Range(t) OBVIOUS
  <2>2. n \in Nat /\ t \in [1..n -> R]
    <3>1. t = [i \in 1..n |-> t[i]] BY <1>4, <2>1
    <3> QED BY <1>4, <1>5, <2>1, <3>1
  <2> QED BY <2>1, <2>2 DEF IsList
<1>7. t # <<>> BY <1>4, EmptySeq
<1>8. Last(t) = e BY <1>4 DEF Last
<1>9. ASSUME NEW x PROVE <<x>> \o t = Append(<<x>> \o s, e)
  <2>1. PICK S : S = Range(s) \cup {e, x} OBVIOUS
  <2>2. s \in Seq(S) /\ e \in S /\ x \in S BY <1>2, <2>1
  <2>3. <<x>> \in Seq(S) /\ <<e>> \in Seq(S) /\ <<x>> \o s \in Seq(S)
    BY <2>2, ConcatProperties
  <2>4. t = s \o <<e>> BY <1>3, <2>2, AppendIsConcat
  <2>5. Append(<<x>> \o s, e) = (<<x>> \o s) \o <<e>> BY <2>2, <2>3, AppendIsConcat
  <2> QED BY <2>2, <2>3, <2>4, <2>5, ConcatAssociative
<1> QED BY <1>3, <1>6, <1>7, <1>8, <1>9

\* A step on one connection is looked at there.
LEMMA OneConnection ==
    ASSUME NEW c \in Conn, ServerInv, Shape', request' = request, Others(c), ConnInv(c)'
    PROVE  ServerInv'
<1>1. ASSUME NEW d \in Conn PROVE ConnInv(d)'
  <2>1. CASE d = c BY <2>1
  <2>2. CASE d # c
    <3>1. d \in Conn \ {c} /\ ConnInv(d) BY <2>2 DEF ServerInv
    <3> QED BY <3>1, OthersKeep
  <2> QED BY <2>1, <2>2
<1> QED BY <1>1 DEF ServerInv

\* A body, whole or cut short, is looked at once.
LEMMA InspectKeeps ==
    ASSUME NEW c \in Conn, ServerInv, mw[c] = "reading", NEW r, Inspect(c, r),
           \/ r = request[c] /\ unsent'[c] = 0
           \/ r = Garbled /\ unsent'[c] > 0,
           UNCHANGED <<request, gone, heard, answer, pieces, out>>,
           unsent' \in [Conn -> 0..MaxChunks],
           \A d \in Conn \ {c} : unsent'[d] = unsent[d]
    PROVE  ServerInv'
<1>1. Shape /\ ConnInv(c) BY DEF ServerInv
<1>2. /\ ~legacy[c] /\ given[c] = Nothing /\ answer[c] = Nothing
      /\ heard[c] = <<>> /\ pieces[c] = <<>> /\ out[c] = <<>>
  BY <1>1 DEF ConnInv, Fresh
<1>3. PICK old : old = (r.form = "object" /\ r.method = "tasks/send") OBVIOUS
<1>4. /\ request'[c] = request[c] /\ request[c] \in Request
      /\ heard'[c] = <<>> /\ answer'[c] = Nothing /\ pieces'[c] = <<>> /\ out'[c] = <<>>
  BY <1>1, <1>2 DEF Shape
<1>5. \/ mw'[c] = "raised" /\ ~legacy'[c] /\ given'[c] = Nothing /\ ~old
      \/ mw'[c] = "app" /\ legacy'[c] = old
         /\ taskId'[c] = (IF old /\ Has(r.params, "id") THEN r.params.id ELSE Absent)
         /\ given'[c] = (IF old THEN [r EXCEPT !.method = "message/send",
                                               !.params = Upgraded(r.params)]
                         ELSE r)
  <2>1. CASE r.form # "text" /\ r.method \in OldMethod /\ r.form = "misnested"
    BY <1>1, <1>2, <1>3, <2>1 DEF Inspect, Shape
  <2>2. CASE ~(r.form # "text" /\ r.method \in OldMethod /\ r.form = "misnested")
    <3>1. old <=> (r.form # "text" /\ r.method \in OldMethod) /\ r.form = "object"
      BY <1>3 DEF OldMethod
    <3> QED BY <1>1, <2>2, <3>1 DEF Inspect, Shape
  <2> QED BY <2>1, <2>2
<1>6. Others(c) BY <1>1 DEF Others, Inspect, Shape
<1>7. Shape' BY <1>1 DEF Inspect, Shape
<1>8. old <=> IsOld(c)'
  <2>1. CASE r = request[c] /\ unsent'[c] = 0
    BY <1>3, <1>4, <2>1 DEF IsOld
  <2>2. CASE r = Garbled /\ unsent'[c] > 0
    <3>1. unsent'[c] # 0
      <4>1. unsent'[c] \in 0..MaxChunks OBVIOUS
      <4> QED BY <2>2, <4>1, MaxChunksAssumption
    <3> QED BY <1>3, <2>2, <3>1 DEF IsOld, Garbled
  <2> QED BY <2>1, <2>2
<1>9. r # Nothing
  <2>1. DOMAIN Nothing = {} BY EmptySeq DEF Nothing
  <2>2. "form" \in DOMAIN r
    <3>1. CASE r = request[c]
      <4>1. r = [form |-> r.form, method |-> r.method, params |-> r.params]
        BY <1>4, <3>1, RequestAssumption
      <4> QED BY <4>1
    <3>2. CASE r = Garbled BY <3>2 DEF Garbled
    <3> QED BY <3>1, <3>2
  <2> QED BY <2>1, <2>2
<1>10. ConnInv(c)'
  <2>1. mw'[c] \in {"raised", "app"} /\ (legacy'[c] => mw'[c] = "app") BY <1>2, <1>5
  <2>2. Fresh(c)' BY <2>1 DEF Fresh
  <2>3. Lists(c)'
    <3>1. <<>> \in Seq({"request", "disconnect"}) BY EmptySeq
    <3>2. IsList(<<>>) BY EmptySeq DEF IsList
    <3> QED BY <1>4, <3>1, <3>2 DEF Lists
  <2>4. Sorted(c)' BY <1>5, <1>8 DEF Sorted
  <2>5. Passed(c)'
    <3>1. ASSUME ~legacy'[c]
          PROVE  /\ given'[c] \in {request'[c], Garbled, Nothing}
                 /\ given'[c] = Garbled => unsent'[c] > 0 \/ request'[c] = Garbled
                 /\ given'[c] = Nothing => mw'[c] = "raised"
      <4>1. CASE mw'[c] = "raised" /\ given'[c] = Nothing
        <5>1. Nothing # Garbled
          <6>1. DOMAIN Nothing = {} BY EmptySeq DEF Nothing
          <6>2. "form" \in DOMAIN Garbled BY DEF Garbled
          <6> QED BY <6>1, <6>2
        <5> QED BY <4>1, <5>1
      <4>2. CASE given'[c] = r BY <1>4, <1>9, <4>2
      <4> QED BY <1>5, <3>1, <4>1, <4>2
    <3> QED BY <1>4, <2>1, <3>1 DEF Passed
  <2>6. Translated(c)'
    <3>1. CASE ~legacy'[c] BY <3>1 DEF Translated
    <3>2. CASE legacy'[c]
      <4>1. old /\ r.form = "object" BY <1>3, <1>5, <3>2
      <4>2. r = request[c] BY <4>1 DEF Garbled
      <4>3. r = [form |-> "object", method |-> r.method, params |-> r.params]
        BY <1>4, <4>1, <4>2, RequestAssumption
      <4>4. [r EXCEPT !.method = "message/send", !.params = Upgraded(r.params)]
              = [form |-> "object", method |-> "message/send", params |-> Upgraded(r.params)]
        <5>1. PICK m, p, q : m = r.method /\ p = r.params /\ q = Upgraded(r.params) OBVIOUS
        <5>2. r = [form |-> "object", method |-> m, params |-> p] BY <4>3, <5>1
        <5>3. PICK e : e = [r EXCEPT !.method = "message/send", !.params = q] OBVIOUS
        <5>4. DOMAIN r = {"form", "method", "params"} /\ r.form = "object" BY <5>2
        <5>5. /\ e = [f \in {"form", "method", "params"} |-> e[f]]
              /\ e.form = "object" /\ e.method = "message/send" /\ e.params = q
          BY <5>3, <5>4
        <5>6. e = [form |-> "object", method |-> "message/send", params |-> q] BY <5>5
        <5> QED BY <5>1, <5>3, <5>6
      <4> QED BY <1>4, <1>5, <3>2, <4>1, <4>2, <4>4 DEF Translated
    <3> QED BY <3>1, <3>2
  <2>7. Answered(c)' BY <1>4 DEF Answered
  <2>8. Held(c)' BY <1>4, <2>1 DEF Held
  <2> QED BY <2>2, <2>3, <2>4, <2>5, <2>6, <2>7, <2>8 DEF ConnInv
<1> QED BY <1>6, <1>7, <1>10, OneConnection

\* A chunk after which more may come only counts.
LEMMA ReadKeeps ==
    ASSUME NEW c \in Conn, ServerInv, Read(c)
    PROVE  ServerInv'
<1>1. Shape /\ ConnInv(c) /\ mw[c] = "reading" /\ unsent[c] \in 0..MaxChunks
  BY DEF ServerInv, Shape, Read, ReadChunk, ReadEnd, ReadDisconnect
<1>2. CASE ReadEnd(c)
  BY <1>1, <1>2, InspectKeeps DEF ReadEnd, Shape
<1>3. CASE ReadDisconnect(c)
  <2>1. CASE unsent[c] = 0 BY <1>1, <1>3, <2>1, InspectKeeps DEF ReadDisconnect, Shape
  <2>2. CASE unsent[c] # 0
    <3>1. unsent[c] > 0 BY <1>1, <2>2, MaxChunksAssumption
    <3> QED BY <1>1, <1>3, <2>2, <3>1, InspectKeeps DEF ReadDisconnect, Shape
  <2> QED BY <2>1, <2>2
<1>4. CASE ReadChunk(c)
  <2>1. /\ unsent' = [unsent EXCEPT ![c] = unsent[c] - 1] /\ unsent[c] # 0
        /\ UNCHANGED <<request, gone, heard, answer, pieces, out>>
    BY <1>4 DEF ReadChunk, Incomplete
  <2>2. unsent' \in [Conn -> 0..MaxChunks] /\ unsent'[c] = unsent[c] - 1
    <3>1. unsent[c] - 1 \in 0..MaxChunks BY <1>1, <2>1, MaxChunksAssumption
    <3> QED BY <1>1, <2>1, <3>1 DEF Shape
  <2>3. \A d \in Conn \ {c} : unsent'[d] = unsent[d] BY <1>1, <2>1 DEF Shape
  <2>4. CASE unsent[c] = 1 /\ Inspect(c, request[c])
    BY <1>1, <2>1, <2>2, <2>3, <2>4, InspectKeeps
  <2>5. CASE UNCHANGED <<mw, legacy, taskId, given>>
    <3>1. Shape' BY <1>1, <2>1, <2>2, <2>5 DEF Shape
    <3>2. Others(c) BY <2>1, <2>3, <2>5 DEF Others
    <3>3. mw'[c] = "reading" /\ ~legacy'[c] BY <1>1, <2>5 DEF ConnInv, Fresh
    <3>4. Fresh(c)' /\ Lists(c)' BY <1>1, <2>1, <2>5 DEF ConnInv, Fresh, Lists
    <3>5. Sorted(c)' /\ Passed(c)' /\ Translated(c)' /\ Answered(c)' /\ Held(c)'
      BY <3>3 DEF Sorted, Passed, Translated, Answered, Held
    <3> QED BY <2>1, <3>1, <3>2, <3>4, <3>5, OneConnection DEF ConnInv
  <2> QED BY <1>4, <2>4, <2>5 DEF ReadChunk
<1> QED BY <1>2, <1>3, <1>4 DEF Read

\* Receiving, raising and going away change little.
LEMMA ReceiveKeeps ==
    ASSUME NEW c \in Conn, ServerInv, Receive(c)
    PROVE  ServerInv'
<1>1. Shape /\ ConnInv(c) /\ mw[c] = "app" BY DEF ServerInv, Receive
<1>2. heard' = [heard EXCEPT ![c] = Append(@, Replayed(c))]
      /\ UNCHANGED <<request, unsent, gone, mw, legacy, taskId, given, answer, pieces, out>>
  BY DEF Receive
<1>3. Shape' /\ Others(c) BY <1>1, <1>2 DEF Shape, Others
<1>4. Lists(c)'
  <2>1. heard'[c] = Append(heard[c], Replayed(c)) BY <1>1, <1>2 DEF Shape
  <2>2. heard[c] \in Seq({"request", "disconnect"}) BY <1>1 DEF ConnInv, Lists
  <2>3. Replayed(c) \in {"request", "disconnect"} BY DEF Replayed
  <2>4. Append(heard[c], Replayed(c)) \in Seq({"request", "disconnect"})
    BY <2>2, <2>3, AppendProperties
  <2> QED BY <1>1, <1>2, <2>1, <2>4 DEF ConnInv, Lists
<1>5. Fresh(c)' BY <1>1, <1>2 DEF Fresh
<1>6. Sorted(c)' /\ Passed(c)' /\ Translated(c)'
  BY <1>1, <1>2 DEF ConnInv, Sorted, IsOld, Passed, Translated
<1>7. Answered(c)' /\ Held(c)'
  BY <1>1, <1>2 DEF ConnInv, Answered, Valid, Held, Length
<1> QED BY <1>2, <1>3, <1>4, <1>5, <1>6, <1>7, OneConnection DEF ConnInv

LEMMA RaiseKeeps ==
    ASSUME NEW c \in Conn, ServerInv, Raise(c)
    PROVE  ServerInv'
<1>1. Shape /\ ConnInv(c) /\ mw[c] \in {"app", "flushing"} BY DEF ServerInv, Raise
<1>2. mw' = [mw EXCEPT ![c] = "raised"]
      /\ UNCHANGED <<request, unsent, gone, legacy, taskId, given, heard, answer, pieces, out>>
  BY DEF Raise
<1>3. Shape' /\ Others(c) /\ mw'[c] = "raised" BY <1>1, <1>2 DEF Shape, Others
<1>4. Fresh(c)' /\ Lists(c)' BY <1>1, <1>2, <1>3 DEF ConnInv, Fresh, Lists
<1>5. Sorted(c)' /\ Passed(c)' /\ Translated(c)'
  BY <1>1, <1>2, <1>3 DEF ConnInv, Sorted, IsOld, Passed, Translated
<1>6. Answered(c)' BY <1>1, <1>2 DEF ConnInv, Answered, Valid
<1>7. Held(c)'
  <2>1. Length(c)' = Length(c) BY <1>2 DEF Length
  <2> QED BY <1>1, <1>2, <1>3, <2>1 DEF ConnInv, Held
<1> QED BY <1>2, <1>3, <1>4, <1>5, <1>6, <1>7, OneConnection DEF ConnInv

LEMMA DisconnectKeeps ==
    ASSUME NEW c \in Conn, ServerInv, Disconnect(c)
    PROVE  ServerInv'
<1>1. Shape /\ ConnInv(c) BY DEF ServerInv
<1>2. gone' = [gone EXCEPT ![c] = TRUE]
      /\ UNCHANGED <<request, unsent, mw, legacy, taskId, given, heard, answer, pieces, out>>
  BY DEF Disconnect
<1>3. Shape' /\ Others(c) BY <1>1, <1>2 DEF Shape, Others
<1>4. Fresh(c)' /\ Lists(c)' BY <1>1, <1>2 DEF ConnInv, Fresh, Lists
<1>5. Sorted(c)' /\ Passed(c)' /\ Translated(c)'
  BY <1>1, <1>2 DEF ConnInv, Sorted, IsOld, Passed, Translated
<1>6. Answered(c)' /\ Held(c)'
  BY <1>1, <1>2 DEF ConnInv, Answered, Valid, Held, Length
<1> QED BY <1>2, <1>3, <1>4, <1>5, <1>6, OneConnection DEF ConnInv

\* The first two things sent.
LEMMA TwoSends ==
    ASSUME NEW s, NEW b
    PROVE  /\ Append(<<>>, s) = <<s>> /\ <<s>> \o <<>> = <<s>>
           /\ Append(<<s>>, b) = <<s, b>>
<1>1. PICK S : S = {s, b} OBVIOUS
<1>2. <<>> \in Seq(S) /\ <<s>> \in Seq(S) /\ <<s, b>> \in Seq(S) BY <1>1
<1>3. Append(<<>>, s) = <<>> \o <<s>> /\ Append(<<s>>, b) = <<s>> \o <<b>>
  BY <1>1, <1>2, AppendIsConcat
<1>4. <<>> \o <<s>> = <<s>> /\ <<s>> \o <<>> = <<s>> BY <1>2, ConcatEmptySeq
<1>5. Append(<<s>>, b) = <<s, b>>
  <2>1. PICK t : t = Append(<<s>>, b) OBVIOUS
  <2>2. /\ Len(<<s>>) = 1 /\ <<s>>[1] = s
        /\ Len(<<s, b>>) = 2 /\ <<s, b>>[1] = s /\ <<s, b>>[2] = b
    OBVIOUS
  <2>3. t \in Seq(S) /\ Len(t) = 2 /\ t[1] = s /\ t[2] = b
    BY <1>1, <1>2, <2>1, <2>2, AppendProperties
  <2>4. \A i \in 1..2 : t[i] = <<s, b>>[i] BY <2>2, <2>3
  <2> QED BY <1>2, <2>1, <2>2, <2>3, <2>4, SeqEqual
<1> QED BY <1>3, <1>4, <1>5

\* The start of an answer that fits the request.
LEMMA StartKeeps ==
    ASSUME NEW c \in Conn, ServerInv, NEW a, a # Nothing, SendStart(c, a),
           legacy[c] => \/ a = [error |-> "invalid"]
                        \/ Valid(c) /\ IsTaskOf(a, given[c].params.message)
    PROVE  ServerInv'
<1>1. Shape /\ ConnInv(c) /\ mw[c] = "app" /\ answer[c] = Nothing
  BY DEF ServerInv, SendStart
<1>2. /\ answer' = [answer EXCEPT ![c] = a]
      /\ IF legacy[c] THEN UNCHANGED out ELSE out' = [out EXCEPT ![c] = Append(@, Start(a))]
      /\ UNCHANGED <<request, unsent, gone, mw, legacy, taskId, given, heard, pieces>>
  BY DEF SendStart, Sent
<1>3. Shape' /\ Others(c) /\ answer'[c] = a
  BY <1>1, <1>2 DEF Shape, Others
<1>4. pieces[c] = <<>> BY <1>1 DEF ConnInv, Lists
<1>5. Fresh(c)' BY <1>1, <1>2 DEF Fresh
<1>6. Lists(c)' BY <1>1, <1>2, <1>4 DEF ConnInv, Lists
<1>7. Sorted(c)' /\ Translated(c)' BY <1>1, <1>2 DEF ConnInv, Sorted, IsOld, Translated
<1>8. Passed(c)'
  <2>1. CASE legacy[c] BY <1>2, <2>1 DEF Passed
  <2>2. CASE ~legacy[c]
    <3>1. out[c] = <<>> BY <1>1, <2>2 DEF ConnInv, Passed
    <3>2. out'[c] = Append(<<>>, Start(a)) BY <1>1, <1>2, <2>2, <3>1 DEF Shape
    <3>3. PICK s : s = Start(a) OBVIOUS
    <3>4. Append(<<>>, s) = <<s>> /\ <<s>> \o <<>> = <<s>> BY TwoSends
    <3>5. out'[c] = <<Start(a)>> \o pieces'[c] BY <1>2, <1>4, <3>2, <3>3, <3>4
    <3> QED BY <1>1, <1>2, <1>3, <2>2, <3>5 DEF ConnInv, Passed
  <2> QED BY <2>1, <2>2
<1>9. Answered(c)' BY <1>2, <1>3 DEF Answered, Valid
<1>10. Held(c)'
  <2>1. mw'[c] = "app" BY <1>1, <1>2
  <2>2. legacy[c] => out'[c] = <<>> BY <1>1, <1>2 DEF ConnInv, Held
  <2> QED BY <1>2, <2>1, <2>2 DEF Held
<1> QED BY <1>2, <1>3, <1>5, <1>6, <1>7, <1>8, <1>9, <1>10, OneConnection DEF ConnInv

\* One piece of it.
LEMMA BodyKeeps ==
    ASSUME NEW c \in Conn, ServerInv, NEW p, NEW more \in BOOLEAN, SendBody(c, p, more)
    PROVE  ServerInv'
<1>1. Shape /\ ConnInv(c) /\ mw[c] = "app" /\ answer[c] # Nothing
  BY DEF ServerInv, SendBody
<1>2. PICK e : e = Piece(p, more) OBVIOUS
<1>3. /\ pieces' = [pieces EXCEPT ![c] = Append(@, e)]
      /\ IF legacy[c] THEN UNCHANGED out ELSE out' = [out EXCEPT ![c] = Append(@, e)]
      /\ mw' = [mw EXCEPT ![c] =
                  IF more THEN "app" ELSE IF legacy[c] THEN "flushing" ELSE "done"]
      /\ UNCHANGED <<request, unsent, gone, legacy, taskId, given, heard, answer>>
  BY <1>2 DEF SendBody, Sent
<1>4. Shape' /\ Others(c) BY <1>1, <1>3 DEF Shape, Others
<1>5. /\ pieces'[c] = Append(pieces[c], e)
      /\ mw'[c] = IF more THEN "app" ELSE IF legacy[c] THEN "flushing" ELSE "done"
  BY <1>1, <1>3 DEF Shape
<1>6. /\ IsList(pieces'[c]) /\ pieces'[c] # <<>> /\ Last(pieces'[c]) = e
      /\ \A x : <<x>> \o pieces'[c] = Append(<<x>> \o pieces[c], e)
  <2>1. IsList(pieces[c]) BY <1>1 DEF ConnInv, Lists
  <2> QED BY <1>5, <2>1, OneMoreInList
<1>7. Fresh(c)' BY <1>5 DEF Fresh
<1>8. Lists(c)' BY <1>1, <1>3, <1>6 DEF ConnInv, Lists
<1>9. Sorted(c)' /\ Translated(c)'
  BY <1>1, <1>3 DEF ConnInv, Sorted, IsOld, Translated
<1>10. Passed(c)'
  <2>1. CASE legacy[c] BY <1>3, <2>1 DEF Passed
  <2>2. CASE ~legacy[c]
    <3>1. out[c] = <<Start(answer[c])>> \o pieces[c] BY <1>1, <2>2 DEF ConnInv, Passed
    <3>2. out'[c] = Append(out[c], e) BY <1>1, <1>3, <2>2 DEF Shape
    <3>3. out'[c] = <<Start(answer[c])>> \o pieces'[c] BY <1>6, <3>1, <3>2
    <3>4. mw'[c] # "flushing" BY <1>5, <2>2
    <3> QED BY <1>1, <1>3, <2>2, <3>3, <3>4 DEF ConnInv, Passed
  <2> QED BY <2>1, <2>2
<1>11. Answered(c)' BY <1>1, <1>3 DEF ConnInv, Answered, Valid
<1>12. Held(c)'
  <2>1. legacy[c] => out'[c] = <<>> BY <1>1, <1>3 DEF ConnInv, Held
  <2>2. e.more = more BY <1>2 DEF Piece
  <2>3. legacy[c] => mw'[c] \in {"app", "flushing"} /\ (mw'[c] # "app" => ~more)
    BY <1>5
  <2>4. legacy'[c] = legacy[c] BY <1>3
  <2> QED BY <1>6, <2>1, <2>2, <2>3, <2>4 DEF Held
<1> QED BY <1>3, <1>4, <1>7, <1>8, <1>9, <1>10, <1>11, <1>12, OneConnection DEF ConnInv

\* The rewritten answer: its start, then its body.
LEMMA FlushKeeps ==
    ASSUME NEW c \in Conn, ServerInv, Flush(c)
    PROVE  ServerInv'
<1>1. Shape /\ ConnInv(c) /\ mw[c] = "flushing" BY DEF ServerInv, Flush
<1>2. UNCHANGED <<request, unsent, gone, legacy, taskId, given, heard, answer, pieces>>
  BY DEF Flush
<1>3. legacy[c] BY <1>1 DEF ConnInv, Passed
<1>4. PICK a : a = Length(c) OBVIOUS
<1>5. Length(c)' = a BY <1>2, <1>4 DEF Length
<1>6. \/ /\ out[c] = <<>> /\ out' = [out EXCEPT ![c] = Append(@, Start(a))]
         /\ mw' = mw
      \/ /\ out[c] # <<>> /\ out' = [out EXCEPT ![c] = Append(@, Piece(a, FALSE))]
         /\ mw' = [mw EXCEPT ![c] = "done"]
  BY <1>4 DEF Flush, Sent, Length
<1>7. Shape' /\ Others(c) BY <1>1, <1>2, <1>6 DEF Shape, Others
<1>8. mw'[c] \in {"flushing", "done"} BY <1>1, <1>6 DEF Shape
<1>9. Fresh(c)' /\ Lists(c)' BY <1>1, <1>2, <1>8 DEF ConnInv, Fresh, Lists
<1>10. Sorted(c)' /\ Passed(c)' /\ Translated(c)'
  BY <1>1, <1>2, <1>3, <1>8 DEF ConnInv, Sorted, IsOld, Passed, Translated
<1>11. Answered(c)' BY <1>1, <1>2 DEF ConnInv, Answered, Valid
<1>12. Held(c)'
  <2>1. PICK s, b : s = Start(a) /\ b = Piece(a, FALSE) OBVIOUS
  <2>2. Append(<<>>, s) = <<s>> /\ Append(<<s>>, b) = <<s, b>> BY TwoSends
  <2>3. out[c] \in {<<>>, <<s>>} BY <1>1, <1>3, <1>4, <2>1 DEF ConnInv, Held
  <2>4. \/ mw'[c] = "flushing" /\ out'[c] = <<s>>
        \/ mw'[c] = "done" /\ out'[c] = <<s, b>>
    <3>1. CASE out[c] = <<>>
      <4>1. out' = [out EXCEPT ![c] = Append(@, s)] /\ mw' = mw BY <1>6, <2>1, <3>1
      <4> QED BY <1>1, <2>2, <3>1, <4>1 DEF Shape
    <3>2. CASE out[c] # <<>>
      <4>1. out' = [out EXCEPT ![c] = Append(@, b)] /\ mw' = [mw EXCEPT ![c] = "done"]
        BY <1>6, <2>1, <3>2
      <4> QED BY <1>1, <2>2, <2>3, <3>2, <4>1 DEF Shape
    <3> QED BY <3>1, <3>2
  <2>5. pieces[c] # <<>> /\ ~Last(pieces[c]).more BY <1>1, <1>3 DEF ConnInv, Held
  <2> QED BY <1>2, <1>5, <2>1, <2>4, <2>5 DEF Held
<1> QED BY <1>2, <1>7, <1>9, <1>10, <1>11, <1>12, OneConnection DEF ConnInv

\* What the application answers with.
LEMMA AppKeeps ==
    ASSUME NEW c \in Conn, ServerInv, App(c)
    PROVE  ServerInv'
<1>1. DOMAIN Nothing = {} BY EmptySeq DEF Nothing
<1>2. ASSUME AnswerTask(c) PROVE ServerInv'
  <2>1. PICK a : a = [result |-> TaskOf(c)] OBVIOUS
  <2>2. SendStart(c, a) /\ Valid(c) BY <1>2, <2>1 DEF AnswerTask
  <2>3. a # Nothing
    <3>1. "result" \in DOMAIN a BY <2>1
    <3> QED BY <1>1, <3>1
  <2>4. IsTaskOf(a, given[c].params.message)
    <3>1. PICK msg, states, l : /\ msg = given[c].params.message /\ l = Last(states)
                                /\ states = SelectSeq(View[c], LAMBDA e : e # "artifact")
      OBVIOUS
    <3>2. PICK artifacts \in {<<>>, <<Artifact>>} :
             artifacts = IF Contains(View[c], "artifact") THEN <<Artifact>> ELSE <<>>
      OBVIOUS
    <3>3. TaskOf(c) = TaskWith(Filed(msg), l, artifacts)
      BY <3>1, <3>2 DEF TaskOf, TaskWith
    <3>4. Has(a, "result") /\ a.result = TaskWith(Filed(msg), l, artifacts) BY <2>1, <3>3 DEF Has
    <3>5. Has(a.result, "state") /\ a.result.state = l BY <3>4 DEF TaskWith, Has
    <3> QED BY <2>1, <3>1, <3>3, <3>4, <3>5 DEF IsTaskOf
  <2> QED BY <2>2, <2>3, <2>4, StartKeeps
<1>3. ASSUME AnswerError(c) PROVE ServerInv'
  <2>1. PICK a : a = [error |-> "invalid"] OBVIOUS
  <2>2. a # Nothing
    <3>1. "error" \in DOMAIN a BY <2>1
    <3> QED BY <1>1, <3>1
  <2>3. SendStart(c, a) BY <1>3, <2>1 DEF AnswerError
  <2> QED BY <2>1, <2>2, <2>3, StartKeeps
<1>4. ASSUME StreamStart(c) PROVE ServerInv'
  <2>1. PICK a : a = [stream |-> "events"] OBVIOUS
  <2>2. a # Nothing
    <3>1. "stream" \in DOMAIN a BY <2>1
    <3> QED BY <1>1, <3>1
  <2>3. SendStart(c, a) BY <1>4, <2>1 DEF StreamStart
  <2>4. ~legacy[c]
    <3>1. given[c].method = "message/stream" BY <1>4 DEF StreamStart, Streams
    <3>2. ASSUME legacy[c] PROVE FALSE
      <4>1. PICK q : q = Upgraded(request[c].params) OBVIOUS
      <4>2. Translated(c) BY DEF ServerInv, ConnInv
      <4>3. given[c] = [form |-> "object", method |-> "message/send", params |-> q]
        BY <3>2, <4>1, <4>2 DEF Translated
      <4>4. given[c].method = "message/send" BY <4>3
      <4> QED BY <3>1, <4>4
    <3> QED BY <3>2
  <2> QED BY <2>2, <2>3, <2>4, StartKeeps
<1>5. ASSUME AnswerBody(c) PROVE ServerInv'
  BY <1>5, BodyKeeps DEF AnswerBody
<1>6. ASSUME StreamEvent(c) PROVE ServerInv'
  <2>1. PICK e : SendBody(c, e, e \notin Final) BY <1>6 DEF StreamEvent
  <2> QED BY <2>1, BodyKeeps
<1>7. ASSUME StreamCut(c) PROVE ServerInv'
  BY <1>7, BodyKeeps DEF StreamCut
<1> QED BY <1>2, <1>3, <1>4, <1>5, <1>6, <1>7 DEF App

LEMMA ServerStarts == Init => ServerInv
<1> SUFFICES ASSUME Init PROVE ServerInv OBVIOUS
<1>1. Shape BY MaxChunksAssumption DEF Init, CompatInit, Shape
<1>2. ASSUME NEW c \in Conn PROVE ConnInv(c)
  <2>1. <<>> \in Seq({"request", "disconnect"}) /\ IsList(<<>>) BY EmptySeq DEF IsList
  <2>2. Fresh(c) /\ Lists(c) BY <2>1, MaxChunksAssumption DEF Init, CompatInit, Fresh, Lists
  <2>3. mw[c] = "reading" /\ ~legacy[c] BY DEF Init, CompatInit
  <2> QED BY <2>2, <2>3 DEF ConnInv, Sorted, Passed, Translated, Answered, Held
<1> QED BY <1>1, <1>2 DEF ServerInv

LEMMA ServerStays == UNCHANGED compatVars /\ ServerInv => ServerInv'
<1> SUFFICES ASSUME UNCHANGED compatVars, ServerInv PROVE ServerInv' OBVIOUS
<1>1. UNCHANGED <<request, unsent, gone, mw, legacy, taskId, given, heard, answer, pieces, out>>
  BY DEF compatVars
<1>2. Shape' BY <1>1 DEF ServerInv, Shape
<1>3. ASSUME NEW c \in Conn PROVE ConnInv(c)'
  <2>1. ConnInv(c) BY DEF ServerInv
  <2>2. Fresh(c)' /\ Lists(c)' BY <1>1, <2>1 DEF ConnInv, Fresh, Lists
  <2>3. Sorted(c)' /\ Passed(c)' /\ Translated(c)'
    BY <1>1, <2>1 DEF ConnInv, Sorted, IsOld, Passed, Translated
  <2>4. Answered(c)' /\ Held(c)'
    BY <1>1, <2>1 DEF ConnInv, Answered, Valid, Held, Length
  <2> QED BY <2>2, <2>3, <2>4 DEF ConnInv
<1> QED BY <1>2, <1>3 DEF ServerInv

LEMMA ServerKeeps == ServerInv /\ [Next]_vars => ServerInv'
<1> SUFFICES ASSUME ServerInv, [Next]_vars PROVE ServerInv' OBVIOUS
<1>1. ASSUME NEW c \in Conn, Submit(c) \/ Work(c) PROVE ServerInv'
  BY <1>1, ServerStays DEF Submit, Work
<1>2. ASSUME NEW c \in Conn, Web(c) PROVE ServerInv'
  BY <1>2, ReceiveKeeps, AppKeeps, FlushKeeps DEF Web, Hears
<1>3. ASSUME NEW c \in Conn, Environment(c) PROVE ServerInv'
  BY <1>3, ReadKeeps, DisconnectKeeps, RaiseKeeps, ServerStays DEF Environment
<1>4. CASE Done \/ UNCHANGED vars
  BY <1>4, ServerStays DEF Done, vars
<1> QED BY <1>1, <1>2, <1>3, <1>4 DEF Next

LEMMA ServerInvariant == Spec => []ServerInv
BY ServerStarts, ServerKeeps, PTL DEF Spec

----------------------------------------------------------------------------
(* The theorems. *)

\* The variables of the middleware and of the tasks have their types.
THEOREM ServerTypes == Spec => []TypeOK
<1>1. ServerInv => CompatTypeOK BY DEF ServerInv, Shape, ConnInv, Lists, CompatTypeOK
<1>2. TaskSpec => []TaskTypeOK BY TypeCorrect
<1>3. CompatTypeOK /\ TaskTypeOK => TypeOK BY DEF TypeOK
<1> QED BY <1>1, <1>2, <1>3, ServerInvariant, ServerRunsTasks, PTL

\* Whatever the application sends, raises or hears, and whenever the client
\* goes away, an old client gets nothing of an answer that is not whole.
THEOREM OldAnswersAreWhole == Spec => []LegacyAnswersAreWhole
<1>1. ASSUME ServerInv, NEW c \in Conn, IsOld(c)
      PROVE  /\ out[c] # <<>> => pieces[c] # <<>> /\ ~Last(pieces[c]).more
             /\ mw[c] = "done" => Len(out[c]) = 2
             /\ Len(out[c]) <= 2
             /\ Len(out[c]) = 2 =>
                   out[c] = <<Start(out[c][2].content), Piece(out[c][2].content, FALSE)>>
  <2>1. ConnInv(c) /\ Shape BY <1>1 DEF ServerInv
  <2>2. PICK s, b : s = Start(Length(c)) /\ b = Piece(Length(c), FALSE) OBVIOUS
  <2>3. /\ out[c] \in {<<>>, <<s>>, <<s, b>>}
        /\ mw[c] = "done" => out[c] = <<s, b>>
        /\ out[c] # <<>> => pieces[c] # <<>> /\ ~Last(pieces[c]).more
    <3>1. CASE mw[c] = "reading" BY <2>1, <3>1 DEF ConnInv, Fresh
    <3>2. CASE mw[c] # "reading"
      <4>1. legacy[c] BY <1>1, <2>1, <3>2 DEF ConnInv, Sorted
      <4>2. mw[c] \in {"app", "raised", "flushing", "done"} BY <2>1, <3>2 DEF Shape
      <4>3. out[c] # <<>> => pieces[c] # <<>> /\ ~Last(pieces[c]).more
        BY <2>1, <4>1 DEF ConnInv, Held
      <4>4. out[c] \in {<<>>, <<s>>, <<s, b>>} /\ (mw[c] = "done" => out[c] = <<s, b>>)
        BY <2>1, <2>2, <4>1, <4>2 DEF ConnInv, Held
      <4> QED BY <4>3, <4>4
    <3> QED BY <3>1, <3>2
  <2>4. /\ Len(out[c]) \in {0, 1, 2}
        /\ mw[c] = "done" => Len(out[c]) = 2
        /\ Len(out[c]) = 2 => out[c] = <<s, b>>
    <3>1. Len(<<>>) = 0 /\ Len(<<s>>) = 1 /\ Len(<<s, b>>) = 2 OBVIOUS
    <3> QED BY <2>3, <3>1
  <2>5. ASSUME Len(out[c]) = 2
        PROVE  out[c] = <<Start(out[c][2].content), Piece(out[c][2].content, FALSE)>>
    <3>1. out[c] = <<s, b>> BY <2>4, <2>5
    <3>2. out[c][2] = b BY <3>1
    <3>3. b.content = Length(c) BY <2>2 DEF Piece
    <3> QED BY <2>2, <3>1, <3>2, <3>3
  <2>6. Len(out[c]) <= 2
    <3>1. PICK n : n = Len(out[c]) OBVIOUS
    <3>2. n \in {0, 1, 2} BY <2>4, <3>1
    <3>3. n <= 2 BY <3>2
    <3> QED BY <3>1, <3>3
  <2> QED BY <2>3, <2>4, <2>5, <2>6
<1>2. ServerInv => LegacyAnswersAreWhole BY <1>1 DEF LegacyAnswersAreWhole
<1> QED BY <1>2, ServerInvariant, PTL

\* Every other request passes through untouched, and so does its answer.
THEOREM TheRestPasses == Spec => []OthersPassThrough
<1>1. ASSUME ServerInv, NEW c \in Conn, ~IsOld(c), mw[c] # "reading"
      PROVE  Passed(c) /\ ~legacy[c]
  BY <1>1 DEF ServerInv, ConnInv, Sorted
<1>2. ServerInv => OthersPassThrough BY <1>1 DEF Passed, OthersPassThrough
<1> QED BY <1>2, ServerInvariant, PTL

\* The parts of an old request come to the application one by one.
LEMMA PartsArrive ==
    ASSUME ServerInv, NEW c \in Conn, IsOld(c), legacy[c]
    PROVE  LET old == Parts(request[c])
               new == Parts(given[c])
           IN  /\ new # <<>> <=> old # <<>>
               /\ new # <<>> =>
                     /\ new = given[c].params.message.parts
                     /\ new = [i \in DOMAIN old |-> UpgradedPart(old[i])]
<1>1. PICK p, q : p = request[c].params /\ q = Upgraded(p) OBVIOUS
<1>2. given[c] = [form |-> "object", method |-> "message/send", params |-> q]
  BY <1>1 DEF ServerInv, ConnInv, Translated
<1>3. given[c].params = q BY <1>2
<1>4. /\ Has(q, "message")
      /\ Has(q.message, "parts") <=> Has(p, "message") /\ Has(p.message, "parts")
      /\ Has(q.message, "parts") =>
            q.message.parts = [i \in DOMAIN p.message.parts |->
                                  UpgradedPart(p.message.parts[i])]
  BY <1>1, UpgradedMessage
<1>5. request[c] \in Request /\ request[c].form = "object"
  BY DEF ServerInv, Shape, IsOld
<1>6. PICK old : old = Parts(request[c]) OBVIOUS
<1>7. PICK new : new = Parts(given[c]) OBVIOUS
<1>8. old \in Seq(Range(old)) BY <1>5, <1>6, PartsAssumption
<1>9. CASE ~Has(q.message, "parts")
  BY <1>1, <1>3, <1>4, <1>6, <1>7, <1>9 DEF Parts
<1>10. CASE Has(q.message, "parts")
  <2>1. old = p.message.parts BY <1>1, <1>4, <1>6, <1>10 DEF Parts
  <2>2. new = q.message.parts BY <1>3, <1>4, <1>7, <1>10 DEF Parts
  <2>3. new = [i \in DOMAIN old |-> UpgradedPart(old[i])] BY <1>4, <1>10, <2>1, <2>2
  <2>4. DOMAIN old = {} <=> old = <<>>
    <3>1. Len(old) \in Nat /\ DOMAIN old = 1..Len(old) BY <1>8, LenProperties
    <3>2. DOMAIN <<>> = {} BY EmptySeq
    <3>3. old # <<>> => Len(old) \in Nat \ {0} BY <1>8, EmptySeq
    <3> QED BY <3>1, <3>2, <3>3
  <2>5. new = <<>> => DOMAIN new = {} BY EmptySeq
  <2>6. DOMAIN new = {} => new = <<>>
    <3>1. ASSUME DOMAIN new = {} PROVE old = <<>> BY <2>3, <2>4, <3>1
    <3>2. <<>> = [i \in {} |-> UpgradedPart(old[i])] OBVIOUS
    <3> QED BY <2>3, <3>1, <3>2
  <2>7. DOMAIN new = DOMAIN old BY <2>3
  <2>8. new # <<>> <=> old # <<>> BY <2>4, <2>5, <2>6, <2>7
  <2> QED BY <1>3, <1>6, <1>7, <2>2, <2>3, <2>8
<1> QED BY <1>9, <1>10

\* An old request whose parts name their type is a request of the new protocol
\* when the application gets it.
THEOREM OldRequestsArrive == Spec => []OldRequestsAreUnderstood
<1>1. ASSUME ServerInv, NEW c \in Conn, IsOld(c), Parts(request[c]) # <<>>,
             \A i \in DOMAIN Parts(request[c]) : Has(Parts(request[c])[i], "type"),
             given[c] # Nothing
      PROVE  Valid(c)
  <2>1. ConnInv(c) /\ Shape BY <1>1 DEF ServerInv
  <2>2. mw[c] # "reading" BY <1>1, <2>1 DEF ConnInv, Fresh
  <2>3. legacy[c] BY <1>1, <2>1, <2>2 DEF ConnInv, Sorted
  <2>4. PICK old, new : old = Parts(request[c]) /\ new = Parts(given[c]) OBVIOUS
  <2>5. new # <<>> /\ new = [i \in DOMAIN old |-> UpgradedPart(old[i])]
    BY <1>1, <2>3, <2>4, PartsArrive
  <2>6. ASSUME NEW i \in DOMAIN new PROVE Has(new[i], "kind")
    <3>1. i \in DOMAIN old /\ new[i] = UpgradedPart(old[i]) BY <2>5
    <3>2. PICK p : p = old[i] OBVIOUS
    <3>3. request[c] \in Request /\ request[c].form = "object"
      BY <1>1, <2>1 DEF Shape, IsOld
    <3>4. p = [f \in DOMAIN p |-> p[f]]
      BY <2>4, <3>1, <3>2, <3>3, PartsAssumption
    <3>5. Has(p, "type") BY <1>1, <2>4, <3>1, <3>2
    <3> QED BY <3>1, <3>2, <3>4, <3>5, PartThereAndBack
  <2>7. PICK q : q = Upgraded(request[c].params) OBVIOUS
  <2>8. given[c] = [form |-> "object", method |-> "message/send", params |-> q]
    BY <2>1, <2>3, <2>7 DEF ConnInv, Translated
  <2>9. Has(given[c].params.message, "messageId")
    <3>1. Has(q.message, "messageId") BY <2>7, UpgradedMessage
    <3> QED BY <2>8, <3>1
  <2>10. given[c].form = "object" /\ given[c].method \in Methods BY <2>8 DEF Methods
  <2> QED BY <2>4, <2>5, <2>6, <2>9, <2>10 DEF Valid
<1>2. ServerInv => OldRequestsAreUnderstood BY <1>1 DEF OldRequestsAreUnderstood
<1> QED BY <1>2, ServerInvariant, PTL

\* The client recognizes its message in the history of the task.
LEMMA MessageComesBack ==
    ASSUME ServerInv, NEW c \in Conn, IsOld(c), legacy[c], Valid(c)
    PROVE  Recognizable(DowngradedParts(DowngradedHead(Filed(given[c].params.message))),
                        request[c].params.message)
<1>1. PICK params, written, msg :
         /\ params = request[c].params /\ written = params.message
         /\ msg = given[c].params.message
  OBVIOUS
<1>2. PICK m, h, d : m = Filed(msg) /\ h = DowngradedHead(m) /\ d = DowngradedParts(h)
  OBVIOUS
<1>3. PICK old, new : old = Parts(request[c]) /\ new = Parts(given[c]) OBVIOUS
<1>4. new # <<>> BY <1>3 DEF Valid
<1>5. /\ old # <<>> /\ new = msg.parts
      /\ new = [i \in DOMAIN old |-> UpgradedPart(old[i])]
  BY <1>1, <1>3, <1>4, PartsArrive
<1>6. Has(params, "message") /\ Has(written, "parts") /\ old = written.parts
  BY <1>1, <1>3, <1>5 DEF Parts
<1>7. Has(msg, "parts") BY <1>1, <1>3, <1>4 DEF Parts
<1>8. msg = Upgraded(params).message
  <2>1. PICK q : q = Upgraded(params) OBVIOUS
  <2>2. given[c] = [form |-> "object", method |-> "message/send", params |-> q]
    BY <1>1, <2>1 DEF ServerInv, ConnInv, Translated
  <2>3. given[c].params = q BY <2>2
  <2> QED BY <1>1, <2>1, <2>3
<1>9. /\ \A f \in DOMAIN written \ {"parts"} : Has(msg, f) /\ msg[f] = written[f]
      /\ DOMAIN msg \subseteq DOMAIN written \cup {"contextId", "messageId"}
  <2>1. PICK up, q : up = Upgraded(params) /\ q = up.message OBVIOUS
  <2>2. Has(params, "message") =>
           /\ \A f \in DOMAIN params.message \ {"parts"} :
                 Has(q, f) /\ q[f] = params.message[f]
           /\ DOMAIN q \subseteq DOMAIN params.message \cup {"contextId", "messageId"}
    BY <2>1, UpgradedMessage
  <2>3. params.message = written /\ q = msg BY <1>1, <1>8, <2>1
  <2> QED BY <1>6, <2>2, <2>3
<1>10. /\ \A f \in DOMAIN msg \ {"kind"} : Has(m, f) /\ m[f] = msg[f]
       /\ DOMAIN m \subseteq DOMAIN msg \cup {"kind", "taskId", "contextId"}
  BY <1>2, FiledFields
<1>11. /\ Old(h) /\ DOMAIN h \subseteq DOMAIN m \cup {"sessionId"}
       /\ \A f \in DOMAIN m \ {"kind", "contextId", "sessionId"} : Has(h, f) /\ h[f] = m[f]
  BY <1>2, HeadFields
<1>12. Has(h, "parts") /\ h.parts = new BY <1>5, <1>7, <1>10, <1>11 DEF Has
<1>13. /\ DOMAIN d = DOMAIN h /\ \A f \in DOMAIN h \ {"parts"} : d[f] = h[f]
       /\ d.parts = [i \in DOMAIN new |-> DowngradedPart(new[i])]
  BY <1>2, <1>12, PartsFields
<1>14. Old(d) BY <1>11, <1>13 DEF Old, Has
<1>15. ASSUME NEW f \in DOMAIN written \ {"kind", "contextId", "sessionId", "parts"}
       PROVE  Has(d, f) /\ d[f] = written[f]
  <2>1. f \in DOMAIN msg \ {"kind"} /\ msg[f] = written[f] BY <1>9 DEF Has
  <2>2. f \in DOMAIN m \ {"kind", "contextId", "sessionId"} /\ m[f] = written[f]
    BY <1>10, <2>1 DEF Has
  <2>3. f \in DOMAIN h \ {"parts"} /\ h[f] = written[f] BY <1>11, <2>2 DEF Has
  <2> QED BY <1>13, <2>3 DEF Has
<1>16. DOMAIN d \subseteq DOMAIN written \cup {"sessionId", "messageId", "taskId"}
  BY <1>9, <1>10, <1>13, <1>11, <1>14 DEF Old, Has
<1>17. DOMAIN d.parts = DOMAIN written.parts BY <1>5, <1>6, <1>13
<1>18. ASSUME NEW i \in DOMAIN written.parts, Has(written.parts[i], "type")
       PROVE  d.parts[i] = written.parts[i]
  <2>1. PICK p : p = old[i] OBVIOUS
  <2>2. request[c] \in Request /\ request[c].form = "object"
    BY DEF ServerInv, Shape, IsOld
  <2>3. p = [f \in DOMAIN p |-> p[f]] BY <1>3, <1>6, <2>1, <2>2, PartsAssumption
  <2>4. DowngradedPart(UpgradedPart(p)) = p BY <1>6, <1>18, <2>1, <2>3, PartThereAndBack
  <2>5. i \in DOMAIN new /\ new[i] = UpgradedPart(p) BY <1>5, <1>6, <2>1
  <2> QED BY <1>6, <1>13, <2>1, <2>4, <2>5
<1>19. Recognizable(d, written) BY <1>14, <1>15, <1>16, <1>17, <1>18 DEF Recognizable
<1> QED BY <1>1, <1>2, <1>19

\* What an old client is answered with, when it is a task.
LEMMA AnsweredTask ==
    ASSUME ServerInv, NEW c \in Conn, IsOld(c), Len(out[c]) = 2,
           Has(out[c][2].content, "result")
    PROVE  /\ legacy[c] /\ Valid(c)
           /\ \E state, artifacts, d :
                 /\ artifacts \in {<<>>, <<Artifact>>}
                 /\ d = DowngradedTask(TaskWith(Filed(given[c].params.message), state, artifacts))
                 /\ out[c][2].content.result =
                       IF taskId[c] = Absent THEN d ELSE With(d, "id", taskId[c])
<1>1. ConnInv(c) /\ Shape BY DEF ServerInv
<1>2. Len(<<>>) = 0 /\ \A s : Len(<<s>>) = 1 OBVIOUS
<1>3. mw[c] # "reading" BY <1>1, <1>2 DEF ConnInv, Fresh
<1>4. legacy[c] BY <1>1, <1>3 DEF ConnInv, Sorted
<1>5. PICK w : w = Length(c) OBVIOUS
<1>6. PICK s, b : s = Start(w) /\ b = Piece(w, FALSE) OBVIOUS
<1>7. out[c] = <<s, b>>
  <2>1. /\ mw[c] = "app" => out[c] = <<>>
        /\ mw[c] \in {"flushing", "raised"} => out[c] \in {<<>>, <<s>>}
        /\ mw[c] = "done" => out[c] = <<s, b>>
    BY <1>1, <1>4, <1>5, <1>6 DEF ConnInv, Held
  <2>2. mw[c] \in {"app", "raised", "flushing", "done"} BY <1>1, <1>3 DEF Shape
  <2> QED BY <1>2, <2>1, <2>2
<1>8. out[c][2].content = w BY <1>6, <1>7 DEF Piece
<1>9. PICK a : a = answer[c] OBVIOUS
<1>10. w = Rewritten(a, taskId[c]) BY <1>5, <1>9 DEF Length
<1>11. Has(a, "result")
  <2>1. CASE Has(a, "result") BY <2>1
  <2>2. CASE ~Has(a, "result") BY <1>8, <1>10, <2>2 DEF Rewritten
  <2> QED BY <2>1, <2>2
<1>12. a \notin {Nothing, [error |-> "invalid"]}
  <2>1. DOMAIN Nothing = {} BY EmptySeq DEF Nothing
  <2>2. ~Has([error |-> "invalid"], "result") BY DEF Has
  <2> QED BY <1>11, <2>1, <2>2 DEF Has
<1>13. Valid(c) /\ IsTaskOf(a, given[c].params.message)
  BY <1>1, <1>4, <1>9, <1>12 DEF ConnInv, Answered
<1>14. PICK artifacts \in {<<>>, <<Artifact>>} :
          a = [result |-> TaskWith(Filed(given[c].params.message), a.result.state, artifacts)]
  BY <1>13 DEF IsTaskOf
<1>15. PICK state, d : /\ state = a.result.state
                       /\ d = DowngradedTask(TaskWith(Filed(given[c].params.message), state, artifacts))
  OBVIOUS
<1>16. d = DowngradedTask(a.result)
  <2>1. PICK t : t = TaskWith(Filed(given[c].params.message), state, artifacts) OBVIOUS
  <2>2. a = [result |-> t] BY <1>14, <1>15, <2>1
  <2>3. a.result = t BY <2>2
  <2> QED BY <1>15, <2>1, <2>3
<1>17. w.result = IF taskId[c] = Absent THEN d ELSE With(d, "id", taskId[c])
  <2>1. PICK x : x = IF taskId[c] = Absent THEN d ELSE With(d, "id", taskId[c]) OBVIOUS
  <2>2. w = With(a, "result", x) BY <1>10, <1>11, <1>16, <2>1 DEF Rewritten
  <2>3. w.result = x BY <2>2 DEF With
  <2> QED BY <2>1, <2>3
<1> QED BY <1>4, <1>8, <1>13, <1>14, <1>15, <1>17

\* The task an old client is answered with is the one it asked for, in its own
\* words, and holds a message that it recognizes, whatever it sent.
THEOREM OldClientsAnswered == Spec => []OldClientsReadTheirOwnWords
<1>1. ASSUME ServerInv, NEW c \in Conn, IsOld(c), Len(out[c]) = 2,
             Has(out[c][2].content, "result"),
             NEW task, task = out[c][2].content.result,
             NEW params, params = request[c].params
      PROVE  /\ Old(task)
             /\ Has(params, "id") => task.id = params.id
             /\ Has(params, "sessionId") /\ ~Has(params.message, "contextId") =>
                   task.sessionId = params.sessionId
             /\ \A i \in DOMAIN task.artifacts :
                   \A j \in DOMAIN task.artifacts[i].parts :
                      Has(task.artifacts[i].parts[j], "type")
             /\ Recognizable(task.history[1], params.message)
  <2>1. legacy[c] /\ Valid(c) BY <1>1, AnsweredTask
  <2>2. PICK state, artifacts, d :
           /\ artifacts \in {<<>>, <<Artifact>>}
           /\ d = DowngradedTask(TaskWith(Filed(given[c].params.message), state, artifacts))
           /\ task = IF taskId[c] = Absent THEN d ELSE With(d, "id", taskId[c])
    BY <1>1, AnsweredTask
  <2>3. PICK msg, filed, h : /\ msg = given[c].params.message /\ filed = Filed(msg)
                             /\ h = DowngradedParts(DowngradedHead(filed))
    OBVIOUS
  <2>4. PICK t : t = TaskWith(filed, state, artifacts) OBVIOUS
  <2>5. /\ Old(d) /\ Has(d, "sessionId") /\ Has(d, "artifacts") /\ Has(d, "history")
        /\ d.sessionId = t.contextId
        /\ DOMAIN d.artifacts = DOMAIN artifacts
        /\ \A i \in DOMAIN artifacts : d.artifacts[i] = DowngradedParts(artifacts[i])
        /\ DOMAIN d.history = {1} /\ d.history[1] = h
    BY <2>2, <2>3, <2>4, TaskFields
  <2>6. /\ Old(task) /\ task.sessionId = d.sessionId
        /\ task.artifacts = d.artifacts /\ task.history = d.history
    <3>1. CASE task = d BY <2>5, <3>1
    <3>2. CASE task = With(d, "id", taskId[c])
      <4>1. /\ DOMAIN task = {"id"} \cup DOMAIN d
            /\ \A f \in DOMAIN d : f # "id" => task[f] = d[f]
        BY <3>2 DEF With
      <4> QED BY <2>5, <4>1 DEF Old, Has
    <3> QED BY <2>2, <3>1, <3>2
  <2>7. /\ Translated(c) /\ request[c] \in Request
    BY <1>1 DEF ServerInv, ConnInv, Shape
  <2>8. Has(params, "id") => task.id = params.id
    <3>1. ASSUME Has(params, "id") PROVE taskId[c] = params.id /\ taskId[c] # Absent
      BY <1>1, <2>1, <2>7, <3>1, RequestAssumption DEF Translated
    <3>2. Has(params, "id") => task = With(d, "id", taskId[c]) BY <2>2, <3>1
    <3>3. With(d, "id", taskId[c]).id = taskId[c] BY DEF With
    <3> QED BY <3>1, <3>2, <3>3
  <2>9. Has(params, "sessionId") /\ ~Has(params.message, "contextId") =>
            task.sessionId = params.sessionId
    <3>1. PICK q : q = Upgraded(params) OBVIOUS
    <3>2. given[c] = [form |-> "object", method |-> "message/send", params |-> q]
      BY <1>1, <2>1, <2>7, <3>1 DEF Translated
    <3>3. msg = q.message BY <2>3, <3>2
    <3>4. Has(params, "sessionId") /\ ~Has(params.message, "contextId") =>
             Has(msg, "contextId") /\ msg.contextId = params.sessionId
      BY <3>1, <3>3, UpgradedMessage
    <3>5. Has(msg, "contextId") => t.contextId = msg.contextId
      <4>1. t.contextId = filed.contextId BY <2>4 DEF TaskWith
      <4>2. Has(msg, "contextId") => filed.contextId = msg.contextId
        BY <2>3, FiledFields DEF Has
      <4> QED BY <4>1, <4>2
    <3> QED BY <2>5, <2>6, <3>4, <3>5
  <2>10. \A i \in DOMAIN task.artifacts :
            \A j \in DOMAIN task.artifacts[i].parts :
               Has(task.artifacts[i].parts[j], "type")
    <3>1. PICK s, ds : s = Artifact /\ ds = DowngradedParts(Artifact) OBVIOUS
    <3>2. \A j \in DOMAIN ds.parts : Has(ds.parts[j], "type") BY <3>1, ArtifactFields
    <3>3. DOMAIN <<>> = {} /\ DOMAIN <<s>> = {1} /\ <<s>>[1] = s BY EmptySeq
    <3>4. \A i \in DOMAIN artifacts : artifacts[i] = s BY <2>2, <3>1, <3>3
    <3>5. \A i \in DOMAIN task.artifacts : task.artifacts[i] = ds
      BY <2>5, <2>6, <3>1, <3>4
    <3> QED BY <3>2, <3>5
  <2>11. Recognizable(task.history[1], params.message)
    <3>1. Recognizable(h, params.message) BY <1>1, <2>1, <2>3, MessageComesBack
    <3>2. task.history[1] = h BY <2>5, <2>6
    <3> QED BY <3>1, <3>2
  <2> QED BY <2>5, <2>6, <2>8, <2>9, <2>10, <2>11
<1>2. ServerInv => OldClientsReadTheirOwnWords BY <1>1 DEF OldClientsReadTheirOwnWords
<1> QED BY <1>2, ServerInvariant, PTL
=============================================================================
