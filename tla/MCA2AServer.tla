----------------------------- MODULE MCA2AServer ------------------------------
(* One connection, whose client posts any of the requests below.  Old ones:   *)
(* complete, without id and session, with a context as well as a session,     *)
(* with parts in both spellings, without any message, with parts that are not *)
(* objects.  New ones: sent, streamed, blank.  And one that is not JSON.      *)
EXTENDS A2AServer

CONSTANT c1

OneConn == {c1}

Post(form, method, params) ==
    [form |-> form, method |-> method, params |-> params]

Typed(t) == [type |-> "text", text |-> t]
Kinded(t) == [kind |-> "text", text |-> t]
Message(parts) == [messageId |-> "m", parts |-> parts]

MCRequest ==
    {Post("object", "tasks/send",
          [id |-> "mine", sessionId |-> "s",
           message |-> [role |-> "user", parts |-> <<Typed("text")>>]]),
     Post("object", "tasks/send",
          [message |-> [parts |-> <<Typed("blank"), Typed("text")>>]]),
     Post("object", "tasks/send",
          [id |-> "mine", sessionId |-> "s",
           message |-> [contextId |-> "x", parts |-> <<Typed("blank")>>]]),
     Post("object", "tasks/send",
          [id |-> "mine", message |-> Message(<<Typed("text"), Kinded("text")>>)]),
     Post("object", "tasks/send", [id |-> "mine"]),
     Post("misnested", "tasks/send", [id |-> "mine"]),
     Post("unindexable", "tasks/send", [id |-> "mine"]),
     Post("object", "message/send", [message |-> Message(<<Kinded("text")>>)]),
     Post("object", "message/send", [message |-> Message(<<Kinded("blank")>>)]),
     Post("object", "message/stream", [message |-> Message(<<Kinded("text")>>)]),
     Post("text", "none", <<>>)}
=============================================================================
