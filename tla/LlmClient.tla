----------------------------- MODULE LlmClient ------------------------------
(***************************************************************************)
(* GeminiClient._generate_parsed (functions/llm/client.py): cache lookup,  *)
(* the retry envelope around the backend call and the post-processor, and  *)
(* the put of a text that passed it. One client, and one cache, serve      *)
(* every coroutine of the process: the callers of this module interleave   *)
(* at the two awaits (the backend call and the back-off sleep) and nowhere *)
(* else.                                                                   *)
(*                                                                         *)
(* Abstractions. A caller makes one call of generate, generate_json or     *)
(* generate_model; which post-processor it uses is its schema, and Accepts *)
(* says which texts a schema takes. A key stands for (model, system, user, *)
(* temperature, max_output_tokens): the schema is not part of it. A        *)
(* failing backend call and a timeout are alike: both raise into the       *)
(* envelope. The cache file is CacheFile's: a read or a write of it may    *)
(* raise (MaxFaults times), a write that raises may spoil a later one, and *)
(* clear_cache.py may truncate it at any time. A back-off delay of base *  *)
(* 2^i is its i.                                                           *)
(***************************************************************************)
EXTENDS Naturals, FiniteSets

CONSTANTS
    Caller,     \* coroutines that call the client
    Key,        \* cache keys
    Schema,     \* post-processors
    Text,       \* what the backend may answer
    Accepts,    \* the pairs <<schema, text>> that post-process without raising
    NoText,     \* no cache record; no answer yet
    Retries,    \* llm.retries: attempts after the first
    MaxFaults   \* bound: reads and writes of the cache file that raise

ASSUME ConstantsAssumption ==
    /\ Accepts \subseteq Schema \X Text
    /\ NoText \notin Text
    /\ Retries \in Nat
    /\ MaxFaults \in Nat

VARIABLES
    cache, kept, torn, readable,  \* the cache file: see CacheFile
    backend,  \* "none": no key and no call_fn; "lazy": a key; "ready": memoised
    pc,       \* where each caller is
    req,      \* what each caller asked for
    attempt,  \* the loop variable
    value,    \* the text a caller's answer was parsed from
    faults,   \* cache failures so far, an unterminated line found at start included
    calls,    \* history: backend calls each caller made
    slept,    \* history: the delays each caller slept
    seen,     \* history: what a caller's lookup found
    lasting,  \* history: who was answered, since the last clear, by a record
              \* that was on a line of its own by then
    before,   \* history: lasting, when a caller's lookup ran
    glued     \* history: puts that returned and whose record was lost at once

File == INSTANCE CacheFile WITH Value <- Text, Absent <- NoText

vars == <<cache, kept, torn, readable, backend, pc, req, attempt, value, faults,
          calls, slept, seen, lasting, before, glued>>

Request == [key : Key, schema : Schema]
Answered == {c \in Caller : pc[c] = "ok"}
\* "ok": returned; "failed": LlmCallError; "raised": the cache's own
\* exception; "cancelled": CancelledError, which no except clause here takes.
Ended == {"ok", "failed", "raised", "cancelled"}

\* The cache may hold answers of earlier processes, under earlier schemas.
Init ==
    /\ File!Init
    /\ backend \in {"none", "lazy", "ready"}
    /\ pc = [c \in Caller |-> "idle"]
    /\ req \in [Caller -> Request]
    /\ attempt = [c \in Caller |-> 0]
    /\ value = [c \in Caller |-> NoText]
    /\ faults = IF torn THEN 1 ELSE 0
    /\ faults <= MaxFaults
    /\ calls = [c \in Caller |-> 0]
    /\ slept = [c \in Caller |-> {}]
    /\ seen = [c \in Caller |-> NoText]
    /\ lasting = {}
    /\ before = [c \in Caller |-> {}]
    /\ glued = 0

----------------------------------------------------------------------------
Fits(c, t) == <<req[c].schema, t>> \in Accepts

\* Mutants: a cached text is not post-processed again; it is never used.
UsableUnread(c) == cache[req[c].key] # NoText
UsableNever(c) == FALSE

\* A cached text is post-processed again by the caller that finds it.
Usable(c) == Fits(c, cache[req[c].key])

\* Mutant: the text is put before it is post-processed.
Unchecked(c, t) == pc[c] = "calling"

\* The backend answered and the text post-processes.
Accepted(c, t) == pc[c] = "calling" /\ Fits(c, t)

\* Mutant: the put is missing.
NotStored(c, t) == File!Untouched

Stored(c, t) == File!Put(req[c].key, t)

\* Mutant: off by one, the loop runs once more than it should.
PastLastAttempt(c) == attempt[c] > Retries

LastAttempt(c) == attempt[c] = Retries

\* Mutant: off by one, the last attempt is never made.
RestedButLast(c) == pc[c] = "sleeping" /\ attempt[c] + 1 < Retries

Rested(c) == pc[c] = "sleeping"

\* The lookup reads the cache once, before the first attempt.
Lookup(c) ==
    /\ pc[c] = "idle"
    /\ readable
    /\ seen' = [seen EXCEPT ![c] = cache[req[c].key]]
    /\ before' = [before EXCEPT ![c] = lasting]
    /\ UNCHANGED glued

\* The caller returns the text t.
Returns(c, t) ==
    /\ pc' = [pc EXCEPT ![c] = "ok"]
    /\ value' = [value EXCEPT ![c] = t]
    /\ lasting' = IF Fits(c, kept'[req[c].key]) THEN lasting \cup {c} ELSE lasting

\* A cached text that still post-processes is the answer.
Hit(c) ==
    /\ Lookup(c)
    /\ Usable(c)
    /\ File!Untouched
    /\ Returns(c, cache[req[c].key])
    /\ UNCHANGED <<backend, req, attempt, faults, calls, slept>>

\* No record, or one the post-processor rejects (schema drift): the call
\* function is resolved and the first attempt goes out, without a suspension.
Miss(c) ==
    /\ Lookup(c)
    /\ ~Usable(c)
    /\ IF backend = "none"
         THEN /\ pc' = [pc EXCEPT ![c] = "failed"]
              /\ UNCHANGED <<backend, calls>>
         ELSE /\ pc' = [pc EXCEPT ![c] = "calling"]
              /\ backend' = "ready"
              /\ calls' = [calls EXCEPT ![c] = @ + 1]
    /\ File!Untouched
    /\ UNCHANGED <<req, attempt, value, faults, slept, lasting>>

Fault ==
    /\ faults < MaxFaults
    /\ faults' = faults + 1

\* cache.get() raises: the file cannot be read this once, or at all.
LookupRaises(c) ==
    /\ pc[c] = "idle"
    /\ Fault \/ (~readable /\ UNCHANGED faults)
    /\ pc' = [pc EXCEPT ![c] = "raised"]
    /\ File!Untouched
    /\ UNCHANGED <<backend, req, attempt, value, calls, slept,
                   seen, lasting, before, glued>>

\* The backend answers with a text that post-processes: put, then return.
Accept(c, t) ==
    /\ Accepted(c, t)
    /\ Stored(c, t)
    /\ Returns(c, t)
    /\ glued' = IF torn THEN glued + 1 ELSE glued
    /\ UNCHANGED <<backend, req, attempt, faults, calls, slept, seen, before>>

\* As Accept, but cache.put() raises, outside the try block.
AcceptRaises(c, t) ==
    /\ Accepted(c, t)
    /\ Fault
    /\ File!PutRaises(req[c].key, t)
    /\ pc' = [pc EXCEPT ![c] = "raised"]
    /\ UNCHANGED <<backend, req, attempt, value, calls, slept,
                   seen, lasting, before, glued>>

\* An attempt fails: the loop sleeps before the next one, or is exhausted.
AttemptFails(c) ==
    /\ pc[c] = "calling"
    /\ IF LastAttempt(c)
         THEN /\ pc' = [pc EXCEPT ![c] = "failed"]
              /\ UNCHANGED slept
         ELSE /\ pc' = [pc EXCEPT ![c] = "sleeping"]
              /\ slept' = [slept EXCEPT ![c] = @ \cup {attempt[c]}]
    /\ File!Untouched
    /\ UNCHANGED <<backend, req, attempt, value, faults, calls,
                   seen, lasting, before, glued>>

\* The answer does not post-process.
Reject(c, t) == ~Fits(c, t) /\ AttemptFails(c)

\* The call raises, or its timeout expires.
CallFails(c) == AttemptFails(c)

Wake(c) ==
    /\ Rested(c)
    /\ pc' = [pc EXCEPT ![c] = "calling"]
    /\ attempt' = [attempt EXCEPT ![c] = @ + 1]
    /\ calls' = [calls EXCEPT ![c] = @ + 1]
    /\ File!Untouched
    /\ UNCHANGED <<backend, req, value, faults, slept, seen, lasting, before, glued>>

\* The task that runs the caller is cancelled at one of its awaits.
Cancel(c) ==
    /\ pc[c] \in {"calling", "sleeping"}
    /\ pc' = [pc EXCEPT ![c] = "cancelled"]
    /\ File!Untouched
    /\ UNCHANGED <<backend, req, attempt, value, faults, calls, slept,
                   seen, lasting, before, glued>>

\* scripts/clear_cache.py, run beside the server, truncates the file.
Clear ==
    /\ File!Clear
    /\ lasting' = {}
    /\ UNCHANGED <<backend, pc, req, attempt, value, faults, calls, slept,
                   seen, before, glued>>

Begin(c) == Hit(c) \/ Miss(c) \/ LookupRaises(c)

Settle(c) ==
    \/ \E t \in Text : Accept(c, t) \/ AcceptRaises(c, t) \/ Reject(c, t)
    \/ CallFails(c)
    \/ Wake(c)

Done == \A c \in Caller : pc[c] \in Ended

Next ==
    \/ \E c \in Caller : Begin(c) \/ Settle(c) \/ Cancel(c)
    \/ Clear
    \/ Done /\ UNCHANGED vars

\* Every backend call is answered, raises, or times out (each call_fn bounds
\* it), and a sleep ends.  Nothing obliges a caller to begin or be cancelled.
Fairness == \A c \in Caller : WF_vars(Settle(c))

Spec == Init /\ [][Next]_vars /\ Fairness

----------------------------------------------------------------------------
(* Properties. *)

TypeOK ==
    /\ cache \in [Key -> Text \cup {NoText}]
    /\ kept \in [Key -> Text \cup {NoText}]
    /\ torn \in BOOLEAN
    /\ readable \in BOOLEAN
    /\ backend \in {"none", "lazy", "ready"}
    /\ pc \in [Caller -> {"idle", "calling", "sleeping"} \cup Ended]
    /\ req \in [Caller -> Request]
    /\ attempt \in [Caller -> 0..Retries]
    /\ value \in [Caller -> Text \cup {NoText}]
    /\ faults \in 0..MaxFaults
    /\ calls \in [Caller -> 0..Retries + 1]
    /\ slept \in [Caller -> SUBSET Nat]
    /\ seen \in [Caller -> Text \cup {NoText}]
    /\ lasting \subseteq Caller
    /\ before \in [Caller -> SUBSET Caller]
    /\ glued \in 0..MaxFaults

\* Schema drift fails loud: whichever path an answer came by, a hit, a first
\* reply or a retry, and whoever cached it, it fits the schema of the caller
\* that gets it.
AnswerFitsSchema == \A c \in Answered : Fits(c, value[c])

\* One retry budget covers transport, JSON and schema failures: a caller that
\* gives up has made exactly Retries + 1 calls and slept each delay before the
\* last attempt and none after it (or there is no backend, and it made no
\* call); no one has made more calls or slept longer; and an answer from the
\* cache cost neither.
RetryBudget ==
    \A c \in Caller :
        /\ calls[c] <= Retries + 1
        /\ slept[c] \subseteq 0..Retries - 1
        /\ calls[c] = 0 => slept[c] = {}
        /\ pc[c] = "failed" =>
              \/ calls[c] = Retries + 1 /\ slept[c] = 0..Retries - 1
              \/ calls[c] = 0 /\ backend = "none"

\* Only accepted answers are cached: whenever get() comes to answer something
\* that is neither what the finished lines hold nor what clear() leaves, it is
\* a text that a caller of that key got from the backend and that fits its
\* schema, and the caller returns it, or the put raised.  A rejected text, a
\* failed attempt or a cancelled call leaves no record.
OnlyAnswersAreCached ==
    [][\A k \in Key :
          cache'[k] \notin {cache[k], kept[k], NoText} =>
             \E c \in Caller :
                /\ pc[c] = "calling"
                /\ req[c].key = k
                /\ Fits(c, cache'[k])
                /\ \/ pc'[c] = "ok" /\ value'[c] = cache'[k]
                   \/ pc'[c] = "raised" /\ faults' > faults]_vars

\* A record on a line of its own is shadowed only by a caller whose own lookup
\* did not find it, or whose schema rejects it: short of clear(), a good
\* record is lost to nothing but a race.
ShadowedOnlyByARace ==
    [][\A k \in Key :
          cache[k] = kept[k] /\ cache'[k] # cache[k] =>
             \/ \A j \in Key : cache'[j] = NoText
             \/ \E c \in Caller :
                   /\ pc[c] # pc'[c]
                   /\ req[c].key = k
                   /\ ~Fits(c, cache[k]) \/ seen[c] # cache[k]]_vars

\* README.md:31 "Second run of the same query issues ... zero LLM calls": a
\* caller that begins after another was answered for the same key and schema
\* makes no backend call, if no caller of another schema shares the key and
\* the other's record stood on a line of its own when it was answered.  That
\* last condition fails for one put at most per write that failed.
OneSchema(c) == \A e \in Caller : req[e].key = req[c].key => req[e] = req[c]
RepeatIsFree ==
    /\ \A c, d \in Caller :
          d \in before[c] /\ req[c] = req[d] /\ OneSchema(c) => calls[c] = 0
    /\ glued + (IF torn THEN 1 ELSE 0) <= faults

\* Every call that has gone out ends: in an answer, an LlmCallError, the
\* cache's own exception or a cancellation.
EveryCallEnds ==
    \A c \in Caller : pc[c] = "calling" ~> pc[c] \in Ended
=============================================================================
