------------------------------- MODULE Search -------------------------------
(***************************************************************************)
(* WebSearcher.search (functions/core/search.py): cache lookup, SerpAPI,   *)
(* then Google CSE, then SearchError. One searcher object and one cache    *)
(* serve every coroutine; a search suspends only while a provider's answer *)
(* is awaited. Storing the answer is inside the provider's try block.      *)
(*                                                                         *)
(* Abstractions. A result list is who gave it and whether it is empty. A   *)
(* provider that answers with another status than 200, with something that *)
(* does not parse, or too late, has failed. A query stands for the whole   *)
(* cache key, which the configured providers are part of. The cache file   *)
(* is CacheFile's: its reads and writes may raise (MaxFaults times), a     *)
(* write that raises may spoil a later one, and clear_cache.py may         *)
(* truncate it.                                                            *)
(***************************************************************************)
EXTENDS Naturals, FiniteSets

CONSTANTS
    Searcher,   \* calls of search
    Query,      \* cache keys
    NoResult,   \* no cache record; no answer yet
    MaxFaults   \* bound: reads and writes of the cache file that raise

Provider == {"serpapi", "cse"}
Result == Provider \X {"found", "empty"}

ASSUME ConstantsAssumption == NoResult \notin Result /\ MaxFaults \in Nat

VARIABLES
    cache, kept, torn, readable,  \* the cache file: see CacheFile
    configured,  \* the providers that have credentials
    pc,          \* where each call is; a provider's name while it is awaited
    query,       \* what each call searches for
    value,       \* what each call returned
    faults,      \* cache failures so far, an unterminated line at start included
    tried,       \* history: the providers each call asked
    wasted,      \* history: those that answered, but whose answer was dropped
    seen,        \* history: what a call's lookup found
    lasting,     \* history: who was answered, since the last clear, by a record
                 \* that was on a line of its own by then
    before,      \* history: lasting, when a call's lookup ran
    glued        \* history: puts that returned and whose record was lost at once

File == INSTANCE CacheFile WITH Key <- Query, Value <- Result, Absent <- NoResult

vars == <<cache, kept, torn, readable, configured, pc, query, value, faults,
          tried, wasted, seen, lasting, before, glued>>

Ended == {"ok", "failed", "raised", "cancelled"}
Answered == {s \in Searcher : pc[s] = "ok"}

Init ==
    /\ File!Init
    /\ configured \in SUBSET Provider
    /\ pc = [s \in Searcher |-> "idle"]
    /\ query \in [Searcher -> Query]
    /\ value = [s \in Searcher |-> NoResult]
    /\ faults = IF torn THEN 1 ELSE 0
    /\ faults <= MaxFaults
    /\ tried = [s \in Searcher |-> {}]
    /\ wasted = [s \in Searcher |-> {}]
    /\ seen = [s \in Searcher |-> NoResult]
    /\ lasting = {}
    /\ before = [s \in Searcher |-> {}]
    /\ glued = 0

----------------------------------------------------------------------------
\* Mutants: the fallback is only for want of a first provider; CSE is first;
\* the search starts over after the last provider.
OnlyFirst(left) ==
    IF "serpapi" \in left THEN "serpapi"
    ELSE IF "cse" \in left /\ configured = left THEN "cse"
    ELSE "failed"
CseFirst(left) ==
    IF "cse" \in left THEN "cse"
    ELSE IF "serpapi" \in left THEN "serpapi"
    ELSE "failed"
StartOver(left) ==
    IF "serpapi" \in left THEN "serpapi"
    ELSE IF "cse" \in left THEN "cse"
    ELSE "idle"

\* Which of the providers that are left is asked, and SearchError after them.
Preferred(left) ==
    IF "serpapi" \in left THEN "serpapi"
    ELSE IF "cse" \in left THEN "cse"
    ELSE "failed"

Consult(s, left) ==
    /\ pc' = [pc EXCEPT ![s] = Preferred(left)]
    /\ tried' = [tried EXCEPT ![s] = @ \cup ({Preferred(left)} \cap Provider)]

Left(s) == configured \ tried[s]

\* Mutant: an empty record is searched for again, as the scraper does.
HasHits(s) == cache[query[s]] \in Provider \X {"found"}

HasRecord(s) == cache[query[s]] # NoResult

Lookup(s) ==
    /\ pc[s] = "idle"
    /\ readable
    /\ seen' = [seen EXCEPT ![s] = cache[query[s]]]
    /\ before' = [before EXCEPT ![s] = lasting]
    /\ UNCHANGED glued

\* The call returns the list r.
Returns(s, r) ==
    /\ pc' = [pc EXCEPT ![s] = "ok"]
    /\ value' = [value EXCEPT ![s] = r]
    /\ lasting' = IF kept'[query[s]] # NoResult THEN lasting \cup {s} ELSE lasting

\* A record, an empty one included, shorts out the providers.
Hit(s) ==
    /\ Lookup(s)
    /\ HasRecord(s)
    /\ File!Untouched
    /\ Returns(s, cache[query[s]])
    /\ UNCHANGED <<configured, query, faults, tried, wasted>>

Miss(s) ==
    /\ Lookup(s)
    /\ ~HasRecord(s)
    /\ Consult(s, configured)
    /\ File!Untouched
    /\ UNCHANGED <<configured, query, value, faults, wasted, lasting>>

Fault ==
    /\ faults < MaxFaults
    /\ faults' = faults + 1

\* cache.get() raises, outside any try block: the file cannot be read this
\* once, or at all.
LookupRaises(s) ==
    /\ pc[s] = "idle"
    /\ Fault \/ (~readable /\ UNCHANGED faults)
    /\ pc' = [pc EXCEPT ![s] = "raised"]
    /\ File!Untouched
    /\ UNCHANGED <<configured, query, value, tried, wasted, seen, lasting, before, glued>>

\* Mutant: the store is missing.
NotStored(s, r) == File!Untouched

Stored(s, r) == File!Put(query[s], r)

\* The awaited provider answers: the list is stored, then returned.
Answers(s, r) ==
    /\ pc[s] = r[1]
    /\ Stored(s, r)
    /\ Returns(s, r)
    /\ glued' = IF torn THEN glued + 1 ELSE glued
    /\ UNCHANGED <<configured, query, faults, tried, wasted, seen, before>>

\* It answers, and cache.put() raises: the except clause takes that for a
\* failure of the provider.
StoreRaises(s, r) ==
    /\ pc[s] = r[1]
    /\ Fault
    /\ File!PutRaises(query[s], r)
    /\ wasted' = [wasted EXCEPT ![s] = @ \cup {pc[s]}]
    /\ Consult(s, Left(s))
    /\ UNCHANGED <<configured, query, value, seen, lasting, before, glued>>

ProviderFails(s) ==
    /\ pc[s] \in Provider
    /\ Consult(s, Left(s))
    /\ File!Untouched
    /\ UNCHANGED <<configured, query, value, faults, wasted, seen, lasting, before, glued>>

\* The awaiting task is cancelled; CancelledError is no Exception.
Cancel(s) ==
    /\ pc[s] \in Provider
    /\ pc' = [pc EXCEPT ![s] = "cancelled"]
    /\ File!Untouched
    /\ UNCHANGED <<configured, query, value, faults, tried, wasted, seen,
                   lasting, before, glued>>

\* scripts/clear_cache.py, run beside the server, truncates the file.
Clear ==
    /\ File!Clear
    /\ lasting' = {}
    /\ UNCHANGED <<configured, pc, query, value, faults, tried, wasted, seen,
                   before, glued>>

Begin(s) == Hit(s) \/ Miss(s) \/ LookupRaises(s)

Settle(s) ==
    \/ \E r \in Result : Answers(s, r) \/ StoreRaises(s, r)
    \/ ProviderFails(s)

Done == \A s \in Searcher : pc[s] \in Ended

Next ==
    \/ \E s \in Searcher : Begin(s) \/ Settle(s) \/ Cancel(s)
    \/ Clear
    \/ Done /\ UNCHANGED vars

\* A provider call answers or fails.  httpx bounds each read and not the whole
\* call; the two peers are fixed JSON APIs, taken to finish their responses.
Fairness == \A s \in Searcher : WF_vars(Settle(s))

Spec == Init /\ [][Next]_vars /\ Fairness

----------------------------------------------------------------------------
(* Properties. *)

TypeOK ==
    /\ cache \in [Query -> Result \cup {NoResult}]
    /\ kept \in [Query -> Result \cup {NoResult}]
    /\ torn \in BOOLEAN
    /\ readable \in BOOLEAN
    /\ configured \subseteq Provider
    /\ pc \in [Searcher -> {"idle"} \cup Provider \cup Ended]
    /\ query \in [Searcher -> Query]
    /\ value \in [Searcher -> Result \cup {NoResult}]
    /\ faults \in 0..MaxFaults
    /\ tried \in [Searcher -> SUBSET Provider]
    /\ wasted \in [Searcher -> SUBSET Provider]
    /\ seen \in [Searcher -> Result \cup {NoResult}]
    /\ lasting \subseteq Searcher
    /\ before \in [Searcher -> SUBSET Searcher]
    /\ glued \in 0..MaxFaults

\* SearchError comes last: a call that ends in it has asked every configured
\* provider, and each of them failed but for those, one per failure of the
\* cache at most, whose answer could not be stored.
FailureIsExhaustive ==
    \A s \in Searcher :
        pc[s] = "failed" => tried[s] = configured /\ Cardinality(wasted[s]) <= faults

\* README.md:54 "SerpAPI primary, Google CSE fallback on error/quota": a call
\* that returns what CSE told it had no SerpAPI to ask, or SerpAPI failed (or
\* its answer could not be stored); what it returns otherwise is the record
\* its lookup found.
AnswerHasASource ==
    \A s \in Answered :
        \/ tried[s] = {} /\ value[s] = seen[s]
        \/ seen[s] = NoResult /\ value[s][1] = "serpapi" /\ tried[s] = {"serpapi"}
        \/ seen[s] = NoResult /\ value[s][1] = "cse" /\ tried[s] = configured

\* README.md:31 "Second run of the same query issues zero HTTP": a search that
\* begins after one for the same query was answered asks no provider, also if
\* that answer was empty, if the other's record stood on a line of its own when
\* it was answered.  That condition fails for one put at most per write that
\* failed.
RepeatIsFree ==
    /\ \A s, d \in Searcher : d \in before[s] /\ query[d] = query[s] => tried[s] = {}
    /\ glued + (IF torn THEN 1 ELSE 0) <= faults

\* A query whose record stands on a line of its own, and that no call is past
\* looking up, is settled: nothing but clear() changes its record, so that an
\* empty answer, too, stays.
Settled(q) ==
    /\ cache[q] = kept[q]
    /\ cache[q] # NoResult
    /\ \A s \in Searcher : query[s] = q => pc[s] \notin Provider

SettledForGood ==
    [][\A q \in Query :
          Settled(q) =>
             \/ Settled(q)' /\ cache'[q] = cache[q]
             \/ \A p \in Query : cache'[p] = NoResult]_vars

\* A call whose lookup missed does end, in an answer or in SearchError.
EverySearchEnds == \A s \in Searcher : pc[s] \in Provider ~> pc[s] \in Ended
=============================================================================
