------------------------------ MODULE Scraper -------------------------------
(***************************************************************************)
(* WebScraper (functions/core/scraping.py). Each scrape_many call (a       *)
(* batch) opens its own HTTP client and its own semaphore and gathers one  *)
(* task per URL; all batches of the process share one cache. A task looks  *)
(* its URL up (no suspension), waits for a permit, awaits the response,    *)
(* and stores what it made of it.                                          *)
(*                                                                         *)
(* Abstractions. A page is what the code branches on: "content" (status    *)
(* 200 and text), "empty" (status 200, the extractor returned nothing),    *)
(* "http" (another status), "neterr" (status 0) or "extract" (the          *)
(* extractor raised). The cache file is CacheFile's: its reads and writes  *)
(* may raise (MaxFaults times), which is the only way an exception leaves  *)
(* a task; a write that raises may spoil a later one, and clear_cache.py   *)
(* may truncate the file. With the cache disabled, nothing is shared and   *)
(* every lookup misses; that configuration is not modelled.                *)
(***************************************************************************)
EXTENDS Integers, FiniteSets

CONSTANTS
    Batch,        \* scrape_many calls
    Slot,         \* positions in a batch's list of URLs
    Url,
    NoPage,       \* no cache record; no result yet
    Concurrency,  \* permits of a batch's semaphore
    MaxFaults     \* bound: reads and writes of the cache file that raise

CachedPage == {"content", "empty", "http", "neterr"}
Page == CachedPage \cup {"extract"}

ASSUME ConstantsAssumption ==
    /\ NoPage \notin Page
    /\ IsFiniteSet(Slot)
    /\ Concurrency \in Nat \ {0}
    /\ MaxFaults \in Nat

Job == Batch \X Slot

VARIABLES
    cache, kept, torn, readable,  \* the cache file: see CacheFile
    batch,    \* the state of each scrape_many call
    url,      \* the URL of each job
    job,      \* where each _scrape_one task is
    page,     \* what each task returned
    permits,  \* the counter of each batch's semaphore
    faults,   \* cache failures so far, an unterminated line at start included
    seen      \* history: what a task's lookup found that it could not serve

File == INSTANCE CacheFile WITH Key <- Url, Value <- CachedPage, Absent <- NoPage

vars == <<cache, kept, torn, readable, batch, url, job, page, permits, faults, seen>>

\* "fetching": the request went out on an open client; "refused": the client
\* was already closed, so that client.get can only raise.
InFlight == {"fetching", "refused"}
Unfinished == {"new", "waiting"} \cup InFlight

Init ==
    /\ File!Init
    /\ batch = [b \in Batch |-> "idle"]
    /\ url \in [Job -> Url]
    /\ job = [j \in Job |-> "new"]
    /\ page = [j \in Job |-> NoPage]
    /\ permits = [b \in Batch |-> Concurrency]
    /\ faults = IF torn THEN 1 ELSE 0
    /\ faults <= MaxFaults
    /\ seen = [j \in Job |-> NoPage]

\* Mutant: every record without content is refetched.
ZombieOrFailed(p) == p # "content"

Zombie(p) == p = "empty"
Jobs(b) == {j \in Job : j[1] = b}

----------------------------------------------------------------------------
(* scrape_many. *)

Start(b) ==
    /\ batch[b] = "idle"
    /\ batch' = [batch EXCEPT ![b] = "open"]
    /\ File!Untouched
    /\ UNCHANGED <<url, job, page, permits, faults, seen>>

\* Mutant: the first result is enough.
GatheredSome(b) == \E j \in Jobs(b) : job[j] = "done"

Gathered(b) == \A j \in Jobs(b) : job[j] = "done"

\* gather has every result; leaving the async-with block closes the client.
Return(b) ==
    /\ batch[b] = "open"
    /\ Gathered(b)
    /\ batch' = [batch EXCEPT ![b] = "returned"]
    /\ File!Untouched
    /\ UNCHANGED <<url, job, page, permits, faults, seen>>

\* gather has raised and the awaiting task has its turn: __aexit__ closes the
\* client, first of all.  (A cancellation that comes in between changes only
\* which exception the caller sees: gather is done and cancels no child.)
Leave(b) ==
    /\ batch[b] = "leaving"
    /\ batch' = [batch EXCEPT ![b] = "raised"]
    /\ File!Untouched
    /\ UNCHANGED <<url, job, page, permits, faults, seen>>

\* Mutant: only the tasks that have no request out are cancelled.
CancelledIdle(b) == {j \in Jobs(b) : job[j] \in {"new", "waiting"}}

Cancelled(b) == {j \in Jobs(b) : job[j] \in Unfinished}

\* The awaiting task is cancelled: gather cancels every child that has not
\* finished, and each child leaves its semaphore.
Cancel(b) ==
    /\ batch[b] = "open"
    /\ batch' = [batch EXCEPT ![b] = "cancelled"]
    /\ job' = [j \in Job |-> IF j \in Cancelled(b) THEN "cancelled" ELSE job[j]]
    /\ permits' = [permits EXCEPT ![b] = Concurrency]
    /\ File!Untouched
    /\ UNCHANGED <<url, page, faults, seen>>

Fault ==
    /\ faults < MaxFaults
    /\ faults' = faults + 1

\* An exception leaves task j.  gather (return_exceptions=False) raises at
\* once and the siblings keep running, for now with the client still open; a
\* second exception of the same batch is only logged by asyncio.
Escape(j) ==
    /\ job' = [job EXCEPT ![j] = "escaped"]
    /\ batch' = [batch EXCEPT ![j[1]] = IF @ = "open" THEN "leaving" ELSE @]
    /\ UNCHANGED <<url, page>>

----------------------------------------------------------------------------
(* _scrape_one. *)

Fresh(j) == job[j] = "new" /\ batch[j[1]] # "idle"

Lookup(j) ==
    /\ Fresh(j)
    /\ readable
    /\ File!Untouched

\* A record that is not a zombie is the result.
LookupHit(j) ==
    /\ Lookup(j)
    /\ cache[url[j]] # NoPage
    /\ ~Zombie(cache[url[j]])
    /\ page' = [page EXCEPT ![j] = cache[url[j]]]
    /\ job' = [job EXCEPT ![j] = "done"]
    /\ UNCHANGED <<batch, url, permits, faults, seen>>

\* No record, or a zombie: the task goes on to the semaphore.
LookupMiss(j) ==
    /\ Lookup(j)
    /\ cache[url[j]] = NoPage \/ Zombie(cache[url[j]])
    /\ seen' = [seen EXCEPT ![j] = cache[url[j]]]
    /\ job' = [job EXCEPT ![j] = "waiting"]
    /\ UNCHANGED <<batch, url, page, permits, faults>>

\* cache.get() raises: the file cannot be read this once, or at all.
LookupRaises(j) ==
    /\ Fresh(j)
    /\ Fault \/ (~readable /\ UNCHANGED faults)
    /\ Escape(j)
    /\ File!Untouched
    /\ UNCHANGED <<permits, seen>>

Admitted(j) == job[j] = "waiting" /\ permits[j[1]] > 0

\* A permit is free: client.get is called.
Acquire(j) ==
    /\ Admitted(j)
    /\ permits' = [permits EXCEPT ![j[1]] = @ - 1]
    /\ job' = [job EXCEPT ![j] = IF batch[j[1]] \in {"open", "leaving"}
                               THEN "fetching" ELSE "refused"]
    /\ File!Untouched
    /\ UNCHANGED <<batch, url, page, faults, seen>>

\* What client.get and the extractor can come to.
Outcome(j, p) ==
    \/ job[j] = "fetching" /\ p \in Page
    \/ job[j] = "refused" /\ p = "neterr"

\* Mutant: the permit is kept.
Keep(j) == UNCHANGED permits

Release(j) == permits' = [permits EXCEPT ![j[1]] = @ + 1]

Storable(p) == p # "extract"

\* Everything but an extraction failure is stored, then returned.
Finish(j, p) ==
    /\ Outcome(j, p)
    /\ Release(j)
    /\ IF Storable(p) THEN File!Put(url[j], p) ELSE File!Untouched
    /\ page' = [page EXCEPT ![j] = p]
    /\ job' = [job EXCEPT ![j] = "done"]
    /\ UNCHANGED <<batch, url, faults, seen>>

\* cache.put() raises.
StoreRaises(j, p) ==
    /\ Outcome(j, p)
    /\ Storable(p)
    /\ Release(j)
    /\ Fault
    /\ File!PutRaises(url[j], p)
    /\ Escape(j)
    /\ UNCHANGED seen

\* Mutant: a network error is tried again, without end.
RetryingRespond(j) ==
    \/ /\ Outcome(j, "neterr")
       /\ Release(j)
       /\ job' = [job EXCEPT ![j] = "waiting"]
       /\ File!Untouched
       /\ UNCHANGED <<batch, url, page, faults, seen>>
    \/ \E p \in Page \ {"neterr"} : Finish(j, p) \/ StoreRaises(j, p)

Respond(j) == \E p \in Page : Finish(j, p) \/ StoreRaises(j, p)

Run(j) ==
    \/ LookupHit(j) \/ LookupMiss(j) \/ LookupRaises(j)
    \/ Acquire(j)
    \/ Respond(j)

\* scripts/clear_cache.py, run beside the server, truncates the file.
Clear ==
    /\ File!Clear
    /\ UNCHANGED <<batch, url, job, page, permits, faults, seen>>

Done ==
    /\ \A b \in Batch : batch[b] \notin {"idle", "open", "leaving"}
    /\ \A j \in Job : job[j] \notin Unfinished

Next ==
    \/ \E b \in Batch : Start(b) \/ Return(b) \/ Leave(b) \/ Cancel(b)
    \/ \E j \in Job : Run(j)
    \/ Clear
    \/ Done /\ UNCHANGED vars

\* The event loop runs every task that can go on.  Nothing promises that a
\* request ends: the client's timeout is for each connect and each read, so a
\* server that keeps sending now and then holds client.get for ever.
Fairness ==
    /\ \A b \in Batch : WF_vars(Return(b)) /\ WF_vars(Leave(b))
    /\ \A j \in Job : WF_vars(job[j] # "fetching" /\ Run(j))

Spec == Init /\ [][Next]_vars /\ Fairness

----------------------------------------------------------------------------
(* Properties. *)

TypeOK ==
    /\ cache \in [Url -> CachedPage \cup {NoPage}]
    /\ kept \in [Url -> CachedPage \cup {NoPage}]
    /\ torn \in BOOLEAN
    /\ readable \in BOOLEAN
    /\ batch \in [Batch -> {"idle", "open", "returned", "leaving", "raised", "cancelled"}]
    /\ url \in [Job -> Url]
    /\ job \in [Job -> Unfinished \cup {"done", "escaped", "cancelled"}]
    /\ page \in [Job -> Page \cup {NoPage}]
    /\ permits \in [Batch -> 0..Concurrency]
    /\ faults \in 0..MaxFaults
    /\ seen \in [Job -> CachedPage \cup {NoPage}]

Requests(b) == {j \in Jobs(b) : job[j] \in InFlight}

\* No permit is lost or forged on any path (a network error, a store that
\* raises inside the semaphore, a cancellation), so a batch never has more
\* than Concurrency requests out, and its semaphore never starves the rest.
PermitsConserved ==
    \A b \in Batch :
        permits[b] + Cardinality(Requests(b)) = Concurrency

\* What clear() leaves is no record of any URL.
Cleared == \A u \in Url : cache'[u] = NoPage

\* A URL whose record stands on a line of its own and is not a zombie, and that
\* no task is past looking up, is settled: whatever runs afterwards short of
\* clear(), it is served from that record and never fetched or rewritten, a
\* pinned failure no less than a good page.
Served(u) == cache[u] = kept[u] /\ cache[u] \notin {NoPage, "empty"}

Settled(u) ==
    /\ Served(u)
    /\ \A j \in Job : url[j] = u => job[j] \notin {"waiting"} \cup InFlight

SettledForGood ==
    [][\A u \in Url :
          Settled(u) => (Settled(u)' /\ cache'[u] = cache[u]) \/ Cleared]_vars

\* A record that would be served is replaced only by a task that looked the
\* URL up before the record was there, or cleared with the whole file.
OnlyARaceShadows ==
    [][\A u \in Url :
          Served(u) /\ cache'[u] # cache[u] =>
             \/ Cleared
             \/ \E j \in Job :
                   /\ url[j] = u
                   /\ job[j] \in InFlight /\ job'[j] \notin InFlight
                   /\ seen[j] # cache[u]]_vars

\* A request is out only under a call that is still waiting for it, or one
\* that an exception leaves or has left: returning or being cancelled leaves
\* no orphan.  (An exception does: gather does not cancel the other tasks.)
OrphansOnlyAfterRaise ==
    \A j \in Job :
        job[j] \in {"waiting"} \cup InFlight => batch[j[1]] \in {"open", "leaving", "raised"}

\* A call returns only with a page for every URL, and raises only if a task
\* failed to use the cache.
ReturnMeansAllPages ==
    \A b \in Batch :
        /\ batch[b] = "returned" =>
              \A j \in Jobs(b) : job[j] = "done" /\ page[j] # NoPage
        /\ batch[b] \in {"leaving", "raised"} => \E j \in Jobs(b) : job[j] = "escaped"

\* A call none of whose requests is held for ever ends, and so does every task
\* it started, orphans included: permits and closed clients hold nobody.
EverythingEnds ==
    \A b \in Batch :
        (\A j \in Jobs(b) : []<>(job[j] # "fetching")) =>
            /\ batch[b] \in {"open", "leaving"} ~> batch[b] \notin {"open", "leaving"}
            /\ \A j \in Jobs(b) : job[j] = "waiting" ~> job[j] \notin Unfinished
=============================================================================
