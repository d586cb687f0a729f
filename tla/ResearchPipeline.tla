-------------------------- MODULE ResearchPipeline --------------------------
(***************************************************************************)
(* ResearchPipeline.run (functions/core/research_pipeline.py) with the     *)
(* stages it drives: search, ResultSelector.select, scrape_many,           *)
(* PageValidator.validate and Summarizer.summarize. A server runs many     *)
(* requests at once over one set of caches.                                *)
(*                                                                         *)
(* Every stage makes cached calls: one (search, selection, summary) or one *)
(* per chosen result, gathered (scraping, judging). A call looks its key   *)
(* up without a suspension; on a miss it goes out, and what comes back is  *)
(* stored or not. What happens inside one call (retries, fallback          *)
(* provider, permits) is the subject of LlmClient, Search and Scraper;     *)
(* here a call comes to one outcome. The records of the three cache files  *)
(* are one map, since their keys differ; each file takes puts as CacheFile *)
(* says, and none is cleared. A chain of hits is several steps here where  *)
(* the code does not suspend. Titles, snippets and scores are left out: a  *)
(* result is its URL, a judgement is whether the page is kept, and a       *)
(* summary is known by the pages it was made from. A page with no text is  *)
(* "failed" (cached), "empty" (cached, never served) or "extract" (not     *)
(* cached).                                                                *)
(***************************************************************************)
EXTENDS Integers, FiniteSets, SequencesExt

CONSTANTS
    Run,        \* calls of run
    Query,
    Url,
    Text,       \* what the extractor may return for a page
    Listing,    \* what a search may return: sequences of URLs
    Reply,      \* what the model may pick: positions, counted from 1
    Error,      \* SearchError, or LlmCallError after every retry
    None,       \* no answer yet
    TopK,       \* search.top_k_to_scrape
    MaxFaults   \* bound: reads and writes of a cache file that raise

ASSUME ConstantsAssumption ==
    /\ Listing \subseteq Seq(Url)
    /\ Reply \subseteq Seq(Int)
    /\ TopK \in Nat
    /\ MaxFaults \in Nat
    /\ Text \cap {"failed", "empty", "extract"} = {}
    /\ Error \notin Listing /\ Error \notin Reply
    /\ Error \notin {"keep", "drop", "summary"}

VARIABLES
    memo,     \* the caches: a function from the keys that have a record
    safe,     \* the same, from newline-terminated lines alone
    torn,     \* the files whose last line lacks its newline
    garbled,  \* the files that are not UTF-8 any more: every get() raises
    status,   \* what became of each run
    stage,    \* the stage each run is at, or where it stopped
    query,    \* what each run is asked
    call,     \* the calls of that stage: not begun, out, answered or lost
    answer,   \* what they were answered
    plan,     \* the results of the stages before it
    faults,   \* cache failures so far
    paid,     \* history: some call of the run went out
    clean,    \* history: no call of the run failed or found an empty page, and
              \* all its answers were on lines of their own when it had them
    alone,    \* history: no other run was active during this one
    before    \* history: the runs that were done when this one began

files == <<memo, safe, torn, garbled>>

vars == <<memo, safe, torn, garbled, status, stage, query, call, answer, plan, faults,
          paid, clean, alone, before>>

NoPlan == [found |-> <<>>, chosen |-> <<>>, page |-> <<>>, kept |-> <<>>]

Init ==
    /\ memo = <<>>
    /\ safe = <<>>
    /\ torn = {}
    /\ garbled = {}
    /\ status = [r \in Run |-> "idle"]
    /\ stage = [r \in Run |-> "search"]
    /\ query \in [Run -> Query]
    /\ call = [r \in Run |-> <<"new">>]
    /\ answer = [r \in Run |-> <<None>>]
    /\ plan = [r \in Run |-> NoPlan]
    /\ faults = 0
    /\ paid = [r \in Run |-> FALSE]
    /\ clean = [r \in Run |-> TRUE]
    /\ alone = [r \in Run |-> TRUE]
    /\ before = [r \in Run |-> {}]

----------------------------------------------------------------------------
(* Selection and validation, as functions of what they are given. *)

Smaller(m, n) == IF m < n THEN m ELSE n

\* Mutants: a pick may repeat; position 0 counts as in range.
Repeated(reply, n) == SelectSeq(reply, LAMBDA i : i \in 1..n)
FromZero(reply, n) == SelectSeq(reply, LAMBDA i : i \in 0..n)

\* _materialize: the picks in range, first occurrences only, in order.
Materialized(reply, n) ==
    LET picked[k \in 0..Len(reply)] ==
            IF k = 0 THEN <<>>
            ELSE IF reply[k] \in 1..n \ ToSet(picked[k - 1])
                   THEN Append(picked[k - 1], reply[k]) ELSE picked[k - 1]
    IN  picked[Len(reply)]

Leading(n) == [i \in 1..Smaller(TopK, n) |-> i]

\* select: LlmCallError, or no valid pick, falls back to the first TopK.
Chosen(reply, n) ==
    IF reply = Error THEN Leading(n)
    ELSE LET picks == Materialized(reply, n)
         IN  IF picks = <<>> THEN Leading(n) ELSE SubSeq(picks, 1, Smaller(TopK, Len(picks)))

UrlAt(r, i) == plan[r].found[plan[r].chosen[i]]

HasText(p) == p \in Text

\* validate: the pages judged "keep", in the order they were chosen.
KeptOf(found, chosen, page, verdicts) ==
    LET kept[k \in 0..Len(page)] ==
            IF k = 0 THEN <<>>
            ELSE IF verdicts[k] = "keep"
                   THEN Append(kept[k - 1], <<found[chosen[k]], page[k]>>) ELSE kept[k - 1]
    IN  kept[Len(page)]

----------------------------------------------------------------------------
(* The cache files, for as much of a put as reaches the disk: see CacheFile. *)

FileOf(key) == IF key[1] \in {"search", "scrape"} THEN key[1] ELSE "llm"

Recorded(m, key, a) == [k \in DOMAIN m \cup {key} |-> IF k = key THEN a ELSE m[k]]

\* The records of m for the keys of file f, those of memo for the rest.
Reread(f, m) ==
    [k \in {k \in DOMAIN memo : FileOf(k) # f} \cup {k \in DOMAIN m : FileOf(k) = f} |->
        IF FileOf(k) = f THEN m[k] ELSE memo[k]]

Put(key, a) ==
    /\ safe' = IF FileOf(key) \in torn THEN safe ELSE Recorded(safe, key, a)
    /\ memo' = Reread(FileOf(key), safe')
    /\ torn' = torn \ {FileOf(key)}
    /\ UNCHANGED garbled

TornPut(key, a) ==
    /\ memo' \in IF FileOf(key) \in torn THEN {Reread(FileOf(key), safe)}
                 ELSE {memo, Recorded(memo, key, a)}
    /\ torn' = torn \cup {FileOf(key)}
    /\ garbled' \in {garbled, garbled \cup {FileOf(key)}}
    /\ UNCHANGED safe

PutRaises(key, a) == UNCHANGED files \/ TornPut(key, a) \/ Put(key, a)

----------------------------------------------------------------------------
(* One cached call. *)

Key(r, i) ==
    CASE stage[r] = "search"    -> <<"search", query[r]>>
      [] stage[r] = "select"    -> <<"select", query[r], plan[r].found>>
      [] stage[r] = "scrape"    -> <<"scrape", UrlAt(r, i)>>
      [] stage[r] = "judge"     -> <<"judge", query[r], plan[r].page[i]>>
      [] stage[r] = "summarize" -> <<"summarize", query[r], plan[r].kept>>

Outcome(s) ==
    CASE s = "search"    -> Listing \cup {Error}
      [] s = "select"    -> Reply \cup {Error}
      [] s = "scrape"    -> Text \cup {"failed", "empty", "extract"}
      [] s = "judge"     -> {"keep", "drop", Error}
      [] s = "summarize" -> {"summary", Error}

\* Mutant: a failed page is not stored.
StorableUnlessFailed(s, a) ==
    IF s = "scrape" THEN a \notin {"extract", "failed"} ELSE a # Error

Storable(s, a) == IF s = "scrape" THEN a # "extract" ELSE a # Error

\* A record is served unless it is the empty page of an earlier extraction.
Served(r, i) ==
    /\ Key(r, i) \in DOMAIN memo
    /\ stage[r] = "scrape" => memo[Key(r, i)] # "empty"

Flawless(s, a) == IF s = "scrape" THEN a \notin {"empty", "extract"} ELSE a # Error

\* Mutant: nobody takes an LlmCallError for an answer.
FatalAnywhere(s, a) == a = Error

\* SearchError and the summariser's LlmCallError leave run(); select and
\* _judge_one take the LlmCallError of theirs for an answer.
Fatal(s, a) == s \in {"search", "summarize"} /\ a = Error

Settles(r, i, a) ==
    /\ call' = [call EXCEPT ![r][i] = "in"]
    /\ answer' = [answer EXCEPT ![r][i] = a]

Lookup(r, i) ==
    /\ status[r] # "idle"
    /\ call[r][i] = "new"
    /\ FileOf(Key(r, i)) \notin garbled
    /\ UNCHANGED files

\* key's record is on a line of its own and is a.
Lined(key, a) == key \in DOMAIN safe /\ safe[key] = a

Hit(r, i) ==
    /\ Lookup(r, i)
    /\ Served(r, i)
    /\ Settles(r, i, memo[Key(r, i)])
    /\ clean' = [clean EXCEPT ![r] = @ /\ Lined(Key(r, i), memo[Key(r, i)])]
    /\ UNCHANGED <<status, stage, query, plan, faults, paid, alone, before>>

Miss(r, i) ==
    /\ Lookup(r, i)
    /\ ~Served(r, i)
    /\ call' = [call EXCEPT ![r][i] = "out"]
    /\ paid' = [paid EXCEPT ![r] = TRUE]
    /\ UNCHANGED <<status, stage, query, answer, plan, faults, clean, alone, before>>

\* What went out comes back, also to a run that has raised meanwhile.
Answered(r, i, a) ==
    /\ call[r][i] = "out"
    /\ a \in Outcome(stage[r])
    /\ IF Storable(stage[r], a) THEN Put(Key(r, i), a) ELSE UNCHANGED files
    /\ Settles(r, i, a)
    /\ status' = IF Fatal(stage[r], a) THEN [status EXCEPT ![r] = "raised"] ELSE status
    /\ clean' = [clean EXCEPT ![r] = @ /\ Flawless(stage[r], a) /\ FileOf(Key(r, i)) \notin torn]
    /\ UNCHANGED <<stage, query, plan, faults, paid, alone, before>>

Fault ==
    /\ faults < MaxFaults
    /\ faults' = faults + 1

\* An exception of the cache leaves the call and run(); gather raises at once
\* and the siblings go on.
Lose(r, i) ==
    /\ call' = [call EXCEPT ![r][i] = "lost"]
    /\ status' = [status EXCEPT ![r] = "raised"]

\* cache.get() raises: the file cannot be read this once, or at all.
LookupRaises(r, i) ==
    /\ status[r] # "idle"
    /\ call[r][i] = "new"
    /\ Fault \/ (FileOf(Key(r, i)) \in garbled /\ UNCHANGED faults)
    /\ Lose(r, i)
    /\ UNCHANGED <<files, stage, query, answer, plan, paid, clean, alone, before>>

\* cache.put() raises.  To a search it is one more provider that failed, after
\* which it may ask the next.
StoreRaises(r, i, a) ==
    /\ call[r][i] = "out"
    /\ a \in Outcome(stage[r])
    /\ Storable(stage[r], a)
    /\ Fault
    /\ PutRaises(Key(r, i), a)
    /\ IF stage[r] = "search" THEN UNCHANGED <<call, status>> ELSE Lose(r, i)
    /\ UNCHANGED <<stage, query, answer, plan, paid, clean, alone, before>>

----------------------------------------------------------------------------
(* The stages of a run. *)

\* Mutant: a call that is out is forgotten.
NotBegun(r) == {i \in DOMAIN call[r] : call[r][i] = "new"}

Unsettled(r) == {i \in DOMAIN call[r] : call[r][i] \in {"new", "out"}}
Active(r) == status[r] # "idle" /\ (status[r] = "running" \/ Unsettled(r) # {})

Start(r) ==
    /\ status[r] = "idle"
    /\ status' = [status EXCEPT ![r] = "running"]
    /\ alone' = [o \in Run |-> IF o = r THEN \A e \in Run \ {r} : ~Active(e)
                               ELSE alone[o] /\ ~Active(o)]
    /\ before' = [before EXCEPT ![r] = {d \in Run : status[d] = "done"}]
    /\ UNCHANGED <<files, stage, query, call, answer, plan, faults, paid, clean>>

\* Mutant: a failed call is waited for.
ThroughUnfailed(r, s) ==
    /\ status[r] = "running"
    /\ stage[r] = s
    /\ \A i \in DOMAIN call[r] : call[r][i] = "in" /\ answer[r][i] # Error
    /\ UNCHANGED <<files, query, faults, paid, clean, alone, before>>

\* Every call of stage s has been answered.
Through(r, s) ==
    /\ status[r] = "running"
    /\ stage[r] = s
    /\ \A i \in DOMAIN call[r] : call[r][i] = "in"
    /\ UNCHANGED <<files, query, faults, paid, clean, alone, before>>

\* The next stage begins with one call per element of slots.
Proceed(r, s, slots) ==
    /\ stage' = [stage EXCEPT ![r] = s]
    /\ call' = [call EXCEPT ![r] = [i \in slots |-> "new"]]
    /\ answer' = [answer EXCEPT ![r] = [i \in slots |-> None]]
    /\ UNCHANGED status

Finish(r) ==
    /\ status' = [status EXCEPT ![r] = "done"]
    /\ UNCHANGED <<stage, call, answer>>

\* No results, or none wanted: the placeholder summary, without the model.
Searched(r) ==
    /\ Through(r, "search")
    /\ plan' = [plan EXCEPT ![r].found = answer[r][1]]
    /\ IF answer[r][1] = <<>> \/ TopK = 0 THEN Finish(r) ELSE Proceed(r, "select", {1})

Selected(r) ==
    /\ Through(r, "select")
    /\ LET chosen == Chosen(answer[r][1], Len(plan[r].found))
       IN  /\ plan' = [plan EXCEPT ![r].chosen = chosen]
           /\ Proceed(r, "scrape", DOMAIN chosen)

Judged(r) == {i \in DOMAIN answer[r] : HasText(answer[r][i])}

\* A page without text is dropped, without the model.
Scraped(r) ==
    /\ Through(r, "scrape")
    /\ plan' = [plan EXCEPT ![r].page = answer[r]]
    /\ stage' = [stage EXCEPT ![r] = "judge"]
    /\ call' = [call EXCEPT ![r] = [i \in DOMAIN @ |-> IF i \in Judged(r) THEN "new" ELSE "in"]]
    /\ answer' = [answer EXCEPT ![r] =
                     [i \in DOMAIN @ |-> IF i \in Judged(r) THEN None ELSE "drop"]]
    /\ UNCHANGED status

\* No page kept: the placeholder summary again.
Validated(r) ==
    /\ Through(r, "judge")
    /\ LET kept == KeptOf(plan[r].found, plan[r].chosen, plan[r].page, answer[r])
       IN  /\ plan' = [plan EXCEPT ![r].kept = kept]
           /\ IF kept = <<>> THEN Finish(r) ELSE Proceed(r, "summarize", {1})

Summarized(r) ==
    /\ Through(r, "summarize")
    /\ Finish(r)
    /\ UNCHANGED plan

\* The task that awaits run() is cancelled, and with it what it awaits.
Cancel(r) ==
    /\ status[r] = "running"
    /\ status' = [status EXCEPT ![r] = "cancelled"]
    /\ call' = [call EXCEPT ![r] =
                   [i \in DOMAIN @ |-> IF i \in Unsettled(r) THEN "lost" ELSE @[i]]]
    /\ UNCHANGED <<files, stage, query, answer, plan, faults, paid, clean, alone, before>>

Calls(r) ==
    \E i \in DOMAIN call[r] :
        \/ Hit(r, i) \/ Miss(r, i) \/ LookupRaises(r, i)
        \/ \E a \in Outcome(stage[r]) : Answered(r, i, a) \/ StoreRaises(r, i, a)

Advance(r) == Searched(r) \/ Selected(r) \/ Scraped(r) \/ Validated(r) \/ Summarized(r)

Quiet == \A r \in Run : status[r] # "idle" /\ ~Active(r)

Next ==
    \/ \E r \in Run : Start(r) \/ Calls(r) \/ Advance(r) \/ Cancel(r)
    \/ Quiet /\ UNCHANGED vars

\* A page is being fetched, for which there is no bound (Scraper!Fairness).
Fetching(r) == stage[r] = "scrape" /\ \E i \in DOMAIN call[r] : call[r][i] = "out"

\* The event loop runs every task that can go on, and every call that is out
\* comes back (LlmClient!EveryCallEnds, Search!EverySearchEnds), but a fetch.
Fairness == \A r \in Run : WF_vars(~Fetching(r) /\ (Calls(r) \/ Advance(r)))

Spec == Init /\ [][Next]_vars /\ Fairness

----------------------------------------------------------------------------
(* Properties. *)

Stage == {"search", "select", "scrape", "judge", "summarize"}
Page == Text \cup {"failed", "empty", "extract"}

TypeOK ==
    /\ torn \in SUBSET {"search", "scrape", "llm"}
    /\ garbled \in SUBSET {"search", "scrape", "llm"}
    /\ status \in [Run -> {"idle", "running", "done", "raised", "cancelled"}]
    /\ stage \in [Run -> Stage]
    /\ query \in [Run -> Query]
    /\ \A r \in Run :
          /\ call[r] \in Seq({"new", "out", "in", "lost"})
          /\ DOMAIN answer[r] = DOMAIN call[r]
          /\ plan[r].found \in Listing \cup {<<>>}
          /\ plan[r].chosen \in Seq(1..Len(plan[r].found))
          /\ plan[r].page \in Seq(Page)
          /\ plan[r].kept \in Seq(Url \X Text)
    /\ faults \in 0..MaxFaults
    /\ paid \in [Run -> BOOLEAN]
    /\ clean \in [Run -> BOOLEAN]
    /\ alone \in [Run -> BOOLEAN]
    /\ before \in [Run -> SUBSET Run]

\* The model sees nothing that was not found.  The summary is made from at
\* most TopK of the results the search returned, no result twice, each with a
\* text; a run whose search found something always has something to scrape,
\* whatever the model picked; and the model is never asked about nothing: no
\* results, a page without text, no page.
Grounded ==
    \A r \in Run : LET p == plan[r] IN
        /\ IsInjective(p.chosen)
        /\ Len(p.chosen) <= TopK
        /\ stage[r] \in {"scrape", "judge", "summarize"} => p.chosen # <<>>
        /\ \A n \in DOMAIN p.kept : \E i \in DOMAIN p.chosen :
              p.kept[n] = <<UrlAt(r, i), p.page[i]>> /\ HasText(p.page[i])
        /\ \A i \in DOMAIN call[r] : call[r][i] = "out" =>
              /\ stage[r] = "select" => p.found # <<>>
              /\ stage[r] = "judge" => HasText(p.page[i])
              /\ stage[r] = "summarize" => p.kept # <<>>

\* Failures degrade the result and no more: as long as the caches work, a run
\* raises only because its search failed or because its last call, the
\* summary of pages that were kept, did.
FailuresDegrade ==
    \A r \in Run :
        status[r] = "raised" /\ faults = 0 =>
            \/ stage[r] = "search"
            \/ stage[r] = "summarize" /\ plan[r].kept # <<>>

\* A run that is done or cancelled has left nothing behind that would still
\* fetch, ask the model or write a record.
NoOrphansUnlessRaised ==
    \A r \in Run :
        status[r] \in {"done", "cancelled"} =>
            \A i \in DOMAIN call[r] : call[r][i] \notin {"new", "out"}

\* No two calls of one stage of the run had the same key.
Distinct(r) ==
    \A i, j \in DOMAIN plan[r].page :
        i # j => /\ UrlAt(r, i) # UrlAt(r, j)
                 /\ HasText(plan[r].page[i]) => plan[r].page[i] # plan[r].page[j]

\* d finished before r began, had the caches to itself and met no failure.
Replays(r, d) == d \in before[r] /\ query[d] = query[r] /\ alone[d] /\ clean[d]

\* README.md:31 "Second run of the same query issues zero HTTP + zero LLM
\* calls", and it comes to the same result, however many other runs surround
\* it: the keys of a stage are made of the answers of the stages before it, so
\* one record that is missing, or is another run's, sends all that follows
\* astray.
ReplayIsFree ==
    \A r, d \in Run :
        Replays(r, d) /\ Distinct(d) =>
            ~paid[r] /\ (status[r] = "done" => plan[r] = plan[d])

\* A run that no page holds for ever ends.
EveryRunEnds ==
    \A r \in Run : []<>~Fetching(r) => (status[r] = "running" ~> status[r] # "running")

\* README.md:31 "Second run of the same query issues zero HTTP + zero LLM
\* calls": without the condition that the first run's calls had distinct keys.
SecondRunIsFree == \A r, d \in Run : Replays(r, d) => ~paid[r]
=============================================================================
