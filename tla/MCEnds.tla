------------------------------- MODULE MCEnds --------------------------------
(* Liveness of the four components that await calls, each in an instance of   *)
(* its own: a behaviour is a behaviour of one part, from its own Init and     *)
(* under its own fairness, while the variables of the others stay as they     *)
(* are.  (What is checked of their safety has SYMMETRY, and more actors.)     *)
EXTENDS Naturals, Sequences

CONSTANTS c1, c2, k1, strict, good, junk,  \* LlmClient, Search
          b1, i1, i2, i3, u1, u2,            \* Scraper
          r1, t1, t2,                        \* ResearchPipeline
          None, Error

VARIABLES
    part,                                         \* the component that moves
    torn, faults,                                 \* of every part
    cache, kept, readable, seen,                  \* of all but the pipeline
    pc, value, lasting, glued,                    \* of LlmClient and Search
    before,                                       \* of all but the scraper
    query,                                        \* of Search and the pipeline
    backend, req, attempt, calls, slept,          \* of LlmClient
    configured, tried, wasted,                    \* of Search
    batch, url, job, page, permits,               \* of Scraper
    memo, safe, garbled, status, stage, call,     \* of ResearchPipeline
    answer, plan, paid, clean, alone

Caller == {c1, c2}
Run == {r1}
Job == {b1} \X {i1, i2, i3}

Llm == INSTANCE LlmClient WITH
    Key <- {k1}, Schema <- {strict}, Text <- {good, junk}, Accepts <- {<<strict, good>>},
    NoText <- None, Retries <- 2, MaxFaults <- 2

Web == INSTANCE Search WITH
    Searcher <- Caller, Query <- {k1}, NoResult <- None, MaxFaults <- 2

Scrape == INSTANCE Scraper WITH
    Batch <- {b1}, Slot <- {i1, i2, i3}, Url <- {u1}, NoPage <- None,
    Concurrency <- 1, MaxFaults <- 1

Pipeline == INSTANCE ResearchPipeline WITH
    Query <- {k1}, Url <- {u1, u2}, Text <- {t1, t2},
    Listing <- {<<>>, <<u1>>, <<u1, u2>>}, Reply <- {<<2, 1>>},
    TopK <- 2, MaxFaults <- 2

ofFile == <<cache, kept, readable, seen>>
ofCalls == <<value, lasting, glued>>
ofLlm == <<backend, req, attempt, calls, slept>>
ofSearch == <<configured, tried, wasted>>
ofScraper == <<batch, url, job, page, permits>>
ofPipeline == <<memo, safe, garbled, status, stage, call, answer, plan, paid, clean, alone>>

\* What the variables of a part that does not move hold.
NoCaller ==
    /\ pc = [c \in Caller |-> "idle"]
    /\ value = None /\ lasting = None /\ glued = None
NoLlm ==
    /\ req = [c \in Caller |-> [key |-> k1, schema |-> strict]]
    /\ backend = None /\ attempt = None /\ calls = None /\ slept = None
NoSearch == configured = None /\ tried = None /\ wasted = None
NoScraper ==
    /\ batch = [b \in {b1} |-> "idle"]
    /\ job = [j \in Job |-> "new"]
    /\ url = None /\ page = None /\ permits = None
NoPipeline ==
    /\ status = [r \in Run |-> "idle"]
    /\ stage = [r \in Run |-> "search"]
    /\ call = [r \in Run |-> <<>>]
    /\ memo = None /\ safe = None /\ garbled = None /\ answer = None
    /\ plan = None /\ paid = None /\ clean = None /\ alone = None
NoFile == cache = None /\ kept = None /\ readable = None /\ seen = None

MCInit ==
    \/ /\ part = "llm"
       /\ Llm!Init
       /\ NoSearch /\ NoScraper /\ NoPipeline /\ query = None
    \/ /\ part = "search"
       /\ Web!Init
       /\ NoLlm /\ NoScraper /\ NoPipeline
    \/ /\ part = "scraper"
       /\ Scrape!Init
       /\ NoCaller /\ NoLlm /\ NoSearch /\ NoPipeline /\ before = None /\ query = None
    \/ /\ part = "pipeline"
       /\ Pipeline!Init
       /\ NoCaller /\ NoLlm /\ NoSearch /\ NoScraper /\ NoFile

MCNext ==
    /\ \/ /\ part = "llm"
          /\ Llm!Next
          /\ UNCHANGED <<query, ofSearch, ofScraper, ofPipeline>>
       \/ /\ part = "search"
          /\ Web!Next
          /\ UNCHANGED <<ofLlm, ofScraper, ofPipeline>>
       \/ /\ part = "scraper"
          /\ Scrape!Next
          /\ UNCHANGED <<pc, before, query, ofCalls, ofLlm, ofSearch, ofPipeline>>
       \/ /\ part = "pipeline"
          /\ Pipeline!Next
          /\ UNCHANGED <<pc, ofFile, ofCalls, ofLlm, ofSearch, ofScraper>>
    /\ UNCHANGED part

vars == <<part, torn, faults, pc, before, query, ofFile, ofCalls, ofLlm, ofSearch,
          ofScraper, ofPipeline>>

MCSpec ==
    /\ MCInit
    /\ [][MCNext]_vars
    /\ Llm!Fairness /\ Web!Fairness /\ Scrape!Fairness /\ Pipeline!Fairness

\* Each is stated, and explained, in the module of its part.
EveryCallEnds == Llm!EveryCallEnds
EverySearchEnds == Web!EverySearchEnds
EverythingEnds == Scrape!EverythingEnds
EveryRunEnds == Pipeline!EveryRunEnds
=============================================================================
