----------------------------- MODULE CacheFile ------------------------------
(***************************************************************************)
(* What the rest of the agent has in a cache file                          *)
(* (functions/core/cache.py): a map in which a key's last put shadows      *)
(* every earlier one, as long as every write reaches the disk whole. A put *)
(* that raises may leave a line without its newline; the next put then     *)
(* lands on that line and both are lost, though put() returned. LlmClient, *)
(* Search and Scraper use these operators for their caches; JsonlCache     *)
(* shows that the file of lines does nothing else.                         *)
(***************************************************************************)
CONSTANTS
    Key,      \* cache keys (SHA-256 digests in the code)
    Value,    \* payloads a caller may put
    Absent    \* what get() answers for a key that has no record (None)

VARIABLES
    cache,    \* what get() answers, as long as the file is readable
    kept,     \* what it would answer from the newline-terminated lines alone
    torn,     \* whether the last line lacks its newline
    readable  \* whether every line is UTF-8; if not, every get() raises

file == <<cache, kept, torn, readable>>

\* An unterminated line is a record of its own, or damage that is skipped.
Unterminated(k, v) == {kept, [kept EXCEPT ![k] = v]}

\* Any state that an earlier process may have left.
Init ==
    /\ kept \in [Key -> Value \cup {Absent}]
    /\ torn \in BOOLEAN
    /\ cache \in IF torn THEN UNION {Unterminated(k, v) : k \in Key, v \in Value}
                 ELSE {kept}
    /\ readable \in BOOLEAN

\* The whole line is written.  On an unterminated line it is part of that
\* line, which is no record and is ended by it.
Put(k, v) ==
    /\ kept' = IF torn THEN kept ELSE [kept EXCEPT ![k] = v]
    /\ cache' = kept'
    /\ torn' = FALSE
    /\ UNCHANGED readable

\* Part of it is written, perhaps all but the newline, perhaps cut inside a
\* multi-byte character.
TornPut(k, v) ==
    /\ cache' \in IF torn THEN {kept} ELSE Unterminated(k, v)
    /\ torn' = TRUE
    /\ readable' \in {readable, FALSE}
    /\ UNCHANGED kept

Untouched == UNCHANGED <<cache, kept, torn, readable>>

\* put() raises: before it wrote anything, having written a part, or all.
PutRaises(k, v) == Untouched \/ TornPut(k, v) \/ Put(k, v)

Clear ==
    /\ cache' = [k \in Key |-> Absent]
    /\ kept' = cache'
    /\ torn' = FALSE
    /\ readable' = TRUE

Next ==
    \/ \E k \in Key, v \in Value : Put(k, v) \/ TornPut(k, v)
    \/ Clear

Spec == Init /\ [][Next]_file
=============================================================================
