----------------------------- MODULE JsonlCache -----------------------------
(***************************************************************************)
(* The append-only JSONL file behind every cache                           *)
(* (functions/core/cache.py).                                              *)
(*                                                                         *)
(* put() serialises a record, opens the file in append mode and writes     *)
(* "record \n"; get() parses every line in order and keeps the last match. *)
(* A write may be torn: the process dies, or the disk fills up, after a    *)
(* prefix of the bytes reached the file. Whatever prefix is left has no    *)
(* newline, so the NEXT append lands on the same line.                     *)
(*                                                                         *)
(* Abstractions. A payload is named by the number of the put that wrote it *)
(* (puts are numbered from 1), so that two writes are never confused. A    *)
(* line is a record or one of two kinds of damage: Garbage (text that is   *)
(* not JSON) and Undecodable (the cut fell inside a multi-byte character:  *)
(* put() writes UTF-8 with ensure_ascii=False). A missing file and an      *)
(* empty one read alike and are one state. put() never suspends, and one   *)
(* process owns the file, so puts do not interleave with each other or     *)
(* with gets.                                                              *)
(***************************************************************************)
EXTENDS Naturals, Sequences, FiniteSets

CONSTANTS
    Key,          \* cache keys
    Nothing,      \* no unterminated bytes at the end; also get()'s None
    Garbage,      \* a line that json.loads rejects
    Undecodable,  \* a line that is not UTF-8
    Raises,       \* get() ends in UnicodeDecodeError
    MaxPuts,      \* bound: puts begun
    MaxTears      \* bound: torn writes

ASSUME BoundsAssumption == MaxPuts \in Nat /\ MaxTears \in Nat

Version == 1..MaxPuts
Record == [key : Key, version : Version]
Damage == {Garbage, Undecodable}
Line == Record \cup Damage
Answer == Version \cup {Nothing, Raises}

ASSUME MarkersAssumption ==
    /\ Nothing \notin {Garbage, Undecodable, Raises}
    /\ Garbage \notin {Undecodable, Raises}
    /\ Undecodable # Raises
    /\ \A x \in {Nothing, Garbage, Undecodable, Raises} :
          x \notin Version /\ x \notin Record

VARIABLES
    lines,   \* the newline-terminated lines, oldest first
    tail,    \* the unterminated bytes after them, or Nothing
    puts,    \* number of puts begun (the newest version)
    acked,   \* history: the records whose put() returned, since the last clear
    tears    \* history: torn writes since the last clear

vars == <<lines, tail, puts, acked, tears>>

Init ==
    /\ lines = <<>>
    /\ tail = Nothing
    /\ puts = 0
    /\ acked = {}
    /\ tears = 0

----------------------------------------------------------------------------
(* Reading. *)

\* What iterating the file yields: its lines, the unterminated one included.
Content == IF tail = Nothing THEN lines ELSE Append(lines, tail)

\* Decoding happens outside the try block of __iter__: one undecodable line
\* fails every get() of every key.
HasUndecodable(c) == \E i \in DOMAIN c : c[i] = Undecodable

Matches(c, k) == {i \in DOMAIN c : c[i] \in Record /\ c[i].key = k}

\* Mutant: the first match wins.
EarliestMatch(c, k) == CHOOSE i \in Matches(c, k) : \A j \in Matches(c, k) : i <= j

Latest(c, k) == CHOOSE i \in Matches(c, k) : \A j \in Matches(c, k) : j <= i

\* The last record of key k in the lines c, damaged lines being skipped.
RecordIn(c, k) ==
    IF Matches(c, k) = {} THEN Nothing ELSE c[Latest(c, k)].version

\* The answer of get(k) over a file whose content is c.
GetFrom(c, k) == IF HasUndecodable(c) THEN Raises ELSE RecordIn(c, k)

Outage == HasUndecodable(Content)
Get(k) == GetFrom(Content, k)

----------------------------------------------------------------------------
(* Writing. *)

NewRecord(k) == [key |-> k, version |-> puts + 1]

\* The line that results when bytes are appended to what is left of one.
Glue(left, right) ==
    IF left = Nothing THEN right
    ELSE IF Undecodable \in {left, right} THEN Undecodable
    ELSE Garbage

\* Mutant: put() opens the file in mode "w".
Overwritten(k) == <<Glue(tail, NewRecord(k))>>

\* Mode "a": the record ends up after whatever is left of the last line.
Extended(k) == Append(lines, Glue(tail, NewRecord(k)))

WriteLine(k) ==
    /\ puts < MaxPuts
    /\ puts' = puts + 1
    /\ lines' = Extended(k)
    /\ tail' = Nothing

\* put() returns to its caller.
Put(k) ==
    /\ WriteLine(k)
    /\ acked' = acked \cup {NewRecord(k)}
    /\ UNCHANGED tears

\* The whole line is in the file, and the process dies before put() returns.
UnackedPut(k) ==
    /\ WriteLine(k)
    /\ UNCHANGED <<acked, tears>>

\* A proper prefix of the line is in the file: cut inside the JSON text,
\* inside a character, or just before the newline.
TornPut(k) ==
    /\ puts < MaxPuts
    /\ tears < MaxTears
    /\ puts' = puts + 1
    /\ tears' = tears + 1
    /\ \E prefix \in {NewRecord(k)} \cup Damage : tail' = Glue(tail, prefix)
    /\ UNCHANGED <<lines, acked>>

\* clear(), or scripts/clear_cache.py run beside the server: truncation.  Every
\* put() opens the file anew, so no position in the old file is remembered.
Clear ==
    /\ lines' = <<>>
    /\ tail' = Nothing
    /\ acked' = {}
    /\ tears' = 0
    /\ UNCHANGED puts

Next ==
    \/ \E k \in Key : Put(k) \/ UnackedPut(k) \/ TornPut(k)
    \/ Clear

Spec == Init /\ [][Next]_vars

----------------------------------------------------------------------------
(* Properties. *)

TypeOK ==
    /\ lines \in Seq(Line)
    /\ tail \in Line \cup {Nothing}
    /\ puts \in 0..MaxPuts
    /\ acked \subseteq Record
    /\ tears \in 0..MaxTears

Terminated == {lines[i] : i \in DOMAIN lines}
Lost == acked \ Terminated

\* Damage is bounded: each torn write costs at most one record that put()
\* had acknowledged (the one that lands on the torn line), however many
\* follow, because the successful append also writes the newline that ends
\* the torn line.
LossBounded == Cardinality(Lost) <= tears

\* A put that begins on a newline-terminated, decodable file is what get()
\* serves as soon as it returns.
AckedPutIsServed ==
    [][\A k \in Key :
          /\ acked' = acked \cup {NewRecord(k)}
          /\ acked' # acked
          /\ tail = Nothing
          /\ ~Outage
          => Get(k)' = puts']_vars

\* Last-write-wins: a key's answer never goes back to an older write while
\* the file is only appended to.  The exception is real: a record cut just
\* before its newline is served until the next append destroys it.
ReadsNeverGoBack ==
    [][\A k \in Key :
          /\ Get(k) \in Version
          /\ tail \notin Record
          /\ lines' # <<>>
          => \/ Get(k)' = Raises
             \/ Get(k)' \in Version /\ Get(k)' >= Get(k)]_vars

\* The file is the map of CacheFile, torn writes included: a put goes into the
\* map, and is answered by get(), unless the line it lands on has no newline;
\* a record that lacks only its newline is answered until the next append; and
\* no step but clear() makes an unreadable file readable, or takes away a
\* record that stands on a line of its own.
View(c) == [k \in Key |-> RecordIn(c, k)]
File == INSTANCE CacheFile
           WITH Value <- Version, Absent <- Nothing,
                cache <- View(Content), kept <- View(lines),
                torn <- tail # Nothing, readable <- ~Outage
FileSpec == File!Spec

\* README.md:443 "Crash-safe -- ... a half-written line from a crashed
\* process is recoverable (the corrupt line is skipped ...)": an acknowledged
\* put stays readable, or is shadowed by a newer one, when nothing in the
\* file is undecodable.
CrashSafe ==
    ~Outage => \A r \in acked : Get(r.key) \in Version /\ Get(r.key) >= r.version

\* cache.py:6 "Corrupt (non-JSON) lines are skipped with a WARNING log so a
\* damaged cache never becomes an outage".
NeverAnOutage == ~Outage
=============================================================================
