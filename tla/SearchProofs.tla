---------------------------- MODULE SearchProofs ----------------------------
(***************************************************************************)
(* Proofs about Search, for every number of calls, queries and faults: the   *)
(* fallback order and the exhaustion before SearchError, that repeats ask no *)
(* provider, and that a settled record stays, failing writes of the cache    *)
(* file and its truncation included.                                         *)
(***************************************************************************)
EXTENDS Search, FiniteSetTheorems, TLAPS

USE DEF HasRecord, Stored, Left, Preferred

\* What a call has asked so far, by where it is: the providers are asked in
\* order, and only after a lookup that found nothing.
AskedInv ==
    \A s \in Searcher :
        /\ pc[s] = "idle" => tried[s] = {} /\ before[s] = {}
        /\ pc[s] = "serpapi" => tried[s] = {"serpapi"} /\ "serpapi" \in configured
        /\ pc[s] = "cse" => tried[s] = configured /\ "cse" \in configured
        /\ pc[s] \in Provider => seen[s] = NoResult
        /\ pc[s] = "failed" => tried[s] = configured

\* Every dropped answer is a failure of the cache.
WastedInv ==
    \A s \in Searcher : IsFiniteSet(wasted[s]) /\ Cardinality(wasted[s]) <= faults

\* A call that was answered by a record on a line of its own has left it there,
\* with or without the unterminated line, and a call that could know of it used
\* it.
KnownInv ==
    /\ \A s \in lasting : cache[query[s]] # NoResult /\ kept[query[s]] # NoResult
    /\ \A s, d \in Searcher :
          d \in before[s] /\ query[d] = query[s] => tried[s] = {} /\ pc[s] = "ok"

\* Puts lost to an unterminated line, and that line, are failures of the cache.
GluedInv == glued + (IF torn THEN 1 ELSE 0) <= faults

IInv == TypeOK /\ AskedInv /\ WastedInv /\ GluedInv /\ AnswerHasASource /\ KnownInv

LEMMA InitInv == Init => IInv
<1> SUFFICES ASSUME Init PROVE IInv OBVIOUS
<1> USE ConstantsAssumption DEF Init, Provider, Ended, Answered
<1>1. TypeOK
  <2>1. /\ kept \in [Query -> Result \cup {NoResult}]
        /\ torn \in BOOLEAN /\ readable \in BOOLEAN
    BY DEF File!Init
  <2>2. cache \in [Query -> Result \cup {NoResult}]
    BY <2>1 DEF File!Init, File!Unterminated
  <2> QED BY <2>1, <2>2 DEF TypeOK
<1>2. AskedInv BY DEF AskedInv
<1>3. WastedInv /\ GluedInv BY FS_EmptySet DEF WastedInv, GluedInv, File!Init
<1>4. AnswerHasASource /\ KnownInv BY DEF AnswerHasASource, KnownInv
<1> QED BY <1>1, <1>2, <1>3, <1>4 DEF IInv

\* A step that advances one call leaves every other call as it was.
Alone(s) ==
    \A o \in Searcher \ {s} :
        /\ pc'[o] = pc[o] /\ value'[o] = value[o] /\ tried'[o] = tried[o]
        /\ wasted'[o] = wasted[o] /\ seen'[o] = seen[o] /\ before'[o] = before[o]

\* The result of asking the next provider among those left.
LEMMA ConsultResult ==
    ASSUME TypeOK, NEW s \in Searcher, NEW left \in SUBSET Provider, Consult(s, left)
    PROVE  /\ pc' \in [Searcher -> {"idle"} \cup Provider \cup Ended]
           /\ tried' \in [Searcher -> SUBSET Provider]
           /\ \A o \in Searcher \ {s} : pc'[o] = pc[o] /\ tried'[o] = tried[o]
           /\ \/ /\ "serpapi" \in left /\ pc'[s] = "serpapi"
                 /\ tried'[s] = tried[s] \cup {"serpapi"}
              \/ /\ "serpapi" \notin left /\ "cse" \in left /\ pc'[s] = "cse"
                 /\ tried'[s] = tried[s] \cup {"cse"}
              \/ left = {} /\ pc'[s] = "failed" /\ tried'[s] = tried[s]
BY DEF Consult, TypeOK, Provider, Ended

----------------------------------------------------------------------------
(* What one put, returning or raising, makes of the cache file. *)

LEMMA PutStep ==
    ASSUME TypeOK, NEW k \in Query, NEW v \in Result,
           File!Put(k, v) \/ File!PutRaises(k, v)
    PROVE  /\ cache' \in [Query -> Result \cup {NoResult}]
           /\ kept' \in [Query -> Result \cup {NoResult}]
           /\ torn' \in BOOLEAN /\ readable' \in BOOLEAN
           /\ \A j \in Query : j # k =>
                 cache'[j] \in {cache[j], kept[j]} /\ kept'[j] = kept[j]
           /\ \/ cache'[k] \in {cache[k], kept[k]} /\ kept'[k] = kept[k]
              \/ cache'[k] = v /\ kept'[k] \in {kept[k], v}
<1>1. CASE File!Untouched BY <1>1 DEF File!Untouched, TypeOK
<1>2. CASE File!TornPut(k, v)
  BY <1>2 DEF File!TornPut, File!Unterminated, TypeOK
<1>3. CASE File!Put(k, v) BY <1>3 DEF File!Put, TypeOK
<1> QED BY <1>1, <1>2, <1>3 DEF File!PutRaises

----------------------------------------------------------------------------
LEMMA TypeStep ==
    ASSUME IInv, [Next]_vars PROVE TypeOK'
<1> USE ConstantsAssumption DEF IInv, TypeOK
<1>1. ASSUME NEW s \in Searcher, Begin(s) PROVE TypeOK'
  <2>1. CASE Hit(s)
    BY <2>1 DEF Hit, Lookup, Returns, Ended, File!Untouched
  <2>2. CASE Miss(s)
    <3>1. Consult(s, configured) BY <2>2 DEF Miss
    <3>2. /\ pc' \in [Searcher -> {"idle"} \cup Provider \cup Ended]
          /\ tried' \in [Searcher -> SUBSET Provider]
      BY <3>1, ConsultResult
    <3> QED BY <2>2, <3>2 DEF Miss, Lookup, File!Untouched
  <2>3. CASE LookupRaises(s)
    BY <2>3 DEF LookupRaises, Fault, Ended, File!Untouched
  <2> QED BY <1>1, <2>1, <2>2, <2>3 DEF Begin
<1>2. ASSUME NEW s \in Searcher, Settle(s) PROVE TypeOK'
  <2>1. ASSUME NEW r \in Result, Answers(s, r) PROVE TypeOK'
    <3>1. File!Put(query[s], r) BY <2>1 DEF Answers
    <3>2. /\ cache' \in [Query -> Result \cup {NoResult}]
          /\ kept' \in [Query -> Result \cup {NoResult}]
          /\ torn' \in BOOLEAN /\ readable' \in BOOLEAN
      BY <3>1, PutStep
    <3>3. glued' \in 0..MaxFaults BY <2>1 DEF Answers, GluedInv
    <3> QED BY <2>1, <3>2, <3>3 DEF Answers, Returns, Ended
  <2>2. ASSUME NEW r \in Result, StoreRaises(s, r) PROVE TypeOK'
    <3>1. Consult(s, Left(s)) /\ Left(s) \in SUBSET Provider BY <2>2 DEF StoreRaises
    <3>2. /\ pc' \in [Searcher -> {"idle"} \cup Provider \cup Ended]
          /\ tried' \in [Searcher -> SUBSET Provider]
      BY <3>1, ConsultResult
    <3>3. pc[s] \in Provider BY <2>2 DEF StoreRaises, Result
    <3>4. File!PutRaises(query[s], r) BY <2>2 DEF StoreRaises
    <3>5. /\ cache' \in [Query -> Result \cup {NoResult}]
          /\ kept' \in [Query -> Result \cup {NoResult}]
          /\ torn' \in BOOLEAN /\ readable' \in BOOLEAN
      BY <3>4, PutStep
    <3>6. faults' \in 0..MaxFaults BY <2>2 DEF StoreRaises, Fault
    <3>7. wasted' \in [Searcher -> SUBSET Provider] BY <2>2, <3>3 DEF StoreRaises
    <3> QED BY <2>2, <3>2, <3>5, <3>6, <3>7 DEF StoreRaises
  <2>3. CASE ProviderFails(s)
    <3>1. Consult(s, Left(s)) /\ Left(s) \in SUBSET Provider BY <2>3 DEF ProviderFails
    <3>2. /\ pc' \in [Searcher -> {"idle"} \cup Provider \cup Ended]
          /\ tried' \in [Searcher -> SUBSET Provider]
      BY <3>1, ConsultResult
    <3> QED BY <2>3, <3>2 DEF ProviderFails, File!Untouched
  <2> QED BY <1>2, <2>1, <2>2, <2>3 DEF Settle
<1>3. ASSUME NEW s \in Searcher, Cancel(s) PROVE TypeOK'
  BY <1>3 DEF Cancel, Ended, File!Untouched
<1>4. CASE Clear BY <1>4 DEF Clear, File!Clear
<1>5. CASE UNCHANGED vars BY <1>5 DEF vars
<1> QED BY <1>1, <1>2, <1>3, <1>4, <1>5 DEF Next

\* The records: short of clear(), a query that has one on a line of its own
\* keeps one, and only a call that is past looking up changes it.
LEMMA CacheStep ==
    ASSUME IInv, [Next]_vars, NEW q \in Query
    PROVE  \/ (\A p \in Query : cache'[p] = NoResult) /\ lasting' = {}
           \/ /\ cache[q] # NoResult /\ kept[q] # NoResult =>
                    cache'[q] # NoResult /\ kept'[q] # NoResult
              /\ cache[q] = kept[q] =>
                    \/ cache'[q] = cache[q] /\ kept'[q] = kept[q]
                    \/ \E s \in Searcher : query[s] = q /\ pc[s] \in Provider
<1> USE ConstantsAssumption DEF IInv, TypeOK
<1>1. CASE Clear BY <1>1 DEF Clear, File!Clear
<1>2. ASSUME NEW s \in Searcher, NEW r \in Result, Answers(s, r) \/ StoreRaises(s, r)
      PROVE  /\ cache[q] # NoResult /\ kept[q] # NoResult =>
                    cache'[q] # NoResult /\ kept'[q] # NoResult
             /\ cache[q] = kept[q] =>
                    \/ cache'[q] = cache[q] /\ kept'[q] = kept[q]
                    \/ query[s] = q /\ pc[s] \in Provider
  <2>1. pc[s] \in Provider BY <1>2 DEF Answers, StoreRaises, Result
  <2>2. File!Put(query[s], r) \/ File!PutRaises(query[s], r)
    BY <1>2 DEF Answers, StoreRaises
  <2>3. /\ q # query[s] => cache'[q] \in {cache[q], kept[q]} /\ kept'[q] = kept[q]
        /\ q = query[s] =>
              \/ cache'[q] \in {cache[q], kept[q]} /\ kept'[q] = kept[q]
              \/ cache'[q] = r /\ kept'[q] \in {kept[q], r}
    <3> USE <2>2
    <3> QED BY PutStep
  <2> QED BY <2>1, <2>3
<1>3. \A s \in Searcher :
         Hit(s) \/ Miss(s) \/ LookupRaises(s) \/ ProviderFails(s) \/ Cancel(s)
            => cache' = cache /\ kept' = kept
  BY DEF Hit, Miss, LookupRaises, ProviderFails, Cancel, File!Untouched
<1>4. UNCHANGED vars => cache' = cache /\ kept' = kept BY DEF vars
<1> QED BY <1>1, <1>2, <1>3, <1>4 DEF Next, Begin, Settle

\* Each write that failed leaves at most one unterminated line, and a line at
\* most one record that is lost with it.
LEMMA GluedStep ==
    ASSUME IInv, [Next]_vars PROVE GluedInv'
<1> USE DEF GluedInv
<1>0. /\ glued \in Nat /\ faults \in Nat
      /\ torn \in BOOLEAN
      /\ glued + (IF torn THEN 1 ELSE 0) <= faults
  BY ConstantsAssumption DEF IInv, TypeOK
<1>1. ASSUME NEW s \in Searcher, NEW r \in Result, Answers(s, r) PROVE GluedInv'
  <2>1. torn' = FALSE BY <1>1 DEF Answers, File!Put
  <2> QED BY <1>0, <1>1, <2>1 DEF Answers
<1>2. ASSUME NEW s \in Searcher, NEW r \in Result, StoreRaises(s, r) PROVE GluedInv'
  BY <1>0, <1>2 DEF StoreRaises, Fault
<1>3. CASE Clear
  <2>1. torn' = FALSE BY <1>3 DEF Clear, File!Clear
  <2> QED BY <1>0, <1>3, <2>1 DEF Clear
<1>4. ASSUME NEW s \in Searcher, LookupRaises(s) PROVE GluedInv'
  BY <1>0, <1>4 DEF LookupRaises, Fault, File!Untouched
<1>5. ASSUME NEW s \in Searcher, Hit(s) \/ Miss(s) \/ ProviderFails(s) \/ Cancel(s)
      PROVE  glued' = glued /\ torn' = torn /\ faults' = faults
  BY <1>5 DEF Hit, Miss, Lookup, ProviderFails, Cancel, File!Untouched
<1>6. UNCHANGED vars => glued' = glued /\ torn' = torn /\ faults' = faults
  BY DEF vars
<1> QED BY <1>0, <1>1, <1>2, <1>3, <1>4, <1>5, <1>6 DEF Next, Begin, Settle

\* After SerpAPI, CSE is all that can be left.
LEMMA AllAsked ==
    ASSUME NEW C \in SUBSET Provider, NEW T \in SUBSET C, "serpapi" \notin C \ T
    PROVE  /\ "cse" \in C \ T => T \cup {"cse"} = C
           /\ "cse" \notin C \ T => T = C
BY DEF Provider

\* The order in which the providers are asked.
LEMMA AskedStep ==
    ASSUME IInv, [Next]_vars PROVE AskedInv'
<1> USE DEF IInv, TypeOK, AskedInv, Provider, Ended
<1>1. ASSUME NEW s \in Searcher, Hit(s) \/ LookupRaises(s) \/ Cancel(s) PROVE AskedInv'
  BY <1>1 DEF Hit, Lookup, Returns, LookupRaises, Cancel
<1>2. ASSUME NEW s \in Searcher, Miss(s) PROVE AskedInv'
  <2>1. /\ pc[s] = "idle" /\ tried[s] = {} /\ seen'[s] = NoResult
        /\ \A o \in Searcher \ {s} : seen'[o] = seen[o] /\ before'[o] = before[o]
        /\ configured' = configured
    BY <1>2 DEF Miss, Lookup
  <2>2. Consult(s, configured) BY <1>2 DEF Miss
  <2>3. /\ \A o \in Searcher \ {s} : pc'[o] = pc[o] /\ tried'[o] = tried[o]
        /\ \/ "serpapi" \in configured /\ pc'[s] = "serpapi" /\ tried'[s] = {"serpapi"}
           \/ /\ "serpapi" \notin configured /\ "cse" \in configured
              /\ pc'[s] = "cse" /\ tried'[s] = {"cse"}
           \/ configured = {} /\ pc'[s] = "failed" /\ tried'[s] = {}
    BY <2>1, <2>2, ConsultResult
  <2>4. configured \in {{}, {"serpapi"}, {"cse"}, {"serpapi", "cse"}} OBVIOUS
  <2> QED BY <2>1, <2>3, <2>4
<1>3. ASSUME NEW s \in Searcher, NEW r \in Result, Answers(s, r) PROVE AskedInv'
  BY <1>3 DEF Answers, Returns
<1>4. ASSUME NEW s \in Searcher, pc[s] \in Provider, Consult(s, Left(s)),
             UNCHANGED <<configured, seen, before>>
      PROVE  AskedInv'
  <2>1. /\ \A o \in Searcher \ {s} : pc'[o] = pc[o] /\ tried'[o] = tried[o]
        /\ \/ /\ "serpapi" \in Left(s) /\ pc'[s] = "serpapi"
              /\ tried'[s] = tried[s] \cup {"serpapi"}
           \/ /\ "serpapi" \notin Left(s) /\ "cse" \in Left(s) /\ pc'[s] = "cse"
              /\ tried'[s] = tried[s] \cup {"cse"}
           \/ Left(s) = {} /\ pc'[s] = "failed" /\ tried'[s] = tried[s]
    BY <1>4, ConsultResult
  <2>2. tried[s] \subseteq configured /\ ("serpapi" \in configured => "serpapi" \in tried[s])
    BY <1>4
  <2>3. tried'[s] = configured /\ pc'[s] \in {"cse", "failed"}
        /\ (pc'[s] = "cse" => "cse" \in configured)
    <3>1. "serpapi" \notin Left(s) BY <2>2
    <3>2. CASE "cse" \in Left(s)
      <4>1. pc'[s] = "cse" /\ tried'[s] = tried[s] \cup {"cse"} BY <2>1, <3>1, <3>2
      <4>2. tried[s] \cup {"cse"} = configured BY <2>2, <3>1, <3>2, AllAsked
      <4> QED BY <3>2, <4>1, <4>2
    <3>3. CASE "cse" \notin Left(s)
      <4>1. pc'[s] = "failed" /\ tried'[s] = tried[s] BY <2>1, <3>1, <3>3
      <4>2. tried[s] = configured BY <2>2, <3>1, <3>3, AllAsked
      <4> QED BY <4>1, <4>2
    <3> QED BY <3>2, <3>3
  <2> QED BY <1>4, <2>1, <2>3
<1>5. ASSUME NEW s \in Searcher, Begin(s) \/ Settle(s) \/ Cancel(s) PROVE AskedInv'
  <2>1. ASSUME NEW r \in Result, StoreRaises(s, r) PROVE AskedInv'
    BY <1>4, <2>1 DEF StoreRaises, Result
  <2>2. CASE ProviderFails(s) BY <1>4, <2>2 DEF ProviderFails
  <2> QED BY <1>1, <1>2, <1>3, <1>5, <2>1, <2>2 DEF Begin, Settle
<1>6. CASE Clear \/ UNCHANGED vars BY <1>6 DEF Clear, vars
<1> QED BY <1>5, <1>6 DEF Next

\* A set with one more element, or with none, and a bound with one more.
LEMMA OneMore ==
    ASSUME NEW S, NEW x, NEW n \in Nat, IsFiniteSet(S), Cardinality(S) <= n
    PROVE  /\ IsFiniteSet(S \cup {x})
           /\ Cardinality(S \cup {x}) <= n + 1
           /\ Cardinality(S) <= n + 1
<1> DEFINE T == S \cup {x}
<1>1. Cardinality(S) \in Nat BY FS_CardinalityType
<1>2. IsFiniteSet(T) /\ (Cardinality(T) = Cardinality(S) \/ Cardinality(T) = Cardinality(S) + 1)
  BY FS_AddElement
<1> QED BY <1>1, <1>2

\* Dropped answers and failures of the cache are counted together.
LEMMA WastedStep ==
    ASSUME IInv, [Next]_vars PROVE WastedInv'
<1> USE DEF IInv, TypeOK, WastedInv
<1>1. ASSUME NEW s \in Searcher, NEW r \in Result, StoreRaises(s, r) PROVE WastedInv'
  <2>1. /\ faults' = faults + 1 /\ faults \in Nat
        /\ wasted' = [wasted EXCEPT ![s] = @ \cup {pc[s]}]
    BY <1>1, ConstantsAssumption DEF StoreRaises, Fault
  <2>2. /\ IsFiniteSet(wasted[s] \cup {pc[s]})
        /\ Cardinality(wasted[s] \cup {pc[s]}) <= faults + 1
    BY <2>1, OneMore
  <2>3. ASSUME NEW o \in Searcher, o # s
        PROVE  IsFiniteSet(wasted'[o]) /\ Cardinality(wasted'[o]) <= faults'
    <3>1. wasted'[o] = wasted[o] BY <2>1, <2>3
    <3>2. IsFiniteSet(wasted[o]) /\ Cardinality(wasted[o]) <= faults + 1
      BY <2>1, OneMore
    <3> QED BY <2>1, <3>1, <3>2
  <2>4. wasted'[s] = wasted[s] \cup {pc[s]} BY <2>1
  <2> QED BY <2>1, <2>2, <2>3, <2>4
<1>2. ASSUME wasted' = wasted, faults' \in {faults, faults + 1} PROVE WastedInv'
  <2>1. ASSUME NEW o \in Searcher
        PROVE  IsFiniteSet(wasted[o]) /\ Cardinality(wasted[o]) <= faults'
    <3>1. IsFiniteSet(wasted[o]) /\ Cardinality(wasted[o]) <= faults /\ faults \in Nat
      BY ConstantsAssumption
    <3>2. Cardinality(wasted[o]) <= faults + 1 BY <3>1, OneMore
    <3> QED BY <1>2, <3>1, <3>2
  <2> QED BY <1>2, <2>1
<1>3. \/ wasted' = wasted /\ faults' \in {faults, faults + 1}
      \/ \E s \in Searcher, r \in Result : StoreRaises(s, r)
  BY DEF Next, Begin, Settle, Hit, Miss, LookupRaises, Fault, Answers,
         ProviderFails, Cancel, Clear, vars
<1> QED BY <1>1, <1>2, <1>3

\* What is returned, and from where.
LEMMA SourceStep ==
    ASSUME IInv, [Next]_vars PROVE AnswerHasASource'
<1> USE DEF IInv, TypeOK, AskedInv, AnswerHasASource, Answered, Provider, Ended
<1>1. ASSUME NEW s \in Searcher, Hit(s) PROVE AnswerHasASource'
  BY <1>1 DEF Hit, Lookup, Returns
<1>2. ASSUME NEW s \in Searcher, NEW r \in Result, Answers(s, r) PROVE AnswerHasASource'
  <2>1. pc[s] \in Provider /\ r[1] = pc[s] BY <1>2 DEF Answers, Result
  <2>2. /\ value'[s] = r /\ pc'[s] = "ok" /\ tried' = tried /\ seen' = seen
        /\ configured' = configured
        /\ \A o \in Searcher \ {s} : pc'[o] = pc[o] /\ value'[o] = value[o]
    BY <1>2 DEF Answers, Returns
  <2>3. seen[s] = NoResult BY <2>1
  <2> QED BY <2>1, <2>2, <2>3
<1>3. ASSUME NEW s \in Searcher, LookupRaises(s) \/ Cancel(s) PROVE AnswerHasASource'
  BY <1>3 DEF LookupRaises, Cancel
<1>4. ASSUME NEW s \in Searcher, NEW left \in SUBSET Provider, Consult(s, left),
             UNCHANGED <<configured, value>>,
             \A o \in Searcher \ {s} : seen'[o] = seen[o]
      PROVE  AnswerHasASource'
  <2>1. /\ \A o \in Searcher \ {s} : pc'[o] = pc[o] /\ tried'[o] = tried[o]
        /\ pc'[s] # "ok"
    BY <1>4, ConsultResult
  <2> QED BY <1>4, <2>1
<1>5. ASSUME NEW s \in Searcher, Miss(s) PROVE AnswerHasASource'
  BY <1>4, <1>5 DEF Miss, Lookup
<1>6. ASSUME NEW s \in Searcher, NEW r \in Result, StoreRaises(s, r)
      PROVE  AnswerHasASource'
  BY <1>4, <1>6 DEF StoreRaises
<1>7. ASSUME NEW s \in Searcher, ProviderFails(s) PROVE AnswerHasASource'
  BY <1>4, <1>7 DEF ProviderFails
<1>8. CASE Clear \/ UNCHANGED vars BY <1>8 DEF Clear, vars
<1> QED BY <1>1, <1>2, <1>3, <1>5, <1>6, <1>7, <1>8 DEF Next, Begin, Settle

\* A record on a line of its own stays, so whoever comes later finds one.
LEMMA KnownStep ==
    ASSUME IInv, [Next]_vars PROVE KnownInv'
<1> USE DEF IInv, TypeOK, AskedInv, KnownInv, Provider, Ended
<1>0. query' = query
  BY DEF Next, Begin, Settle, Hit, Miss, LookupRaises, Answers, StoreRaises,
         ProviderFails, Cancel, Clear, vars
\* Who lasts already has a record left, unless all is cleared.
<1>1. ASSUME NEW s \in lasting', s \in lasting
      PROVE  cache'[query[s]] # NoResult /\ kept'[query[s]] # NoResult
  BY <1>1, CacheStep
\* What a call that did not begin knew, it knows.
<1>2. ASSUME \A s \in Searcher : pc[s] = "ok" => pc'[s] = "ok" /\ tried'[s] = tried[s],
             before' = before
      PROVE  \A s, d \in Searcher :
                d \in before'[s] /\ query'[d] = query'[s] => tried'[s] = {} /\ pc'[s] = "ok"
  BY <1>0, <1>2
<1>3. ASSUME NEW s \in Searcher, Hit(s) PROVE KnownInv'
  BY <1>0, <1>3 DEF Hit, Lookup, Returns, File!Untouched
<1>4. ASSUME NEW s \in Searcher, Miss(s) PROVE KnownInv'
  <2>1. /\ \A o \in Searcher \ {s} : pc'[o] = pc[o] /\ tried'[o] = tried[o]
        /\ pc'[s] # "ok"
    BY <1>4, ConsultResult DEF Miss
  <2>2. /\ before' = [before EXCEPT ![s] = lasting]
        /\ cache' = cache /\ kept' = kept /\ lasting' = lasting
        /\ cache[query[s]] = NoResult /\ pc[s] = "idle"
    BY <1>4 DEF Miss, Lookup, File!Untouched
  <2>3. \A d \in before'[s] : query[d] # query[s] BY <2>2
  <2> QED BY <1>0, <2>1, <2>2, <2>3
<1>5. ASSUME NEW s \in Searcher, NEW r \in Result, Answers(s, r) PROVE KnownInv'
  <2>1. /\ pc[s] # "ok" /\ pc' = [pc EXCEPT ![s] = "ok"]
        /\ before' = before /\ tried' = tried /\ cache' = kept'
        /\ lasting' = IF kept'[query[s]] # NoResult
                         THEN lasting \cup {s} ELSE lasting
    BY <1>5 DEF Answers, Returns, Result, File!Put
  <2>2. \A o \in lasting' : o \notin lasting => o = s /\ kept'[query[s]] # NoResult
    BY <2>1
  <2> QED BY <1>0, <1>1, <1>2, <2>1, <2>2
<1>6. ASSUME NEW s \in Searcher, LookupRaises(s) \/ Cancel(s) PROVE KnownInv'
  BY <1>0, <1>6 DEF LookupRaises, Cancel, File!Untouched
<1>7. ASSUME NEW s \in Searcher, Consult(s, Left(s)), pc[s] \in Provider,
             UNCHANGED <<before, lasting>>
      PROVE  KnownInv'
  <2>1. /\ \A o \in Searcher \ {s} : pc'[o] = pc[o] /\ tried'[o] = tried[o]
        /\ pc[s] # "ok"
    BY <1>7, ConsultResult
  <2> QED BY <1>0, <1>1, <1>2, <1>7, <2>1
<1>8. ASSUME NEW s \in Searcher, NEW r \in Result, StoreRaises(s, r) PROVE KnownInv'
  BY <1>7, <1>8 DEF StoreRaises, Result
<1>9. ASSUME NEW s \in Searcher, ProviderFails(s) PROVE KnownInv'
  BY <1>7, <1>9 DEF ProviderFails
<1>10. CASE Clear BY <1>10 DEF Clear
<1>11. CASE UNCHANGED vars BY <1>11 DEF vars
<1> QED BY <1>3, <1>4, <1>5, <1>6, <1>8, <1>9, <1>10, <1>11 DEF Next, Begin, Settle

LEMMA InvStep == IInv /\ [Next]_vars => IInv'
BY TypeStep, AskedStep, WastedStep, GluedStep, SourceStep, KnownStep DEF IInv

LEMMA Invariant == Spec => []IInv
BY InitInv, InvStep, PTL DEF Spec

----------------------------------------------------------------------------
\* The searcher's state is always well typed.
THEOREM TypeCorrect == Spec => []TypeOK
<1>1. IInv => TypeOK BY DEF IInv
<1> QED BY <1>1, Invariant, PTL

\* SearchError comes only after every configured provider has been asked, and
\* at most as many answers were dropped as the cache has failed.
THEOREM ExhaustedBeforeFailure == Spec => []FailureIsExhaustive
<1>1. IInv => FailureIsExhaustive BY DEF IInv, AskedInv, WastedInv, FailureIsExhaustive
<1> QED BY <1>1, Invariant, PTL

\* CSE answers only where SerpAPI did not, and no answer lacks a source.
THEOREM FallbackInOrder == Spec => []AnswerHasASource
<1>1. IInv => AnswerHasASource BY DEF IInv
<1> QED BY <1>1, Invariant, PTL

\* A search that repeats an answered one asks no provider, unless the file was
\* cleared or the record was on a line that a failed write left without its
\* newline, which happens to one put per such line.
THEOREM RepeatsAreFree == Spec => []RepeatIsFree
<1>1. IInv => RepeatIsFree BY DEF IInv, KnownInv, GluedInv, RepeatIsFree
<1> QED BY <1>1, Invariant, PTL

\* A settled query stays settled, with the same record, until clear().
THEOREM SettledStays == Spec => SettledForGood
<1> DEFINE Stays ==
        \A q \in Query :
          Settled(q) =>
             \/ Settled(q)' /\ cache'[q] = cache[q]
             \/ \A p \in Query : cache'[p] = NoResult
<1>1. ASSUME IInv, [Next]_vars, NEW q \in Query, Settled(q),
             ~ \A p \in Query : cache'[p] = NoResult
      PROVE  Settled(q)' /\ cache'[q] = cache[q]
  <2> USE DEF Settled
  <2>1. cache'[q] = cache[q] /\ kept'[q] = kept[q] BY <1>1, CacheStep
  <2>2. ASSUME NEW s \in Searcher, query'[s] = q PROVE pc'[s] \notin Provider
    <3> USE <1>1, <2>2 DEF IInv, TypeOK, Provider, Ended
    <3>1. query' = query
      BY DEF Next, Begin, Settle, Hit, Miss, LookupRaises, Answers, StoreRaises,
             ProviderFails, Cancel, Clear, vars
    <3>2. pc[s] \notin Provider BY <3>1
    <3>3. ASSUME NEW o \in Searcher, Consult(o, Left(o)) \/ Consult(o, configured), o # s
          PROVE  pc'[s] = pc[s]
      BY <3>3, ConsultResult
    <3>4. ASSUME NEW o \in Searcher, Begin(o) \/ Settle(o) \/ Cancel(o)
          PROVE  pc'[s] \notin Provider
      <4>1. CASE Miss(o) BY <3>1, <3>2, <3>3, <4>1 DEF Miss
      <4>2. CASE ProviderFails(o) BY <3>2, <3>3, <4>2 DEF ProviderFails
      <4>3. ASSUME NEW r \in Result, StoreRaises(o, r) PROVE pc'[s] \notin Provider
        BY <3>2, <3>3, <4>3 DEF StoreRaises, Result
      <4>4. CASE Hit(o) \/ LookupRaises(o) \/ Cancel(o)
        BY <3>2, <4>4 DEF Hit, Returns, LookupRaises, Cancel
      <4>5. ASSUME NEW r \in Result, Answers(o, r) PROVE pc'[s] \notin Provider
        BY <3>2, <4>5 DEF Answers, Returns
      <4> QED BY <3>4, <4>1, <4>2, <4>3, <4>4, <4>5 DEF Begin, Settle
    <3> QED BY <3>2, <3>4 DEF Next, Clear, vars
  <2> QED BY <1>1, <2>1, <2>2
<1>2. IInv /\ [Next]_vars => Stays BY <1>1
<1> QED BY <1>2, Invariant, PTL DEF Spec, SettledForGood
=============================================================================
