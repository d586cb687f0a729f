-------------------------- MODULE LlmClientProofs ---------------------------
(***************************************************************************)
(* Proofs about LlmClient, for every number of callers and every retry       *)
(* budget: answers fit their caller's schema, the budget is exact, a repeat   *)
(* of an answered request costs no call, and only a race shadows a record,   *)
(* failing writes of the cache file and its truncation included.             *)
(***************************************************************************)
EXTENDS LlmClient, TLAPS

USE DEF Usable, Accepted, Stored, LastAttempt, Rested

\* Where a caller is in the retry loop, and what it has spent by then.
SpentInv ==
    \A c \in Caller :
        /\ pc[c] = "idle" =>
              calls[c] = 0 /\ slept[c] = {} /\ attempt[c] = 0 /\ before[c] = {}
        /\ pc[c] = "calling" =>
              calls[c] = attempt[c] + 1 /\ slept[c] = 0..attempt[c] - 1
        /\ pc[c] = "sleeping" =>
              /\ calls[c] = attempt[c] + 1 /\ slept[c] = 0..attempt[c]
              /\ attempt[c] < Retries

\* A caller whose call went out had a lookup its schema rejected.
MissedInv ==
    \A c \in Caller :
        pc[c] \in {"calling", "sleeping"} => ~Fits(c, seen[c])

\* Once a caller is answered by a record on a line of its own, and no other
\* schema uses its key, get() answers a text that fits its schema until the
\* file is cleared, and will do so without the unterminated line, if any.
KeptInv ==
    \A d \in lasting : OneSchema(d) =>
        Fits(d, cache[req[d].key]) /\ Fits(d, kept[req[d].key])

IInv ==
    /\ TypeOK
    /\ SpentInv
    /\ RetryBudget
    /\ MissedInv
    /\ AnswerFitsSchema
    /\ KeptInv
    /\ RepeatIsFree

\* Nothing fits what is not a text.
LEMMA NoTextFits == \A c : ~Fits(c, NoText)
BY ConstantsAssumption DEF Fits

LEMMA InitInv == Init => IInv
<1> SUFFICES ASSUME Init PROVE IInv OBVIOUS
<1> USE ConstantsAssumption DEF Init
<1>1. TypeOK
  <2>1. /\ kept \in [Key -> Text \cup {NoText}]
        /\ torn \in BOOLEAN /\ readable \in BOOLEAN
    BY DEF File!Init
  <2>2. cache \in [Key -> Text \cup {NoText}]
    BY <2>1 DEF File!Init, File!Unterminated
  <2> QED BY <2>1, <2>2 DEF TypeOK, Ended
<1>2. Answered = {} BY DEF Answered
<1>3. SpentInv /\ RetryBudget /\ MissedInv /\ RepeatIsFree
  BY DEF SpentInv, RetryBudget, MissedInv, RepeatIsFree, File!Init
<1> QED BY <1>1, <1>2, <1>3 DEF IInv, AnswerFitsSchema, KeptInv

----------------------------------------------------------------------------
(* What one put, returning or raising, makes of the cache file. *)

LEMMA PutStep ==
    ASSUME TypeOK, NEW k \in Key, NEW v \in Text,
           File!Put(k, v) \/ File!PutRaises(k, v)
    PROVE  /\ cache' \in [Key -> Text \cup {NoText}]
           /\ kept' \in [Key -> Text \cup {NoText}]
           /\ torn' \in BOOLEAN /\ readable' \in BOOLEAN
           /\ \A j \in Key : j # k =>
                 cache'[j] \in {cache[j], kept[j]} /\ kept'[j] = kept[j]
           /\ \/ cache'[k] \in {cache[k], kept[k]} /\ kept'[k] = kept[k]
              \/ cache'[k] = v /\ kept'[k] \in {kept[k], v}
<1>1. CASE File!Untouched BY <1>1 DEF File!Untouched, TypeOK
<1>2. CASE File!TornPut(k, v)
  BY <1>2 DEF File!TornPut, File!Unterminated, TypeOK
<1>3. CASE File!Put(k, v) BY <1>3 DEF File!Put, TypeOK
<1> QED BY <1>1, <1>2, <1>3 DEF File!PutRaises

----------------------------------------------------------------------------
(* One lemma per conjunct, one step per action. *)

LEMMA TypeStep == IInv /\ [Next]_vars => TypeOK'
<1> SUFFICES ASSUME IInv, [Next]_vars PROVE TypeOK' OBVIOUS
<1> USE ConstantsAssumption DEF IInv, TypeOK, Ended
<1>0. \A c \in Caller : req[c].key \in Key
  BY DEF Request
<1>1. ASSUME NEW c \in Caller, Hit(c) PROVE TypeOK'
  BY <1>0, <1>1, NoTextFits DEF Hit, Lookup, Returns, File!Untouched
<1>2. ASSUME NEW c \in Caller, Miss(c) PROVE TypeOK'
  <2>1. /\ seen' \in [Caller -> Text \cup {NoText}]
        /\ before' \in [Caller -> SUBSET Caller]
    BY <1>0, <1>2 DEF Miss, Lookup
  <2>2. CASE backend = "none"
    BY <1>2, <2>1, <2>2 DEF Miss, Lookup, File!Untouched
  <2>3. CASE backend # "none"
    <3>1. calls[c] + 1 \in 0..Retries + 1
      BY <1>2 DEF Miss, Lookup, SpentInv
    <3> QED BY <1>2, <2>1, <2>3, <3>1 DEF Miss, Lookup, File!Untouched
  <2> QED BY <2>2, <2>3
<1>3. ASSUME NEW c \in Caller, LookupRaises(c) PROVE TypeOK'
  BY <1>3 DEF LookupRaises, Fault, File!Untouched
<1>4. ASSUME NEW c \in Caller, NEW t \in Text, Accept(c, t) PROVE TypeOK'
  <2>1. File!Put(req[c].key, t) BY <1>4 DEF Accept
  <2>2. /\ cache' \in [Key -> Text \cup {NoText}]
        /\ kept' \in [Key -> Text \cup {NoText}]
        /\ torn' \in BOOLEAN /\ readable' \in BOOLEAN
    BY <1>0, <2>1, PutStep
  <2>3. glued' \in 0..MaxFaults
    BY <1>4 DEF Accept, RepeatIsFree
  <2> QED BY <1>4, <2>2, <2>3 DEF Accept, Returns
<1>5. ASSUME NEW c \in Caller, NEW t \in Text, AcceptRaises(c, t) PROVE TypeOK'
  <2>1. File!PutRaises(req[c].key, t) BY <1>5 DEF AcceptRaises
  <2>2. /\ cache' \in [Key -> Text \cup {NoText}]
        /\ kept' \in [Key -> Text \cup {NoText}]
        /\ torn' \in BOOLEAN /\ readable' \in BOOLEAN
    BY <1>0, <2>1, PutStep
  <2> QED BY <1>5, <2>2 DEF AcceptRaises, Fault
<1>6. ASSUME NEW c \in Caller, AttemptFails(c) PROVE TypeOK'
  BY <1>6 DEF AttemptFails, File!Untouched
<1>7. ASSUME NEW c \in Caller, Wake(c) PROVE TypeOK'
  BY <1>7 DEF Wake, SpentInv, File!Untouched
<1>8. ASSUME NEW c \in Caller, Cancel(c) PROVE TypeOK'
  BY <1>8 DEF Cancel, File!Untouched
<1>9. CASE Clear BY <1>9 DEF Clear, File!Clear
<1>10. CASE UNCHANGED vars BY <1>10 DEF vars
<1> QED
  BY <1>1, <1>2, <1>3, <1>4, <1>5, <1>6, <1>7, <1>8, <1>9, <1>10
  DEF Next, Begin, Settle, Reject, CallFails

LEMMA SpentStep == IInv /\ [Next]_vars => SpentInv'
<1> SUFFICES ASSUME IInv, [Next]_vars PROVE SpentInv' OBVIOUS
<1> USE ConstantsAssumption DEF IInv, TypeOK, SpentInv
<1>1. ASSUME NEW c \in Caller, Hit(c) PROVE SpentInv'
  BY <1>1 DEF Hit, Lookup, Returns
<1>2. ASSUME NEW c \in Caller, Miss(c) PROVE SpentInv'
  <2>1. CASE backend = "none" BY <1>2, <2>1 DEF Miss, Lookup
  <2>2. CASE backend # "none"
    <3>1. /\ pc' = [pc EXCEPT ![c] = "calling"]
          /\ calls' = [calls EXCEPT ![c] = @ + 1]
          /\ pc[c] = "idle" /\ before' = [before EXCEPT ![c] = lasting]
          /\ UNCHANGED <<attempt, slept>>
      BY <1>2, <2>2 DEF Miss, Lookup
    <3>2. calls'[c] = attempt'[c] + 1 /\ slept'[c] = 0..attempt'[c] - 1
      <4>1. calls'[c] = 1 /\ attempt'[c] = 0 /\ slept'[c] = {} BY <3>1
      <4>2. 0..0 - 1 = {} OBVIOUS
      <4> QED BY <4>1, <4>2
    <3> QED BY <3>1, <3>2
  <2> QED BY <2>1, <2>2
<1>3. ASSUME NEW c \in Caller, LookupRaises(c) PROVE SpentInv'
  BY <1>3 DEF LookupRaises
<1>4. ASSUME NEW c \in Caller, NEW t \in Text,
             Accept(c, t) \/ AcceptRaises(c, t)
      PROVE  SpentInv'
  BY <1>4 DEF Accept, AcceptRaises, Returns
<1>5. ASSUME NEW c \in Caller, AttemptFails(c) PROVE SpentInv'
  <2>1. CASE ~LastAttempt(c)
    <3>1. (0..attempt[c] - 1) \cup {attempt[c]} = 0..attempt[c] OBVIOUS
    <3>2. slept'[c] = 0..attempt[c]
      BY <1>5, <2>1, <3>1 DEF AttemptFails
    <3> QED BY <1>5, <2>1, <3>2 DEF AttemptFails
  <2>2. CASE LastAttempt(c) BY <1>5, <2>2 DEF AttemptFails
  <2> QED BY <2>1, <2>2
<1>6. ASSUME NEW c \in Caller, Wake(c) PROVE SpentInv'
  <2>1. attempt'[c] = attempt[c] + 1 /\ calls'[c] = calls[c] + 1
    BY <1>6 DEF Wake
  <2>2. 0..attempt'[c] - 1 = 0..attempt[c] BY <2>1
  <2> QED BY <1>6, <2>1, <2>2 DEF Wake
<1>7. ASSUME NEW c \in Caller, Cancel(c) PROVE SpentInv'
  BY <1>7 DEF Cancel
<1>8. CASE Clear \/ UNCHANGED vars BY <1>8 DEF Clear, vars
<1> QED
  BY <1>1, <1>2, <1>3, <1>4, <1>5, <1>6, <1>7, <1>8
  DEF Next, Begin, Settle, Reject, CallFails

LEMMA BudgetStep == IInv /\ [Next]_vars => RetryBudget'
<1> SUFFICES ASSUME IInv, [Next]_vars PROVE RetryBudget' OBVIOUS
<1> USE ConstantsAssumption DEF IInv, TypeOK, RetryBudget
<1>1. ASSUME NEW c \in Caller, Hit(c) \/ LookupRaises(c) \/ Cancel(c)
      PROVE  RetryBudget'
  BY <1>1 DEF Hit, Lookup, Returns, LookupRaises, Cancel
<1>2. ASSUME NEW c \in Caller, Miss(c) PROVE RetryBudget'
  <2>1. calls[c] = 0 /\ slept[c] = {} /\ pc[c] = "idle"
    BY <1>2 DEF Miss, Lookup, SpentInv
  <2>2. CASE backend = "none" BY <1>2, <2>1, <2>2 DEF Miss
  <2>3. CASE backend # "none"
    <3>1. /\ pc' = [pc EXCEPT ![c] = "calling"] /\ slept' = slept
          /\ calls' = [calls EXCEPT ![c] = @ + 1] /\ backend' = "ready"
      BY <1>2, <2>3 DEF Miss
    <3>2. ASSUME NEW d \in Caller, d # c PROVE calls'[d] = calls[d] /\ pc'[d] = pc[d]
      BY <3>1, <3>2
    <3>3. calls'[c] = 1 /\ slept'[c] = {} /\ pc'[c] = "calling"
      BY <2>1, <3>1
    <3>4. ASSUME NEW d \in Caller, pc'[d] = "failed", calls'[d] = 0
          PROVE  FALSE
      <4>1. d # c BY <3>3, <3>4
      <4>2. calls[d] = 0 /\ pc[d] = "failed" BY <3>2, <3>4, <4>1
      <4> QED BY <2>3, <4>2
    <3> QED BY <3>1, <3>2, <3>3, <3>4
  <2> QED BY <2>2, <2>3
<1>3. ASSUME NEW c \in Caller, NEW t \in Text,
             Accept(c, t) \/ AcceptRaises(c, t)
      PROVE  RetryBudget'
  BY <1>3 DEF Accept, AcceptRaises, Returns
<1>4. ASSUME NEW c \in Caller, AttemptFails(c) PROVE RetryBudget'
  <2>1. calls[c] = attempt[c] + 1 /\ slept[c] = 0..attempt[c] - 1
    BY <1>4 DEF AttemptFails, SpentInv
  <2>2. calls[c] # 0 BY <2>1
  <2>3. CASE ~LastAttempt(c) BY <1>4, <2>2, <2>3 DEF AttemptFails
  <2>4. CASE LastAttempt(c)
    <3>1. attempt[c] = Retries BY <2>4
    <3> QED BY <1>4, <2>1, <2>4, <3>1 DEF AttemptFails
  <2> QED BY <2>3, <2>4
<1>5. ASSUME NEW c \in Caller, Wake(c) PROVE RetryBudget'
  BY <1>5 DEF Wake, SpentInv
<1>6. CASE Clear \/ UNCHANGED vars BY <1>6 DEF Clear, vars
<1> QED
  BY <1>1, <1>2, <1>3, <1>4, <1>5, <1>6
  DEF Next, Begin, Settle, Reject, CallFails

LEMMA MissedStep == IInv /\ [Next]_vars => MissedInv'
<1> SUFFICES ASSUME IInv, [Next]_vars PROVE MissedInv' OBVIOUS
<1> USE DEF IInv, TypeOK, MissedInv, Fits
<1>1. ASSUME NEW c \in Caller, Hit(c) PROVE MissedInv'
  BY <1>1 DEF Hit, Lookup, Returns
<1>2. ASSUME NEW c \in Caller, Miss(c) PROVE MissedInv'
  <2>1. /\ seen' = [seen EXCEPT ![c] = cache[req[c].key]]
        /\ req' = req /\ ~Fits(c, cache[req[c].key])
        /\ \A d \in Caller : d # c => pc'[d] = pc[d]
    BY <1>2 DEF Miss, Lookup
  <2> QED BY <2>1
<1>3. ASSUME NEW c \in Caller, LookupRaises(c) PROVE MissedInv'
  BY <1>3 DEF LookupRaises
<1>4. ASSUME NEW c \in Caller, NEW t \in Text,
             Accept(c, t) \/ AcceptRaises(c, t)
      PROVE  MissedInv'
  BY <1>4 DEF Accept, AcceptRaises, Returns
<1>5. ASSUME NEW c \in Caller, AttemptFails(c) PROVE MissedInv'
  BY <1>5 DEF AttemptFails
<1>6. ASSUME NEW c \in Caller, Wake(c) \/ Cancel(c) PROVE MissedInv'
  BY <1>6 DEF Wake, Cancel
<1>7. CASE Clear \/ UNCHANGED vars BY <1>7 DEF Clear, vars
<1> QED
  BY <1>1, <1>2, <1>3, <1>4, <1>5, <1>6, <1>7
  DEF Next, Begin, Settle, Reject, CallFails

\* Who asked for what never changes, and only a hit or an accepted answer
\* makes a caller answered, with a text that fits; it then lasts if the record
\* that fits it stands on a line of its own.
LEMMA AnsweredStep ==
    ASSUME IInv, [Next]_vars
    PROVE  /\ req' = req
           /\ \A d \in Answered : d \in Answered' /\ value'[d] = value[d]
           /\ \A d \in Answered' : d \notin Answered => Fits(d, value'[d])
           /\ \A d \in lasting' : d \notin lasting =>
                 Fits(d, cache'[req[d].key]) /\ Fits(d, kept'[req[d].key])
<1> USE DEF IInv, TypeOK, Answered
<1>1. ASSUME NEW c \in Caller, Hit(c) \/ \E t \in Text : Accept(c, t)
      PROVE  /\ req' = req
             /\ pc[c] # "ok" /\ pc' = [pc EXCEPT ![c] = "ok"]
             /\ \A d \in Caller : d # c => value'[d] = value[d]
             /\ Fits(c, value'[c])
             /\ Fits(c, cache'[req[c].key]) \/ cache' = kept'
             /\ lasting' = IF Fits(c, kept'[req[c].key])
                              THEN lasting \cup {c} ELSE lasting
  <2>1. CASE Hit(c)
    BY <2>1 DEF Hit, Lookup, Returns, Request, File!Untouched
  <2>2. ASSUME NEW t \in Text, Accept(c, t)
        PROVE  /\ req' = req
               /\ pc[c] # "ok" /\ pc' = [pc EXCEPT ![c] = "ok"]
               /\ \A d \in Caller : d # c => value'[d] = value[d]
               /\ Fits(c, value'[c]) /\ cache' = kept'
               /\ lasting' = IF Fits(c, kept'[req[c].key])
                              THEN lasting \cup {c} ELSE lasting
    BY <2>2 DEF Accept, Returns, File!Put
  <2> QED BY <1>1, <2>1, <2>2
<1>2. ASSUME NEW c \in Caller,
             \/ Miss(c) \/ LookupRaises(c) \/ AttemptFails(c)
             \/ Wake(c) \/ Cancel(c) \/ \E t \in Text : AcceptRaises(c, t)
      PROVE  /\ req' = req /\ value' = value /\ lasting' = lasting
             /\ pc[c] # "ok" /\ pc'[c] # "ok"
             /\ \A d \in Caller : d # c => pc'[d] = pc[d]
  BY <1>2
  DEF Miss, Lookup, LookupRaises, AttemptFails, Wake, Cancel, AcceptRaises
<1>3. ASSUME NEW c \in Caller, Hit(c) \/ \E t \in Text : Accept(c, t)
      PROVE  /\ req' = req
             /\ \A d \in Answered : d \in Answered' /\ value'[d] = value[d]
             /\ \A d \in Answered' : d \notin Answered => Fits(d, value'[d])
             /\ \A d \in lasting' : d \notin lasting =>
                   Fits(d, cache'[req[d].key]) /\ Fits(d, kept'[req[d].key])
  BY <1>1, <1>3
<1>4. ASSUME NEW c \in Caller,
             \/ Miss(c) \/ LookupRaises(c) \/ AttemptFails(c)
             \/ Wake(c) \/ Cancel(c) \/ \E t \in Text : AcceptRaises(c, t)
      PROVE  req' = req /\ value' = value /\ Answered' = Answered /\ lasting' = lasting
  BY <1>2, <1>4
<1>5. CASE Clear BY <1>5 DEF Clear
<1>6. CASE UNCHANGED vars BY <1>6 DEF vars
<1> QED BY <1>3, <1>4, <1>5, <1>6 DEF Next, Begin, Settle, Reject, CallFails

\* Whatever happens to the file, a key's record stays, gives way to the one
\* on a finished line, or to a text that fits the caller that gets it; or
\* everything is cleared.
LEMMA CacheStep ==
    ASSUME IInv, [Next]_vars, NEW k \in Key
    PROVE  \/ cache'[k] \in {cache[k], kept[k]} /\ kept'[k] = kept[k]
           \/ /\ \A j \in Key : cache'[j] = NoText
              /\ lasting' = {}
           \/ /\ kept'[k] \in {kept[k], cache'[k]}
              /\ \E c \in Caller :
                    /\ pc[c] = "calling" /\ pc'[c] # pc[c]
                    /\ req[c].key = k
                    /\ Fits(c, cache'[k])
                    /\ \/ pc'[c] = "ok" /\ value'[c] = cache'[k]
                       \/ pc'[c] = "raised" /\ faults' > faults
<1> USE ConstantsAssumption DEF IInv, TypeOK
<1>1. CASE Clear BY <1>1 DEF Clear, File!Clear
<1>2. ASSUME NEW c \in Caller, NEW t \in Text, Accept(c, t) \/ AcceptRaises(c, t)
      PROVE  \/ cache'[k] \in {cache[k], kept[k]} /\ kept'[k] = kept[k]
             \/ /\ kept'[k] \in {kept[k], cache'[k]}
                /\ pc[c] = "calling" /\ pc'[c] # pc[c]
                /\ req[c].key = k
                /\ Fits(c, cache'[k])
                /\ \/ pc'[c] = "ok" /\ value'[c] = cache'[k]
                   \/ pc'[c] = "raised" /\ faults' > faults
  <2>1. /\ pc[c] = "calling" /\ Fits(c, t)
        /\ \/ pc' = [pc EXCEPT ![c] = "ok"] /\ value' = [value EXCEPT ![c] = t]
           \/ pc' = [pc EXCEPT ![c] = "raised"] /\ faults' = faults + 1
    BY <1>2 DEF Accept, AcceptRaises, Returns, Fault
  <2>2. File!Put(req[c].key, t) \/ File!PutRaises(req[c].key, t)
    BY <1>2 DEF Accept, AcceptRaises
  <2>3. req[c].key \in Key BY DEF Request
  <2>4. /\ k # req[c].key => cache'[k] \in {cache[k], kept[k]} /\ kept'[k] = kept[k]
        /\ k = req[c].key =>
              \/ cache'[k] \in {cache[k], kept[k]} /\ kept'[k] = kept[k]
              \/ cache'[k] = t /\ kept'[k] \in {kept[k], t}
    <3> USE <2>2, <2>3
    <3> QED BY PutStep
  <2> QED BY <2>1, <2>4
<1>3. \A c \in Caller :
         Hit(c) \/ Miss(c) \/ LookupRaises(c) \/ AttemptFails(c)
         \/ Wake(c) \/ Cancel(c) => cache' = cache /\ kept' = kept
  BY DEF Hit, Miss, LookupRaises, AttemptFails, Wake, Cancel, File!Untouched
<1>4. UNCHANGED vars => cache' = cache /\ kept' = kept BY DEF vars
<1> QED BY <1>1, <1>2, <1>3, <1>4 DEF Next, Begin, Settle, Reject, CallFails

LEMMA FitsStep == IInv /\ [Next]_vars => AnswerFitsSchema'
BY AnsweredStep DEF IInv, AnswerFitsSchema, Fits

LEMMA KeptStep == IInv /\ [Next]_vars => KeptInv'
<1> SUFFICES ASSUME IInv, [Next]_vars, NEW d \in lasting', OneSchema(d)'
             PROVE  (Fits(d, cache[req[d].key]) /\ Fits(d, kept[req[d].key]))'
  BY DEF KeptInv
<1>1. req' = req BY AnsweredStep
<1>2. CASE d \notin lasting
  <2>1. Fits(d, cache'[req[d].key]) /\ Fits(d, kept'[req[d].key])
    BY <1>2, AnsweredStep
  <2> QED BY <1>1, <2>1 DEF Fits
<1>3. CASE d \in lasting
  <2>1. d \in Caller /\ req[d].key \in Key /\ OneSchema(d)
    BY <1>1, <1>3 DEF IInv, TypeOK, Request, OneSchema
  <2>2. Fits(d, cache[req[d].key]) /\ Fits(d, kept[req[d].key])
    BY <1>3, <2>1 DEF IInv, KeptInv
  <2>3. ASSUME NEW c \in Caller, req[c].key = req[d].key,
               Fits(c, cache'[req[d].key])
        PROVE  Fits(d, cache'[req[d].key])
    BY <2>1, <2>3 DEF OneSchema, Fits
  <2>4. Fits(d, cache'[req[d].key]) /\ Fits(d, kept'[req[d].key])
    BY <2>1, <2>2, <2>3, CacheStep
  <2> QED BY <1>1, <2>4 DEF Fits
<1> QED BY <1>2, <1>3

LEMMA FreeStep ==
    ASSUME IInv, [Next]_vars, NEW c \in Caller, NEW d \in Caller,
           d \in before'[c], req'[c] = req'[d], OneSchema(c)'
    PROVE  calls'[c] = 0
<1>1. req' = req /\ req[c] = req[d] /\ OneSchema(c) /\ OneSchema(d)
  BY AnsweredStep DEF OneSchema
<1> USE DEF IInv, TypeOK
<1>2. CASE pc[c] = "idle"
  <2>1. calls[c] = 0 /\ before[c] = {} BY <1>2 DEF SpentInv
  <2>2. ASSUME Miss(c) PROVE FALSE
    <3>1. d \in lasting BY <2>2 DEF Miss, Lookup
    <3>2. Fits(d, cache[req[d].key]) BY <1>1, <3>1 DEF KeptInv
    <3>3. Fits(c, cache[req[c].key]) BY <1>1, <3>2 DEF Fits
    <3> QED BY <2>2, <3>3 DEF Miss
  <2>3. calls'[c] = calls[c]
    <3>1. ASSUME NEW e \in Caller, e # c,
                 \/ Miss(e) \/ Wake(e) \/ Hit(e) \/ LookupRaises(e)
                 \/ AttemptFails(e) \/ Cancel(e)
                 \/ \E t \in Text : Accept(e, t) \/ AcceptRaises(e, t)
          PROVE  calls'[c] = calls[c]
      BY <3>1 DEF Miss, Wake, Hit, LookupRaises, AttemptFails, Cancel,
                  Accept, AcceptRaises
    <3>2. ASSUME Hit(c) \/ LookupRaises(c) PROVE calls'[c] = calls[c]
      BY <3>2 DEF Hit, LookupRaises
    <3>3. /\ ~Wake(c) /\ ~AttemptFails(c) /\ ~Cancel(c)
          /\ \A t \in Text : ~Accept(c, t) /\ ~AcceptRaises(c, t)
      BY <1>2 DEF Wake, AttemptFails, Cancel, Accept, AcceptRaises
    <3>4. Clear \/ UNCHANGED vars => calls' = calls BY DEF Clear, vars
    <3> QED BY <2>2, <3>1, <3>2, <3>3, <3>4
            DEF Next, Begin, Settle, Reject, CallFails
  <2> QED BY <2>1, <2>3
<1>3. CASE pc[c] # "idle"
  <2>1. before'[c] = before[c] /\ (calls'[c] = calls[c] \/ pc[c] = "sleeping")
    <3>1. ASSUME NEW e \in Caller, Miss(e) \/ Hit(e)
          PROVE  before'[c] = before[c] /\ calls'[c] = calls[c]
      BY <1>3, <3>1 DEF Miss, Hit, Lookup
    <3>2. ASSUME NEW e \in Caller, Wake(e)
          PROVE  /\ before'[c] = before[c]
                 /\ calls'[c] = calls[c] \/ pc[c] = "sleeping"
      BY <3>2 DEF Wake
    <3>3. ASSUME NEW e \in Caller,
                 \/ LookupRaises(e) \/ AttemptFails(e) \/ Cancel(e)
                 \/ \E t \in Text : Accept(e, t) \/ AcceptRaises(e, t)
          PROVE  before'[c] = before[c] /\ calls'[c] = calls[c]
      BY <3>3 DEF LookupRaises, AttemptFails, Cancel, Accept, AcceptRaises
    <3>4. CASE Clear \/ UNCHANGED vars BY <3>4 DEF Clear, vars
    <3> QED BY <3>1, <3>2, <3>3, <3>4
            DEF Next, Begin, Settle, Reject, CallFails
  <2>2. calls[c] = 0 BY <1>1, <2>1 DEF RepeatIsFree
  <2>3. pc[c] # "sleeping" BY <2>2, ConstantsAssumption DEF SpentInv
  <2> QED BY <2>1, <2>2, <2>3
<1> QED BY <1>2, <1>3

\* Each write that failed leaves at most one unterminated line, and a line at
\* most one record that is lost with it.
LEMMA GluedStep ==
    ASSUME IInv, [Next]_vars
    PROVE  glued' + (IF torn' THEN 1 ELSE 0) <= faults'
<1>0. /\ glued \in Nat /\ faults \in Nat
      /\ torn \in BOOLEAN
      /\ glued + (IF torn THEN 1 ELSE 0) <= faults
  BY ConstantsAssumption DEF IInv, TypeOK, RepeatIsFree
<1>1. ASSUME NEW c \in Caller, NEW t \in Text, Accept(c, t)
      PROVE  glued' + (IF torn' THEN 1 ELSE 0) <= faults'
  <2>1. torn' = FALSE BY <1>1 DEF Accept, File!Put
  <2> QED BY <1>0, <1>1, <2>1 DEF Accept
<1>2. ASSUME NEW c \in Caller, NEW t \in Text, AcceptRaises(c, t)
      PROVE  glued' + (IF torn' THEN 1 ELSE 0) <= faults'
  BY <1>0, <1>2 DEF AcceptRaises, Fault
<1>3. CASE Clear
  <2>1. torn' = FALSE BY <1>3 DEF Clear, File!Clear
  <2> QED BY <1>0, <1>3, <2>1 DEF Clear
<1>4. ASSUME NEW c \in Caller, LookupRaises(c)
      PROVE  glued' + (IF torn' THEN 1 ELSE 0) <= faults'
  BY <1>0, <1>4 DEF LookupRaises, Fault, File!Untouched
<1>5. ASSUME NEW c \in Caller,
             Hit(c) \/ Miss(c) \/ AttemptFails(c) \/ Wake(c) \/ Cancel(c)
      PROVE  glued' = glued /\ torn' = torn /\ faults' = faults
  BY <1>5 DEF Hit, Miss, Lookup, AttemptFails, Wake, Cancel, File!Untouched
<1>6. UNCHANGED vars => glued' = glued /\ torn' = torn /\ faults' = faults
  BY DEF vars
<1> QED BY <1>0, <1>1, <1>2, <1>3, <1>4, <1>5, <1>6
        DEF Next, Begin, Settle, Reject, CallFails

LEMMA RepeatStep == IInv /\ [Next]_vars => RepeatIsFree'
BY FreeStep, GluedStep DEF RepeatIsFree

----------------------------------------------------------------------------
(* Theorems. *)

\* The conjunction is an invariant of every behaviour.
LEMMA Invariance == Spec => []IInv
<1>1. IInv /\ [Next]_vars => IInv'
  BY TypeStep, SpentStep, BudgetStep, MissedStep, FitsStep, KeptStep,
     RepeatStep
  DEF IInv
<1> QED BY InitInv, <1>1, PTL DEF Spec

\* Every caller, cache record and counter keeps its type; in particular no
\* caller is ever past its last attempt.
THEOREM TypeCorrect == Spec => []TypeOK
<1>1. IInv => TypeOK BY DEF IInv
<1> QED BY <1>1, Invariance, PTL

\* Whatever the cache held and however the callers interleave, an answer
\* post-processes under the schema of the caller that gets it.
THEOREM AnswersFit == Spec => []AnswerFitsSchema
<1>1. IInv => AnswerFitsSchema BY DEF IInv
<1> QED BY <1>1, Invariance, PTL

\* A caller that gives up has spent exactly its budget: Retries + 1 calls and
\* every back-off delay before the last of them.
THEOREM BudgetIsExact == Spec => []RetryBudget
<1>1. IInv => RetryBudget BY DEF IInv
<1> QED BY <1>1, Invariance, PTL

\* A request that repeats an answered one makes no backend call, for any
\* number of other callers, failed puts and cancellations in between, unless
\* the file was cleared or the record was on a line that a failed write left
\* without its newline, which happens to one put per such line.
THEOREM RepeatsAreFree == Spec => []RepeatIsFree
<1>1. IInv => RepeatIsFree BY DEF IInv
<1> QED BY <1>1, Invariance, PTL

\* What get() comes to answer is an accepted answer in the hands of the caller
\* that got it, or what the finished lines hold, or nothing.
THEOREM CachedIsAccepted == Spec => OnlyAnswersAreCached
<1> DEFINE FromACaller ==
        \A k \in Key :
          cache'[k] \notin {cache[k], kept[k], NoText} =>
             \E c \in Caller :
                /\ pc[c] = "calling"
                /\ req[c].key = k
                /\ Fits(c, cache'[k])
                /\ \/ pc'[c] = "ok" /\ value'[c] = cache'[k]
                   \/ pc'[c] = "raised" /\ faults' > faults
<1>1. IInv /\ [Next]_vars => FromACaller
  <2> SUFFICES ASSUME IInv, [Next]_vars, NEW k \in Key,
                      cache'[k] \notin {cache[k], kept[k], NoText}
               PROVE  \E c \in Caller :
                         /\ pc[c] = "calling"
                         /\ req[c].key = k
                         /\ Fits(c, cache'[k])
                         /\ \/ pc'[c] = "ok" /\ value'[c] = cache'[k]
                            \/ pc'[c] = "raised" /\ faults' > faults
    OBVIOUS
  <2> QED BY CacheStep
<1> QED BY <1>1, Invariance, PTL DEF Spec, OnlyAnswersAreCached

\* A record on a line of its own gives way only to a caller that looked before
\* it was there, or whose schema rejects it, or to clear().
THEOREM ShadowingIsARace == Spec => ShadowedOnlyByARace
<1> DEFINE Raced ==
        \A k \in Key :
          cache[k] = kept[k] /\ cache'[k] # cache[k] =>
             \/ \A j \in Key : cache'[j] = NoText
             \/ \E c \in Caller :
                   /\ pc[c] # pc'[c]
                   /\ req[c].key = k
                   /\ ~Fits(c, cache[k]) \/ seen[c] # cache[k]
<1>1. IInv /\ [Next]_vars => Raced
  <2> SUFFICES ASSUME IInv, [Next]_vars, NEW k \in Key,
                      cache[k] = kept[k], cache'[k] # cache[k],
                      ~ \A j \in Key : cache'[j] = NoText
               PROVE  \E c \in Caller :
                         /\ pc[c] # pc'[c]
                         /\ req[c].key = k
                         /\ ~Fits(c, cache[k]) \/ seen[c] # cache[k]
    OBVIOUS
  <2>1. PICK c \in Caller :
           pc[c] = "calling" /\ pc'[c] # pc[c] /\ req[c].key = k
    BY CacheStep
  <2>2. ~Fits(c, seen[c]) BY <2>1 DEF IInv, MissedInv
  <2> QED BY <2>1, <2>2
<1> QED BY <1>1, Invariance, PTL DEF Spec, ShadowedOnlyByARace
=============================================================================
