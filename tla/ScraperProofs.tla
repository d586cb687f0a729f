--------------------------- MODULE ScraperProofs ----------------------------
(***************************************************************************)
(* Proofs about Scraper, for every number of batches, slots, URLs, permits   *)
(* and faults: permits are conserved, settled records stay, only a race       *)
(* replaces a record that would be served, and only an exception leaves tasks *)
(* behind.                                                                   *)
(***************************************************************************)
EXTENDS Scraper, FiniteSetTheorems, TLAPS

USE DEF Gathered, Cancelled, Admitted, Storable, Lookup

\* A task past its lookup found nothing it could serve.
MissedInv ==
    \A j \in Job :
        job[j] \in {"waiting"} \cup InFlight => seen[j] \in {NoPage, "empty"}

IInv ==
    /\ TypeOK
    /\ PermitsConserved
    /\ MissedInv

\* The requests of a batch are finitely many.
LEMMA FiniteRequests ==
    ASSUME NEW b \in Batch
    PROVE  IsFiniteSet(Jobs(b)) /\ IsFiniteSet(Requests(b))
<1>1. IsFiniteSet({b} \X Slot)
  BY FS_Singleton, FS_Product, ConstantsAssumption
<1>2. Jobs(b) = {b} \X Slot BY DEF Jobs, Job
<1> QED BY <1>1, <1>2, FS_Subset DEF Requests

\* A step that leaves a batch's requests and its permits alone conserves them.
LEMMA Conserved ==
    ASSUME IInv, NEW b \in Batch, Requests(b)' = Requests(b), permits'[b] = permits[b]
    PROVE  permits'[b] + Cardinality(Requests(b)') = Concurrency
BY DEF IInv, PermitsConserved

LEMMA InitInv == Init => IInv
<1> SUFFICES ASSUME Init PROVE IInv OBVIOUS
<1> USE ConstantsAssumption DEF Init
<1>1. TypeOK
  <2>1. /\ kept \in [Url -> CachedPage \cup {NoPage}]
        /\ torn \in BOOLEAN /\ readable \in BOOLEAN
    BY DEF File!Init
  <2>2. cache \in [Url -> CachedPage \cup {NoPage}]
    BY <2>1 DEF File!Init, File!Unterminated
  <2> QED BY <2>1, <2>2 DEF TypeOK, Unfinished, InFlight
<1>2. \A b \in Batch : Requests(b) = {}
  BY DEF Requests, Jobs, InFlight
<1>3. PermitsConserved BY <1>2, FS_EmptySet DEF PermitsConserved
<1>4. MissedInv BY DEF MissedInv
<1> QED BY <1>1, <1>3, <1>4 DEF IInv

\* A job belongs to its first component.
LEMMA JobType ==
    ASSUME NEW j \in Job
    PROVE  j[1] \in Batch /\ j \in Jobs(j[1]) /\ \A b \in Batch : j \in Jobs(b) => b = j[1]
BY DEF Job, Jobs

----------------------------------------------------------------------------
(* Permits. *)

\* A task that gets a permit takes one and adds one request.
LEMMA AcquireConserves ==
    ASSUME IInv, NEW j \in Job, Acquire(j) PROVE PermitsConserved'
<1> USE DEF IInv, TypeOK
<1> DEFINE a == j[1]
<1>1. /\ job[j] = "waiting" /\ permits[a] > 0
      /\ permits' = [permits EXCEPT ![a] = @ - 1]
      /\ \A i \in Job : i # j => job'[i] = job[i]
      /\ job'[j] \in InFlight
  BY DEF Acquire, InFlight
<1>2. ASSUME NEW b \in Batch, b # a
      PROVE  permits'[b] + Cardinality(Requests(b)') = Concurrency
  <2>1. Requests(b)' = Requests(b)
    BY <1>1, <1>2, JobType DEF Requests, Jobs
  <2> QED BY <1>1, <1>2, <2>1, Conserved
<1>3. permits'[a] + Cardinality(Requests(a)') = Concurrency
  <2>1. a \in Batch /\ j \in Jobs(a) BY JobType
  <2>2. j \notin Requests(a) BY <1>1 DEF Requests, InFlight
  <2>3. Requests(a)' = Requests(a) \cup {j}
    BY <1>1, <2>1 DEF Requests, Jobs
  <2>4. /\ Cardinality(Requests(a)') = Cardinality(Requests(a)) + 1
        /\ Cardinality(Requests(a)) \in Nat
    BY <2>1, <2>2, <2>3, FiniteRequests, FS_AddElement, FS_CardinalityType
  <2>5. permits'[a] = permits[a] - 1 /\ permits[a] \in Nat BY <1>1, <2>1
  <2> QED BY <2>1, <2>4, <2>5, ConstantsAssumption DEF PermitsConserved
<1> QED BY <1>2, <1>3 DEF PermitsConserved

\* A task that leaves the semaphore gives its permit back, whether its page
\* is stored, is not, or the store raises.
LEMMA ReleaseConserves ==
    ASSUME IInv, NEW j \in Job, job[j] \in InFlight, Release(j),
           NEW s \in {"done", "escaped"}, job' = [job EXCEPT ![j] = s]
    PROVE  PermitsConserved' /\ permits' \in [Batch -> 0..Concurrency]
<1> USE DEF IInv, TypeOK
<1> DEFINE a == j[1]
<1>1. /\ permits' = [permits EXCEPT ![a] = @ + 1]
      /\ \A i \in Job : i # j => job'[i] = job[i]
      /\ job'[j] \notin InFlight
  BY DEF Release, InFlight
<1>2. ASSUME NEW b \in Batch, b # a
      PROVE  permits'[b] + Cardinality(Requests(b)') = Concurrency
  <2>1. Requests(b)' = Requests(b)
    BY <1>1, <1>2, JobType DEF Requests, Jobs
  <2> QED BY <1>1, <1>2, <2>1, Conserved
<1>3. permits'[a] + Cardinality(Requests(a)') = Concurrency
  <2>1. a \in Batch /\ j \in Jobs(a) BY JobType
  <2>2. j \in Requests(a) BY <2>1 DEF Requests
  <2>3. Requests(a)' = Requests(a) \ {j}
    BY <1>1, <2>1 DEF Requests, Jobs
  <2>4. /\ Cardinality(Requests(a)') = Cardinality(Requests(a)) - 1
        /\ Cardinality(Requests(a)) \in Nat
    <3>1. IsFiniteSet(Requests(a)) /\ Cardinality(Requests(a)) \in Nat
      BY <2>1, FiniteRequests, FS_CardinalityType
    <3>2. Cardinality(Requests(a) \ {j}) = Cardinality(Requests(a)) - 1
      BY <2>2, <3>1, FS_RemoveElement
    <3> QED BY <2>3, <3>1, <3>2
  <2>5. permits'[a] = permits[a] + 1 /\ permits[a] \in Nat BY <1>1, <2>1
  <2> QED BY <2>1, <2>4, <2>5, ConstantsAssumption DEF PermitsConserved
<1>4. PermitsConserved' BY <1>2, <1>3 DEF PermitsConserved
<1>5. permits' \in [Batch -> 0..Concurrency]
  <2>1. a \in Batch BY JobType
  <2>2. Cardinality(Requests(a)') \in Nat
    <3>1. Requests(a)' \subseteq Jobs(a) BY DEF Requests, Jobs
    <3> QED BY <2>1, <3>1, FiniteRequests, FS_Subset, FS_CardinalityType
  <2>3. permits'[a] = permits[a] + 1 /\ permits[a] \in Nat BY <1>1, <2>1
  <2>4. permits'[a] \in 0..Concurrency
    BY <1>3, <2>2, <2>3, ConstantsAssumption
  <2> QED BY <1>1, <2>1, <2>4
<1> QED BY <1>4, <1>5

\* A step of a task that is not at the semaphore, before or after.
LEMMA QuietConserves ==
    ASSUME IInv, NEW j \in Job, permits' = permits, job[j] \notin InFlight,
           NEW s, s \notin InFlight, job' = [job EXCEPT ![j] = s]
    PROVE  PermitsConserved'
<1> USE DEF IInv, TypeOK
<1>1. \A i \in Job : job'[i] \in InFlight <=> job[i] \in InFlight OBVIOUS
<1>2. ASSUME NEW b \in Batch PROVE Requests(b)' = Requests(b)
  BY <1>1 DEF Requests, Jobs
<1> QED BY <1>2, Conserved DEF PermitsConserved

LEMMA PermitStep ==
    IInv /\ [Next]_vars => PermitsConserved' /\ permits' \in [Batch -> 0..Concurrency]
<1> SUFFICES ASSUME IInv, [Next]_vars
             PROVE  PermitsConserved' /\ permits' \in [Batch -> 0..Concurrency]
  OBVIOUS
<1> USE DEF IInv, TypeOK
<1>0. permits' = permits => permits' \in [Batch -> 0..Concurrency] OBVIOUS
<1>1. ASSUME NEW b \in Batch, Start(b) \/ Return(b) \/ Leave(b) PROVE PermitsConserved'
  <2>1. permits' = permits /\ job' = job BY <1>1 DEF Start, Return, Leave
  <2>2. \A a \in Batch : Requests(a)' = Requests(a) BY <2>1 DEF Requests, Jobs
  <2> QED BY <2>1, <2>2, Conserved DEF PermitsConserved
<1>2. ASSUME NEW b \in Batch, Cancel(b)
      PROVE  PermitsConserved' /\ permits' \in [Batch -> 0..Concurrency]
  <2>1. /\ permits' = [permits EXCEPT ![b] = Concurrency]
        /\ \A j \in Jobs(b) : job'[j] \notin InFlight
        /\ \A j \in Job : j \notin Jobs(b) => job'[j] = job[j]
    BY <1>2 DEF Cancel, Jobs, InFlight, Unfinished
  <2>2. Requests(b)' = {} BY <2>1 DEF Requests, Jobs
  <2>3. ASSUME NEW a \in Batch, a # b PROVE Requests(a)' = Requests(a)
    BY <2>1, <2>3, JobType DEF Requests, Jobs
  <2>4. ASSUME NEW a \in Batch
        PROVE  permits'[a] + Cardinality(Requests(a)') = Concurrency
    <3>1. CASE a = b
      <4>1. Requests(a)' = {} BY <2>2, <3>1
      <4>2. Cardinality(Requests(a)') = 0 BY <4>1, FS_EmptySet
      <4>3. permits'[a] = Concurrency BY <2>1, <3>1
      <4> QED BY <4>2, <4>3, ConstantsAssumption
    <3>2. CASE a # b BY <2>1, <2>3, <3>2, Conserved
    <3> QED BY <3>1, <3>2
  <2> QED BY <2>1, <2>4, ConstantsAssumption DEF PermitsConserved
<1>3. ASSUME NEW j \in Job, LookupHit(j) \/ LookupMiss(j) \/ LookupRaises(j)
      PROVE  PermitsConserved'
  <2>1. /\ permits' = permits /\ job[j] \notin InFlight
        /\ \E s \in {"done", "waiting", "escaped"} : job' = [job EXCEPT ![j] = s]
    BY <1>3 DEF LookupHit, LookupMiss, LookupRaises, Fresh, Escape, InFlight
  <2> QED BY <2>1, QuietConserves DEF InFlight
<1>4. ASSUME NEW j \in Job, Acquire(j)
      PROVE  PermitsConserved' /\ permits' \in [Batch -> 0..Concurrency]
  <2>1. permits' = [permits EXCEPT ![j[1]] = @ - 1] /\ permits[j[1]] > 0
    BY <1>4 DEF Acquire
  <2>2. j[1] \in Batch BY JobType
  <2>3. permits[j[1]] - 1 \in 0..Concurrency
    BY <2>1, <2>2, ConstantsAssumption
  <2> QED BY <1>4, <2>1, <2>2, <2>3, AcquireConserves
<1>5. ASSUME NEW j \in Job, NEW p \in Page, Finish(j, p) \/ StoreRaises(j, p)
      PROVE  PermitsConserved' /\ permits' \in [Batch -> 0..Concurrency]
  <2>1. /\ job[j] \in InFlight /\ Release(j)
        /\ \E s \in {"done", "escaped"} : job' = [job EXCEPT ![j] = s]
    BY <1>5 DEF Finish, StoreRaises, Outcome, Escape, InFlight
  <2> QED BY <2>1, ReleaseConserves
<1>6. ASSUME Clear \/ UNCHANGED vars PROVE PermitsConserved'
  <2>1. permits' = permits /\ job' = job BY <1>6 DEF Clear, vars
  <2>2. \A a \in Batch : Requests(a)' = Requests(a) BY <2>1 DEF Requests, Jobs
  <2> QED BY <2>1, <2>2, Conserved DEF PermitsConserved
<1>7. ASSUME NEW j \in Job, LookupHit(j) \/ LookupMiss(j) \/ LookupRaises(j)
      PROVE  permits' = permits
  BY <1>7 DEF LookupHit, LookupMiss, LookupRaises
<1>8. ASSUME NEW b \in Batch, Start(b) \/ Return(b) \/ Leave(b) PROVE permits' = permits
  BY <1>8 DEF Start, Return, Leave
<1>9. Clear \/ UNCHANGED vars => permits' = permits BY DEF Clear, vars
<1> QED
  BY <1>0, <1>1, <1>2, <1>3, <1>4, <1>5, <1>6, <1>7, <1>8, <1>9 DEF Next, Run, Respond

----------------------------------------------------------------------------
(* What one put, returning or raising, makes of the cache file. *)

LEMMA PutStep ==
    ASSUME TypeOK, NEW k \in Url, NEW v \in CachedPage,
           File!Put(k, v) \/ File!PutRaises(k, v)
    PROVE  /\ cache' \in [Url -> CachedPage \cup {NoPage}]
           /\ kept' \in [Url -> CachedPage \cup {NoPage}]
           /\ torn' \in BOOLEAN /\ readable' \in BOOLEAN
           /\ \A u \in Url : u # k => cache'[u] \in {cache[u], kept[u]} /\ kept'[u] = kept[u]
<1>1. CASE File!Untouched BY <1>1 DEF File!Untouched, TypeOK
<1>2. CASE File!TornPut(k, v)
  BY <1>2 DEF File!TornPut, File!Unterminated, TypeOK
<1>3. CASE File!Put(k, v) BY <1>3 DEF File!Put, TypeOK
<1> QED BY <1>1, <1>2, <1>3 DEF File!PutRaises

\* A task that ends its request puts its page, if it does, under its own URL.
LEMMA EndPuts ==
    ASSUME NEW j \in Job, NEW p \in Page, Finish(j, p) \/ StoreRaises(j, p)
    PROVE  \/ File!Untouched
           \/ p \in CachedPage /\ (File!Put(url[j], p) \/ File!PutRaises(url[j], p))
BY DEF Finish, StoreRaises, Page

----------------------------------------------------------------------------
(* Types and lookups. *)

LEMMA TypeStep == IInv /\ [Next]_vars => TypeOK'
<1> SUFFICES ASSUME IInv, [Next]_vars PROVE TypeOK' OBVIOUS
<1> USE DEF IInv, TypeOK, Unfinished, InFlight
<1> DEFINE FileTypes == /\ cache \in [Url -> CachedPage \cup {NoPage}]
                        /\ kept \in [Url -> CachedPage \cup {NoPage}]
                        /\ torn \in BOOLEAN /\ readable \in BOOLEAN
<1>0. permits' \in [Batch -> 0..Concurrency] BY PermitStep
<1>u. ASSUME File!Untouched PROVE FileTypes' BY <1>u DEF File!Untouched
<1>1. ASSUME NEW b \in Batch, Start(b) \/ Return(b) \/ Leave(b) \/ Cancel(b) PROVE TypeOK'
  <2>1. FileTypes' BY <1>1, <1>u DEF Start, Return, Leave, Cancel
  <2> QED BY <1>0, <1>1, <2>1 DEF Start, Return, Leave, Cancel
<1>2. ASSUME NEW j \in Job, LookupHit(j) PROVE TypeOK'
  <2>1. FileTypes' BY <1>2, <1>u DEF LookupHit
  <2> QED BY <1>0, <1>2, <2>1, ConstantsAssumption DEF LookupHit, Page
<1>3. ASSUME NEW j \in Job, LookupMiss(j) PROVE TypeOK'
  <2>1. FileTypes' BY <1>3, <1>u DEF LookupMiss
  <2> QED BY <1>0, <1>3, <2>1 DEF LookupMiss
<1>4. ASSUME NEW j \in Job, Escape(j), UNCHANGED seen, Fault \/ UNCHANGED faults, FileTypes'
      PROVE  TypeOK'
  <2>1. faults' \in 0..MaxFaults BY <1>4, ConstantsAssumption DEF Fault
  <2>2. batch' \in [Batch -> {"idle", "open", "returned", "leaving", "raised", "cancelled"}]
    BY <1>4 DEF Escape
  <2> QED BY <1>0, <1>4, <2>1, <2>2 DEF Escape
<1>5. ASSUME NEW j \in Job, LookupRaises(j) PROVE TypeOK'
  <2>1. FileTypes' BY <1>5, <1>u DEF LookupRaises
  <2> QED BY <1>4, <1>5, <2>1 DEF LookupRaises
<1>6. ASSUME NEW j \in Job, Acquire(j) PROVE TypeOK'
  <2>1. FileTypes' BY <1>6, <1>u DEF Acquire
  <2> QED BY <1>0, <1>6, <2>1 DEF Acquire
<1>7. ASSUME NEW j \in Job, NEW p \in Page, Finish(j, p) \/ StoreRaises(j, p) PROVE TypeOK'
  <2>1. FileTypes'
    <3>1. url[j] \in Url OBVIOUS
    <3>2. CASE File!Untouched BY <3>2, <1>u
    <3>3. CASE p \in CachedPage /\ (File!Put(url[j], p) \/ File!PutRaises(url[j], p))
      BY <3>1, <3>3, PutStep
    <3> QED BY <1>7, <3>2, <3>3, EndPuts
  <2>2. CASE Finish(j, p) BY <1>0, <2>1, <2>2 DEF Finish
  <2>3. CASE StoreRaises(j, p) BY <1>4, <2>1, <2>3 DEF StoreRaises
  <2> QED BY <1>7, <2>2, <2>3
<1>8. CASE Clear
  <2>1. FileTypes' BY <1>8 DEF Clear, File!Clear
  <2> QED BY <1>8, <2>1 DEF Clear
<1>9. CASE UNCHANGED vars BY <1>9 DEF vars
<1> QED
  BY <1>1, <1>2, <1>3, <1>5, <1>6, <1>7, <1>8, <1>9 DEF Next, Run, Respond

LEMMA MissedStep == IInv /\ [Next]_vars => MissedInv'
<1> SUFFICES ASSUME IInv, [Next]_vars PROVE MissedInv' OBVIOUS
<1> USE DEF IInv, TypeOK, MissedInv, InFlight
<1>1. ASSUME NEW b \in Batch, Start(b) \/ Return(b) \/ Leave(b) \/ Cancel(b)
      PROVE  MissedInv'
  BY <1>1 DEF Start, Return, Leave, Cancel
<1>2. ASSUME NEW j \in Job, LookupHit(j) \/ LookupRaises(j) PROVE MissedInv'
  BY <1>2 DEF LookupHit, LookupRaises, Fresh, Escape
<1>3. ASSUME NEW j \in Job, LookupMiss(j) PROVE MissedInv'
  BY <1>3 DEF LookupMiss, Fresh, Zombie
<1>4. ASSUME NEW j \in Job, Acquire(j) PROVE MissedInv'
  BY <1>4 DEF Acquire
<1>5. ASSUME NEW j \in Job, NEW p \in Page, Finish(j, p) \/ StoreRaises(j, p)
      PROVE  MissedInv'
  BY <1>5 DEF Finish, StoreRaises, Escape
<1>6. CASE Clear \/ UNCHANGED vars BY <1>6 DEF Clear, vars
<1> QED BY <1>1, <1>2, <1>3, <1>4, <1>5, <1>6 DEF Next, Run, Respond

\* A record on a line of its own changes by a clear, or by a task that ends its
\* request for the URL.
LEMMA CacheStep ==
    ASSUME IInv, [Next]_vars, NEW u \in Url, cache[u] = kept[u]
    PROVE  \/ cache'[u] = cache[u] /\ kept'[u] = cache[u]
           \/ Cleared
           \/ \E j \in Job : /\ url[j] = u
                            /\ job[j] \in InFlight /\ job'[j] \notin InFlight
<1> USE DEF IInv, TypeOK
<1>1. ASSUME File!Untouched PROVE cache'[u] = cache[u] /\ kept'[u] = cache[u]
  BY <1>1 DEF File!Untouched
<1>2. /\ \A b \in Batch : Start(b) \/ Return(b) \/ Leave(b) \/ Cancel(b) => File!Untouched
      /\ \A j \in Job : LookupHit(j) \/ LookupMiss(j) \/ LookupRaises(j)
                          \/ Acquire(j) => File!Untouched
  BY DEF Start, Return, Leave, Cancel, LookupHit, LookupMiss, LookupRaises, Acquire
<1>3. UNCHANGED vars => File!Untouched BY DEF vars, File!Untouched
<1>4. CASE Clear BY <1>4 DEF Clear, Cleared, File!Clear
<1>5. ASSUME NEW j \in Job, NEW p \in Page, Finish(j, p) \/ StoreRaises(j, p)
      PROVE  \/ cache'[u] = cache[u] /\ kept'[u] = cache[u]
             \/ url[j] = u /\ job[j] \in InFlight /\ job'[j] \notin InFlight
  <2>1. job[j] \in InFlight /\ job'[j] \notin InFlight
    BY <1>5 DEF Finish, StoreRaises, Outcome, Escape, InFlight
  <2>2. CASE File!Untouched BY <1>1, <2>2
  <2>3. CASE p \in CachedPage /\ (File!Put(url[j], p) \/ File!PutRaises(url[j], p))
    <3>1. url[j] \in Url OBVIOUS
    <3>2. \A v \in Url : v # url[j] => cache'[v] \in {cache[v], kept[v]} /\ kept'[v] = kept[v]
      BY <2>3, <3>1, PutStep
    <3> QED BY <2>1, <3>2
  <2> QED BY <1>5, <2>2, <2>3, EndPuts
<1> QED BY <1>1, <1>2, <1>3, <1>4, <1>5 DEF Next, Run, Respond

----------------------------------------------------------------------------
(* How calls end. *)

\* What the state of a call says about its tasks, and theirs about it.
EndInv ==
    /\ \A j \in Job :
          /\ batch[j[1]] = "idle" => job[j] = "new"
          /\ batch[j[1]] = "returned" => job[j] = "done"
          /\ batch[j[1]] = "cancelled" => job[j] \notin Unfinished
          /\ job[j] = "escaped" => batch[j[1]] \in {"leaving", "raised"}
          /\ job[j] = "done" => page[j] # NoPage
    /\ \A b \in Batch :
          batch[b] \in {"leaving", "raised"} => \E j \in Jobs(b) : job[j] = "escaped"

\* One task goes on, with a page if it is done, and its call stays as it is.
LEMMA OnwardKeepsEnds ==
    ASSUME TypeOK, EndInv, NEW j \in Job, job[j] \in Unfinished,
           batch[j[1]] # "idle", batch' = batch,
           NEW s \in {"waiting", "done"} \cup InFlight, job' = [job EXCEPT ![j] = s],
           \A i \in Job : i # j => page'[i] = page[i],
           s = "done" => page'[j] # NoPage
    PROVE  EndInv'
<1> USE DEF TypeOK, Unfinished, InFlight
<1>1. ASSUME NEW i \in Job
      PROVE  /\ batch'[i[1]] = "idle" => job'[i] = "new"
             /\ batch'[i[1]] = "returned" => job'[i] = "done"
             /\ batch'[i[1]] = "cancelled" => job'[i] \notin Unfinished
             /\ job'[i] = "escaped" => batch'[i[1]] \in {"leaving", "raised"}
             /\ job'[i] = "done" => page'[i] # NoPage
  <2>1. CASE i = j
    <3>1. batch[j[1]] \in {"open", "leaving", "raised"} BY JobType DEF EndInv
    <3> QED BY <2>1, <3>1
  <2>2. CASE i # j BY <2>2 DEF EndInv
  <2> QED BY <2>1, <2>2
<1>2. ASSUME NEW b \in Batch, batch'[b] \in {"leaving", "raised"}
      PROVE  \E i \in Jobs(b) : job'[i] = "escaped"
  <2>1. PICK i \in Jobs(b) : job[i] = "escaped" BY <1>2 DEF EndInv
  <2>2. i # j /\ i \in Job BY <2>1 DEF Jobs
  <2> QED BY <2>1, <2>2
<1> QED BY <1>1, <1>2 DEF EndInv, Jobs

\* An exception leaves a task: its call raises, if none did before.
LEMMA EscapeKeepsEnds ==
    ASSUME TypeOK, EndInv, NEW j \in Job, job[j] \in Unfinished,
           batch[j[1]] # "idle", Escape(j)
    PROVE  EndInv'
<1> USE DEF TypeOK, Unfinished, InFlight
<1>0. j[1] \in Batch /\ j \in Jobs(j[1]) BY JobType
<1>1. /\ job' = [job EXCEPT ![j] = "escaped"]
      /\ page' = page
      /\ batch' = [batch EXCEPT ![j[1]] = IF @ = "open" THEN "leaving" ELSE @]
  BY DEF Escape
<1>2. batch[j[1]] \in {"open", "leaving", "raised"} BY <1>0 DEF EndInv
<1>3. batch'[j[1]] \in {"leaving", "raised"} /\ job'[j] = "escaped" BY <1>0, <1>1, <1>2
<1>4. ASSUME NEW i \in Job
      PROVE  /\ batch'[i[1]] = "idle" => job'[i] = "new"
             /\ batch'[i[1]] = "returned" => job'[i] = "done"
             /\ batch'[i[1]] = "cancelled" => job'[i] \notin Unfinished
             /\ job'[i] = "escaped" => batch'[i[1]] \in {"leaving", "raised"}
             /\ job'[i] = "done" => page'[i] # NoPage
  <2>0. i[1] \in Batch BY JobType
  <2>1. CASE i = j BY <1>3, <2>1
  <2>2. CASE i # j
    <3>1. job'[i] = job[i] BY <1>1, <2>2
    <3>2. CASE i[1] = j[1] BY <1>1, <1>2, <1>3, <3>1, <3>2 DEF EndInv
    <3>3. CASE i[1] # j[1] BY <1>1, <2>0, <3>1, <3>3 DEF EndInv
    <3> QED BY <3>2, <3>3
  <2> QED BY <2>1, <2>2
<1>5. ASSUME NEW b \in Batch, batch'[b] \in {"leaving", "raised"}
      PROVE  \E i \in Jobs(b) : job'[i] = "escaped"
  <2>1. CASE b = j[1] BY <1>0, <1>3, <2>1
  <2>2. CASE b # j[1]
    <3>1. PICK i \in Jobs(b) : job[i] = "escaped" BY <1>1, <1>5, <2>2 DEF EndInv
    <3> QED BY <1>1, <3>1 DEF Jobs
  <2> QED BY <2>1, <2>2
<1> QED BY <1>4, <1>5 DEF EndInv, Jobs

LEMMA EndStep == IInv /\ EndInv /\ [Next]_vars => EndInv'
<1> SUFFICES ASSUME IInv, EndInv, [Next]_vars PROVE EndInv' OBVIOUS
<1> USE DEF IInv
<1>1. ASSUME NEW b \in Batch, Start(b) PROVE EndInv'
  BY <1>1, JobType DEF Start, EndInv, TypeOK, Unfinished, Jobs
<1>2. ASSUME NEW b \in Batch, Return(b) PROVE EndInv'
  BY <1>2, JobType DEF Return, EndInv, TypeOK, Unfinished, InFlight, Jobs
<1>l. ASSUME NEW b \in Batch, Leave(b) PROVE EndInv'
  BY <1>l, JobType DEF Leave, EndInv, TypeOK, Unfinished, InFlight, Jobs
<1>3. ASSUME NEW b \in Batch, Cancel(b) PROVE EndInv'
  <2> USE DEF TypeOK, Unfinished, InFlight
  <2>1. /\ batch[b] = "open" /\ batch' = [batch EXCEPT ![b] = "cancelled"]
        /\ page' = page
        /\ \A i \in Job : i \notin Jobs(b) => job'[i] = job[i]
        /\ \A i \in Jobs(b) : job'[i] = IF job[i] \in Unfinished THEN "cancelled" ELSE job[i]
    BY <1>3 DEF Cancel, Jobs
  <2>2. ASSUME NEW i \in Job
        PROVE  /\ batch'[i[1]] = "idle" => job'[i] = "new"
               /\ batch'[i[1]] = "returned" => job'[i] = "done"
               /\ batch'[i[1]] = "cancelled" => job'[i] \notin Unfinished
               /\ job'[i] = "escaped" => batch'[i[1]] \in {"leaving", "raised"}
               /\ job'[i] = "done" => page'[i] # NoPage
    <3>0. i[1] \in Batch /\ i \in Jobs(i[1]) BY JobType
    <3>1. CASE i[1] = b
      <4>1. job[i] # "escaped" BY <2>1, <3>1 DEF EndInv
      <4> QED BY <2>1, <3>0, <3>1, <4>1 DEF EndInv
    <3>2. CASE i[1] # b
      <4>1. i \notin Jobs(b) BY <3>2 DEF Jobs
      <4> QED BY <2>1, <3>0, <3>2, <4>1 DEF EndInv
    <3> QED BY <3>1, <3>2
  <2>3. ASSUME NEW a \in Batch, batch'[a] \in {"leaving", "raised"}
        PROVE  \E i \in Jobs(a) : job'[i] = "escaped"
    <3>1. a # b /\ batch[a] \in {"leaving", "raised"} BY <2>1, <2>3
    <3>2. PICK i \in Jobs(a) : job[i] = "escaped" BY <3>1 DEF EndInv
    <3>3. i \in Job /\ i \notin Jobs(b) BY <3>1, <3>2 DEF Jobs
    <3> QED BY <2>1, <3>2, <3>3
  <2> QED BY <2>2, <2>3 DEF EndInv, Jobs
<1>4. ASSUME NEW j \in Job, LookupHit(j) PROVE EndInv'
  <2>1. /\ job[j] = "new" /\ batch[j[1]] # "idle" /\ batch' = batch
        /\ job' = [job EXCEPT ![j] = "done"]
        /\ page' = [page EXCEPT ![j] = cache[url[j]]] /\ cache[url[j]] # NoPage
    BY <1>4 DEF LookupHit, Fresh
  <2> QED BY <2>1, OnwardKeepsEnds DEF TypeOK, Unfinished
<1>5. ASSUME NEW j \in Job, LookupMiss(j) PROVE EndInv'
  BY <1>5, OnwardKeepsEnds DEF LookupMiss, Fresh, Unfinished
<1>6. ASSUME NEW j \in Job, Acquire(j) PROVE EndInv'
  BY <1>6, OnwardKeepsEnds DEF Acquire, EndInv, Unfinished, InFlight
<1>7. ASSUME NEW j \in Job, LookupRaises(j) PROVE EndInv'
  BY <1>7, EscapeKeepsEnds DEF LookupRaises, Fresh, Unfinished
<1>8. ASSUME NEW j \in Job, NEW p \in Page, Finish(j, p) PROVE EndInv'
  <2>1. /\ job[j] \in InFlight /\ batch' = batch
        /\ job' = [job EXCEPT ![j] = "done"] /\ page' = [page EXCEPT ![j] = p]
    BY <1>8 DEF Finish, Outcome, InFlight
  <2>2. batch[j[1]] # "idle" BY <2>1 DEF EndInv, InFlight
  <2>3. p # NoPage BY ConstantsAssumption
  <2> QED BY <2>1, <2>2, <2>3, OnwardKeepsEnds DEF TypeOK, Unfinished
<1>9. ASSUME NEW j \in Job, NEW p \in Page, StoreRaises(j, p) PROVE EndInv'
  <2>1. job[j] \in InFlight /\ Escape(j)
    BY <1>9 DEF StoreRaises, Outcome, InFlight
  <2>2. batch[j[1]] # "idle" BY <2>1 DEF EndInv, InFlight
  <2> QED BY <2>1, <2>2, EscapeKeepsEnds DEF Unfinished
<1>10. CASE Clear \/ UNCHANGED vars BY <1>10 DEF Clear, vars, EndInv, Jobs
<1> QED
  BY <1>1, <1>2, <1>l, <1>3, <1>4, <1>5, <1>6, <1>7, <1>8, <1>9, <1>10
     DEF Next, Run, Respond

----------------------------------------------------------------------------
(* Theorems. *)

\* The conjunction is an invariant of every behaviour.
LEMMA Invariance == Spec => []IInv
<1>1. IInv /\ [Next]_vars => IInv'
  BY PermitStep, TypeStep, MissedStep DEF IInv
<1> QED BY InitInv, <1>1, PTL DEF Spec

\* Every variable keeps its type; in particular an extraction failure is
\* never in the cache.
THEOREM TypeCorrect == Spec => []TypeOK
<1>1. IInv => TypeOK BY DEF IInv
<1> QED BY <1>1, Invariance, PTL

\* The permits of every batch and its outstanding requests add up to
\* Concurrency at every moment.
THEOREM PermitsAreConserved == Spec => []PermitsConserved
<1>1. IInv => PermitsConserved BY DEF IInv
<1> QED BY <1>1, Invariance, PTL

\* Short of clear(), a record on a line of its own that would be served gives
\* way only to a task that looked before the record was there.
THEOREM ShadowingIsARace == Spec => OnlyARaceShadows
<1> DEFINE Raced ==
        \A u \in Url :
          Served(u) /\ cache'[u] # cache[u] =>
             \/ Cleared
             \/ \E j \in Job :
                   /\ url[j] = u
                   /\ job[j] \in InFlight /\ job'[j] \notin InFlight
                   /\ seen[j] # cache[u]
<1>1. IInv /\ [Next]_vars => Raced
  <2> SUFFICES ASSUME IInv, [Next]_vars, NEW u \in Url, Served(u), cache'[u] # cache[u], ~Cleared
               PROVE  \E j \in Job : /\ url[j] = u
                                    /\ job[j] \in InFlight /\ job'[j] \notin InFlight
                                    /\ seen[j] # cache[u]
    OBVIOUS
  <2>1. PICK j \in Job : url[j] = u /\ job[j] \in InFlight /\ job'[j] \notin InFlight
    BY CacheStep DEF Served
  <2>2. seen[j] \in {NoPage, "empty"} BY <2>1 DEF IInv, MissedInv
  <2> QED BY <2>1, <2>2 DEF Served
<1> QED BY <1>1, Invariance, PTL DEF Spec, OnlyARaceShadows

\* Once a URL is settled it stays settled with the same record, until a clear.
THEOREM SettledStays == Spec => SettledForGood
<1> DEFINE Stays ==
        \A u \in Url : Settled(u) => (Settled(u)' /\ cache'[u] = cache[u]) \/ Cleared
<1>1. IInv /\ [Next]_vars => Stays
  <2> SUFFICES ASSUME IInv, [Next]_vars, NEW u \in Url, Settled(u), ~Cleared
               PROVE  Settled(u)' /\ cache'[u] = cache[u]
    OBVIOUS
  <2> USE DEF IInv, TypeOK, InFlight
  <2>1. cache'[u] = cache[u] /\ kept'[u] = cache[u] BY CacheStep DEF Settled, Served
  <2>2. ASSUME NEW i \in Job, url'[i] = u
        PROVE  job'[i] \notin {"waiting"} \cup InFlight
    <3>1. url' = url
      BY DEF Next, Run, Respond, Start, Return, Leave, Cancel, LookupHit, LookupMiss,
             LookupRaises, Escape, Acquire, Finish, StoreRaises, Clear, vars
    <3>2. job[i] \notin {"waiting"} \cup InFlight /\ url[i] = u
      BY <2>2, <3>1 DEF Settled
    <3>3. ASSUME NEW b \in Batch, Start(b) \/ Return(b) \/ Leave(b) \/ Cancel(b)
          PROVE  job'[i] \notin {"waiting"} \cup InFlight
      BY <3>2, <3>3 DEF Start, Return, Leave, Cancel
    <3>4. ASSUME NEW j \in Job, LookupMiss(j)
          PROVE  job'[i] \notin {"waiting"} \cup InFlight
      <4>1. i # j BY <3>2, <3>4 DEF LookupMiss, Settled, Served, Zombie
      <4> QED BY <3>2, <3>4, <4>1 DEF LookupMiss
    <3>5. ASSUME NEW j \in Job, Acquire(j)
          PROVE  job'[i] \notin {"waiting"} \cup InFlight
      <4>1. i # j BY <3>2, <3>5 DEF Acquire
      <4> QED BY <3>2, <3>5, <4>1 DEF Acquire
    <3>6. ASSUME NEW j \in Job,
                 \/ LookupHit(j) \/ LookupRaises(j)
                 \/ \E p \in Page : Finish(j, p) \/ StoreRaises(j, p)
          PROVE  job'[i] \notin {"waiting"} \cup InFlight
      BY <3>2, <3>6 DEF LookupHit, LookupRaises, Finish, StoreRaises, Escape
    <3>7. CASE Clear \/ UNCHANGED vars BY <3>2, <3>7 DEF Clear, vars
    <3> QED BY <3>3, <3>4, <3>5, <3>6, <3>7 DEF Next, Run, Respond
  <2> QED BY <2>1, <2>2 DEF Settled, Served
<1> QED BY <1>1, Invariance, PTL DEF Spec, SettledForGood

\* The ends of calls and of their tasks agree in every behaviour.
LEMMA EndInvariance == Spec => []EndInv
<1>1. Init => EndInv BY JobType DEF Init, EndInv, Unfinished
<1> QED BY <1>1, EndStep, Invariance, PTL DEF Spec

\* A call that has returned or was cancelled has no task at the semaphore and
\* no request out: only an exception leaves orphans.
THEOREM NoOrphansButOfARaise == Spec => []OrphansOnlyAfterRaise
<1>1. IInv /\ EndInv => OrphansOnlyAfterRaise
  <2> SUFFICES ASSUME IInv, EndInv, NEW j \in Job, job[j] \in {"waiting"} \cup InFlight
               PROVE  batch[j[1]] \in {"open", "leaving", "raised"}
    BY DEF OrphansOnlyAfterRaise
  <2> QED BY JobType DEF IInv, TypeOK, EndInv, Unfinished, InFlight
<1> QED BY <1>1, Invariance, EndInvariance, PTL

\* A call that returns has a page for every URL it was given, and one that
\* raises has a task that could not use the cache.
THEOREM ReturnsAreComplete == Spec => []ReturnMeansAllPages
<1>1. EndInv => ReturnMeansAllPages
  BY JobType DEF EndInv, ReturnMeansAllPages, Jobs
<1> QED BY <1>1, EndInvariance, PTL
=============================================================================
