------------------------- MODULE LlmTransportProofs -------------------------
(***************************************************************************)
(* Proofs about LlmTransport, for every set of callers and every number of   *)
(* threads and attempts: a caller is answered by the attempt it waits for,   *)
(* and requests of one caller overlap only in threads, after a timeout.      *)
(***************************************************************************)
EXTENDS LlmTransport, FiniteSetTheorems, SequenceTheorems, TLAPS

\* The caller waits for this attempt.
Waited(j) == pc[j[1]] = "waiting" /\ j[2] = attempt[j[1]]

\* Attempts are counted as they begin, and one is left to a caller that rests.
AttemptInv ==
    \A c \in Caller :
        /\ pc[c] = "idle" <=> attempt[c] = 0
        /\ pc[c] = "resting" => attempt[c] < Attempts

\* An attempt that has not begun has no request; one that is waited for is
\* neither over nor lapsed, and any other one is over or lapsed.  On the wire
\* nothing queues, and what has lapsed does not run.
JobInv ==
    \A j \in Job :
        /\ j[2] > attempt[j[1]] => job[j] = "none" /\ j \notin lapsed
        /\ j[2] <= attempt[j[1]] => job[j] # "none"
        /\ Waited(j) => j \notin lapsed /\ job[j] # "over"
        /\ j[2] <= attempt[j[1]] /\ ~Waited(j) => job[j] = "over" \/ j \in lapsed
        /\ backend = "litellm" => job[j] # "queued"
        /\ backend = "litellm" /\ j \in lapsed => job[j] # "running"

\* The line holds queued jobs, each of them once.
LineInv ==
    \A i \in 1..Len(line) :
        /\ job[line[i]] = "queued"
        /\ \A k \in 1..Len(line) : line[i] = line[k] => i = k

\* The executor has a thread for every job that runs.
PoolInv ==
    backend = "gemini" => IsFiniteSet(Running) /\ Cardinality(Running) <= Workers

IInv ==
    /\ TypeOK
    /\ AttemptInv
    /\ JobInv
    /\ LineInv
    /\ PoolInv
    /\ AnswerIsCurrent

\* A job is its caller and its number.
LEMMA JobIs ==
    /\ \A j \in Job : j[1] \in Caller /\ j[2] \in 1..Attempts /\ j = <<j[1], j[2]>>
    /\ \A c \in Caller, n \in 1..Attempts : <<c, n>> \in Job
    /\ \A i, j \in Job : i[1] = j[1] /\ i[2] = j[2] => i = j
BY DEF Job

\* The job a waiting caller waits for.
LEMMA CurrentIs ==
    ASSUME IInv, NEW c \in Caller, pc[c] = "waiting"
    PROVE  /\ Current(c) \in Job /\ Current(c)[1] = c /\ Current(c)[2] = attempt[c]
           /\ Waited(Current(c))
           /\ Current(c) \notin lapsed /\ job[Current(c)] \notin {"none", "over"}
<1>1. attempt[c] \in 1..Attempts
  BY ConstantsAssumption DEF IInv, TypeOK, AttemptInv
<1>2. Current(c) \in Job /\ Current(c)[1] = c /\ Current(c)[2] = attempt[c]
  BY <1>1, JobIs DEF Current
<1>3. Waited(Current(c)) BY <1>2 DEF Waited
<1> QED BY <1>1, <1>2, <1>3 DEF IInv, JobInv

LEMMA InitInv == Init => IInv
<1> SUFFICES ASSUME Init PROVE IInv OBVIOUS
<1> USE ConstantsAssumption DEF Init
<1>1. TypeOK BY DEF TypeOK
<1>2. AttemptInv BY DEF AttemptInv
<1>3. JobInv BY JobIs DEF JobInv, Waited
<1>4. LineInv BY DEF LineInv
<1>5. PoolInv
  <2>1. Running = {} BY DEF Running
  <2> QED BY <2>1, FS_EmptySet DEF PoolInv
<1>6. AnswerIsCurrent BY DEF AnswerIsCurrent
<1> QED BY <1>1, <1>2, <1>3, <1>4, <1>5, <1>6 DEF IInv

----------------------------------------------------------------------------
(* An attempt begins. *)

LEMMA BeginStep ==
    ASSUME IInv, NEW c \in Caller, Begin(c)
    PROVE  TypeOK' /\ AttemptInv' /\ JobInv' /\ LineInv' /\ AnswerIsCurrent'
<1> USE DEF IInv, TypeOK
<1> DEFINE new == <<c, attempt[c] + 1>>
<1>1. /\ pc[c] \in {"idle", "resting"}
      /\ pc' = [pc EXCEPT ![c] = "waiting"]
      /\ attempt' = [attempt EXCEPT ![c] = @ + 1]
      /\ UNCHANGED <<backend, answer, lapsed>>
  BY DEF Begin
<1>2. attempt[c] + 1 \in 1..Attempts
  BY <1>1, ConstantsAssumption DEF AttemptInv
<1>3. new \in Job /\ new[1] = c /\ new[2] = attempt[c] + 1 BY <1>2, JobIs
<1>4. job[new] = "none" /\ new \notin lapsed BY <1>2, <1>3 DEF JobInv
<1>5. \/ backend = "gemini" /\ job' = [job EXCEPT ![new] = "queued"]
                            /\ line' = Append(line, new)
      \/ backend = "litellm" /\ job' = [job EXCEPT ![new] = "running"] /\ line' = line
  BY DEF Begin
<1>6. TypeOK'
  <2>1. attempt' \in [Caller -> 0..Attempts] BY <1>1, <1>2
  <2>2. line' \in Seq(Job)
    <3>1. line \in Seq(Job) OBVIOUS
    <3> HIDE DEF IInv, TypeOK
    <3>2. Append(line, new) \in Seq(Job) BY <1>3, <3>1, AppendProperties
    <3> QED BY <1>5, <3>1, <3>2
  <2>3. job' \in [Job -> {"none", "queued", "running", "over"} \cup Body] BY <1>3, <1>5
  <2> QED BY <1>1, <2>1, <2>2, <2>3
<1>7. AttemptInv'
  BY <1>1, <1>2, ConstantsAssumption DEF AttemptInv
<1>8. JobInv'
  <2> SUFFICES ASSUME NEW j \in Job
               PROVE  /\ j[2] > attempt'[j[1]] => job'[j] = "none" /\ j \notin lapsed
                      /\ j[2] <= attempt'[j[1]] => job'[j] # "none"
                      /\ Waited(j)' => j \notin lapsed /\ job'[j] # "over"
                      /\ j[2] <= attempt'[j[1]] /\ ~Waited(j)' =>
                            job'[j] = "over" \/ j \in lapsed
                      /\ backend = "litellm" => job'[j] # "queued"
                      /\ backend = "litellm" /\ j \in lapsed => job'[j] # "running"
    BY <1>1 DEF JobInv
  <2>1. CASE j = new
    <3>1. attempt'[c] = new[2] /\ pc'[c] = "waiting" BY <1>1, <1>3
    <3>2. Waited(j)' BY <2>1, <1>3, <3>1 DEF Waited
    <3> QED BY <1>2, <1>3, <1>4, <1>5, <2>1, <3>1, <3>2
  <2>2. CASE j # new
    <3>1. job'[j] = job[j] BY <1>5, <2>2
    <3>2. CASE j[1] = c
      <4>1. j[2] # attempt[c] + 1 /\ j[2] \in Int /\ attempt[c] \in Int
        BY <1>3, <2>2, <3>2, JobIs
      <4>2. attempt'[c] = attempt[c] + 1 BY <1>1
      <4>3. ~Waited(j) /\ ~Waited(j)' BY <1>1, <3>2, <4>1, <4>2 DEF Waited
      <4> QED BY <3>1, <3>2, <4>1, <4>2, <4>3 DEF JobInv
    <3>3. CASE j[1] # c
      <4>1. /\ attempt'[j[1]] = attempt[j[1]] /\ pc'[j[1]] = pc[j[1]]
            /\ Waited(j)' <=> Waited(j)
        BY <1>1, <3>3, JobIs DEF Waited
      <4> QED BY <3>1, <4>1 DEF JobInv
    <3> QED BY <3>2, <3>3
  <2> QED BY <2>1, <2>2
<1>9. LineInv'
  <2>0. \A i \in 1..Len(line) : line[i] \in Job /\ line[i] # new
    BY <1>4, ElementOfSeq DEF LineInv
  <2>1. CASE line' = line
    BY <1>3, <1>5, <2>0, <2>1 DEF LineInv
  <2>2. CASE line' = Append(line, new) /\ job' = [job EXCEPT ![new] = "queued"]
    <3>1. /\ Len(line') = Len(line) + 1 /\ Len(line) \in Nat
          /\ line'[Len(line) + 1] = new
          /\ \A i \in 1..Len(line) : line'[i] = line[i]
      BY <1>3, <2>2, AppendProperties, LenProperties
    <3>2. \A i \in 1..Len(line) : job'[line'[i]] = "queued" /\ line'[i] # new
      BY <2>0, <2>2, <3>1 DEF LineInv
    <3>3. job'[new] = "queued" BY <1>3, <2>2
    <3>4. ASSUME NEW i \in 1..Len(line'), NEW k \in 1..Len(line'), line'[i] = line'[k]
          PROVE  i = k
      <4>1. CASE i \in 1..Len(line) /\ k \in 1..Len(line)
        BY <3>1, <3>4, <4>1 DEF LineInv
      <4>2. CASE i = Len(line) + 1 \/ k = Len(line) + 1
        BY <3>1, <3>2, <3>4, <4>2
      <4> QED BY <3>1, <4>1, <4>2
    <3>5. \A i \in 1..Len(line') : job'[line'[i]] = "queued"
      <4> TAKE i \in 1..Len(line')
      <4>1. i \in 1..Len(line) \/ i = Len(line) + 1 BY <3>1
      <4> QED BY <3>1, <3>2, <3>3, <4>1
    <3> QED BY <3>4, <3>5 DEF LineInv
  <2> QED BY <1>5, <2>1, <2>2
<1>10. AnswerIsCurrent'
  <2> SUFFICES ASSUME NEW o \in Caller
               PROVE  /\ pc'[o] = "answered" <=> answer[o] # Nothing
                      /\ pc'[o] = "answered" =>
                            /\ answer[o].by = Current(o)'
                            /\ Current(o)' \notin lapsed
                            /\ answer[o].text # answer[o].body =>
                                  backend = "gemini" /\ answer[o].body = "no text"
    BY <1>1 DEF AnswerIsCurrent
  <2>1. CASE o = c BY <1>1, <2>1 DEF AnswerIsCurrent
  <2>2. CASE o # c
    <3>1. pc'[o] = pc[o] /\ Current(o)' = Current(o) BY <1>1, <2>2 DEF Current
    <3> QED BY <3>1 DEF AnswerIsCurrent
  <2> QED BY <2>1, <2>2
<1> QED BY <1>6, <1>7, <1>8, <1>9, <1>10

----------------------------------------------------------------------------
(* The executor and the event loop. *)

\* A step that leaves the line alone, and what is queued queued, keeps it.
LEMMA SameLine ==
    ASSUME IInv, line' = line,
           \A j \in Job : job[j] = "queued" => job'[j] = "queued"
    PROVE  LineInv'
BY ElementOfSeq DEF IInv, TypeOK, LineInv

\* A step of one job keeps what is known of the others, if their callers wait
\* as before.
LEMMA OneJob ==
    ASSUME IInv, NEW j \in Job, attempt' = attempt, backend' = backend,
           \A i \in Job : i # j =>
               /\ job'[i] = job[i]
               /\ i \in lapsed' <=> i \in lapsed
               /\ Waited(i)' <=> Waited(i),
           j[2] <= attempt[j[1]],
           job'[j] \notin {"none", "queued"},
           Waited(j)' => j \notin lapsed' /\ job'[j] # "over",
           ~Waited(j)' => job'[j] = "over" \/ j \in lapsed',
           backend = "litellm" /\ j \in lapsed' => job'[j] # "running"
    PROVE  JobInv'
<1> SUFFICES ASSUME NEW i \in Job
             PROVE  /\ i[2] > attempt'[i[1]] => job'[i] = "none" /\ i \notin lapsed'
                    /\ i[2] <= attempt'[i[1]] => job'[i] # "none"
                    /\ Waited(i)' => i \notin lapsed' /\ job'[i] # "over"
                    /\ i[2] <= attempt'[i[1]] /\ ~Waited(i)' =>
                          job'[i] = "over" \/ i \in lapsed'
                    /\ backend' = "litellm" => job'[i] # "queued"
                    /\ backend' = "litellm" /\ i \in lapsed' => job'[i] # "running"
  BY DEF JobInv
<1> USE DEF Waited
<1>1. CASE i = j
  <2>1. j[2] \in Int /\ attempt[j[1]] \in Int BY JobIs DEF IInv, TypeOK
  <2> QED BY <1>1, <2>1
<1>2. CASE i # j BY <1>2 DEF IInv, JobInv
<1> QED BY <1>1, <1>2

\* A job that has a request has begun.
LEMMA HasBegun ==
    ASSUME IInv, NEW j \in Job, job[j] # "none" PROVE j[2] <= attempt[j[1]]
<1>1. j[2] \in Int /\ attempt[j[1]] \in Int BY JobIs DEF IInv, TypeOK
<1> QED BY <1>1 DEF IInv, JobInv

LEMMA TakeStep ==
    ASSUME IInv, Take
    PROVE  TypeOK' /\ AttemptInv' /\ JobInv' /\ LineInv' /\ AnswerIsCurrent'
<1> USE DEF IInv, TypeOK
<1> DEFINE h == Head(line)
<1>1. /\ line # <<>> /\ line' = Tail(line)
      /\ job' = [job EXCEPT ![h] = Taken(h)]
      /\ UNCHANGED <<backend, pc, attempt, answer, lapsed>>
  BY DEF Take
<1>2. /\ Len(line) \in Nat /\ Len(line) # 0 /\ h = line[1] /\ h \in Job
      /\ line' \in Seq(Job) /\ Len(line') = Len(line) - 1
      /\ \A i \in 1..Len(line') : i + 1 \in 1..Len(line) /\ line'[i] = line[i + 1]
  <2>1. line \in Seq(Job) OBVIOUS
  <2> HIDE DEF IInv, TypeOK
  <2> QED BY <1>1, <2>1, HeadTailProperties, LenProperties, EmptySeq
<1>3. job[h] = "queued" BY <1>2 DEF LineInv
<1>4. Taken(h) = IF h \in lapsed THEN "over" ELSE "running" BY DEF Taken
<1>5. TypeOK' BY <1>1, <1>2, <1>4
<1>6. AttemptInv' BY <1>1 DEF AttemptInv
<1>7. JobInv'
  <2>1. \A i \in Job : Waited(i)' <=> Waited(i) BY <1>1 DEF Waited
  <2>2. job'[h] = Taken(h) BY <1>1, <1>2
  <2>3. h[2] <= attempt[h[1]] BY <1>2, <1>3, HasBegun
  <2>4. ~Waited(h) => h \in lapsed BY <1>2, <1>3, <2>3 DEF JobInv
  <2>5. Waited(h) => h \notin lapsed BY <1>2 DEF JobInv
  <2> HIDE DEF IInv, TypeOK
  <2> QED BY <1>1, <1>2, <1>4, <2>1, <2>2, <2>3, <2>4, <2>5, OneJob DEF Waited
<1>8. LineInv'
  <2>1. ASSUME NEW i \in 1..Len(line')
        PROVE  /\ job'[line'[i]] = "queued"
               /\ \A k \in 1..Len(line') : line'[i] = line'[k] => i = k
    <3>1. \A k \in 1..Len(line') : line[i + 1] = line[k + 1] => i + 1 = k + 1
      BY <1>2, <2>1 DEF LineInv
    <3>2. line[i + 1] # h
      <4>1. i + 1 # 1 /\ 1 \in 1..Len(line) BY <1>2, <2>1
      <4> QED BY <1>2, <2>1, <4>1 DEF LineInv
    <3>3. job'[line[i + 1]] = job[line[i + 1]]
      BY <1>1, <1>2, <2>1, <3>2, ElementOfSeq
    <3>4. job[line[i + 1]] = "queued" BY <1>2, <2>1 DEF LineInv
    <3>5. line'[i] = line[i + 1] BY <1>2, <2>1
    <3>6. \A k \in 1..Len(line') : line'[i] = line'[k] => i = k
      BY <1>2, <2>1, <3>1
    <3> QED BY <3>3, <3>4, <3>5, <3>6
  <2> QED BY <2>1 DEF LineInv
<1>9. AnswerIsCurrent' BY <1>1 DEF AnswerIsCurrent, Current
<1> QED BY <1>5, <1>6, <1>7, <1>8, <1>9

LEMMA RespondStep ==
    ASSUME IInv, NEW j \in Job, NEW b \in Body, Respond(j, b)
    PROVE  TypeOK' /\ AttemptInv' /\ JobInv' /\ LineInv' /\ AnswerIsCurrent'
<1>1. /\ job[j] = "running" /\ job' = [job EXCEPT ![j] = b]
      /\ UNCHANGED <<backend, pc, attempt, line, answer, lapsed>>
  BY DEF Respond
<1>2. TypeOK' BY <1>1 DEF IInv, TypeOK
<1>3. AttemptInv' BY <1>1 DEF IInv, AttemptInv
<1>4. JobInv'
  <2>1. \A i \in Job : Waited(i)' <=> Waited(i) BY <1>1 DEF Waited
  <2>2. j[2] <= attempt[j[1]] BY <1>1, HasBegun
  <2>3. /\ Waited(j) => j \notin lapsed
        /\ ~Waited(j) => j \in lapsed
    BY <1>1, <2>2 DEF IInv, JobInv
  <2>4. job'[j] = b BY <1>1 DEF IInv, TypeOK
  <2>5. b \notin {"none", "queued", "running", "over"} BY DEF Body
  <2> QED BY <1>1, <2>1, <2>2, <2>3, <2>4, <2>5, OneJob DEF Waited
<1>5. LineInv' BY <1>1, SameLine
<1>6. AnswerIsCurrent' BY <1>1 DEF IInv, AnswerIsCurrent, Current
<1> QED BY <1>2, <1>3, <1>4, <1>5, <1>6

LEMMA DropStep ==
    ASSUME IInv, NEW j \in Job, Drop(j)
    PROVE  TypeOK' /\ AttemptInv' /\ JobInv' /\ LineInv' /\ AnswerIsCurrent'
<1>1. /\ job[j] \in Body /\ j \in lapsed /\ job' = [job EXCEPT ![j] = "over"]
      /\ UNCHANGED <<backend, pc, attempt, line, answer, lapsed>>
  BY DEF Drop
<1>2. job[j] \notin {"none", "queued"} BY <1>1 DEF Body
<1>3. TypeOK' BY <1>1 DEF IInv, TypeOK
<1>4. AttemptInv' BY <1>1 DEF IInv, AttemptInv
<1>5. JobInv'
  <2>1. \A i \in Job : Waited(i)' <=> Waited(i) BY <1>1 DEF Waited
  <2>2. j[2] <= attempt[j[1]] BY <1>2, HasBegun
  <2>3. ~Waited(j) BY <1>1 DEF IInv, JobInv
  <2>4. job'[j] = "over" BY <1>1 DEF IInv, TypeOK
  <2> QED BY <1>1, <2>1, <2>2, <2>3, <2>4, OneJob DEF Waited
<1>6. LineInv' BY <1>1, <1>2, SameLine
<1>7. AnswerIsCurrent' BY <1>1 DEF IInv, AnswerIsCurrent, Current
<1> QED BY <1>3, <1>4, <1>5, <1>6, <1>7

----------------------------------------------------------------------------
(* A wait ends. *)

\* The caller waits no more, and its attempt is over or lapsed.
LEMMA EndOfWait ==
    ASSUME IInv, NEW c \in Caller, pc[c] = "waiting",
           NEW s \in {"resting"} \cup Ended, pc' = [pc EXCEPT ![c] = s],
           s = "resting" => attempt[c] < Attempts,
           UNCHANGED <<backend, attempt, line>>,
           \A i \in Job : i # Current(c) =>
               /\ job'[i] = job[i]
               /\ i \in lapsed' <=> i \in lapsed,
           \/ job'[Current(c)] = job[Current(c)] /\ Current(c) \in lapsed'
           \/ job'[Current(c)] = "over" /\ job[Current(c)] # "queued",
           backend = "litellm" /\ Current(c) \in lapsed' => job'[Current(c)] # "running"
    PROVE  AttemptInv' /\ JobInv' /\ LineInv'
<1>0. PICK j \in Job : j = Current(c) BY CurrentIs
<1>1. j[1] = c /\ j[2] = attempt[c] /\ job[j] \notin {"none", "over"}
  BY <1>0, CurrentIs
<1>2. AttemptInv' BY DEF IInv, TypeOK, AttemptInv, Ended
<1>3. JobInv'
  <2>1. ASSUME NEW i \in Job, i # j PROVE Waited(i)' <=> Waited(i)
    <3>1. CASE i[1] = c
      <4>1. i[2] # attempt[c] BY <1>1, <2>1, <3>1, JobIs
      <4> QED BY <3>1, <4>1 DEF Waited
    <3>2. CASE i[1] # c
      <4>1. pc'[i[1]] = pc[i[1]] BY <3>2, JobIs DEF IInv, TypeOK
      <4> QED BY <4>1 DEF Waited
    <3> QED BY <3>1, <3>2
  <2>2. j[2] <= attempt[j[1]] BY <1>1, HasBegun
  <2>3. job[j] # "queued" \/ backend # "litellm" BY <1>1 DEF IInv, JobInv
  <2>4. ~Waited(j)'
    <3>1. pc'[c] = s /\ s # "waiting" BY DEF IInv, TypeOK, Ended
    <3> QED BY <1>1, <3>1 DEF Waited
  <2>5. job'[j] # "none" BY <1>0, <1>1
  <2>6. ASSUME NEW i \in Job
        PROVE  /\ i[2] > attempt'[i[1]] => job'[i] = "none" /\ i \notin lapsed'
               /\ i[2] <= attempt'[i[1]] => job'[i] # "none"
               /\ Waited(i)' => i \notin lapsed' /\ job'[i] # "over"
               /\ i[2] <= attempt'[i[1]] /\ ~Waited(i)' =>
                     job'[i] = "over" \/ i \in lapsed'
               /\ backend' = "litellm" => job'[i] # "queued"
               /\ backend' = "litellm" /\ i \in lapsed' => job'[i] # "running"
    <3>1. CASE i = j
      <4>1. j[2] \in Int /\ attempt[j[1]] \in Int BY JobIs DEF IInv, TypeOK
      <4> QED BY <1>0, <2>2, <2>3, <2>4, <2>5, <3>1, <4>1
    <3>2. CASE i # j
      <4>1. /\ job'[i] = job[i] /\ (i \in lapsed' <=> i \in lapsed)
            /\ Waited(i)' <=> Waited(i)
        BY <1>0, <2>1, <3>2
      <4> QED BY <4>1 DEF IInv, JobInv
    <3> QED BY <3>1, <3>2
  <2> QED BY <2>6 DEF JobInv
<1>4. LineInv'
  <2>1. \A i \in Job : job[i] = "queued" => job'[i] = "queued" OBVIOUS
  <2> QED BY <2>1, SameLine
<1> QED BY <1>2, <1>3, <1>4

LEMMA StopStep ==
    ASSUME IInv, NEW c \in Caller, pc[c] = "waiting", StopWaiting(c),
           NEW s \in {"resting", "failed", "cancelled"}, pc' = [pc EXCEPT ![c] = s],
           s = "resting" => attempt[c] < Attempts
    PROVE  TypeOK' /\ AttemptInv' /\ JobInv' /\ LineInv' /\ AnswerIsCurrent'
<1> DEFINE j == Current(c)
<1>1. /\ j \in Job /\ j[1] = c /\ j \notin lapsed BY CurrentIs
<1>2. /\ lapsed' = lapsed \cup {j}
      /\ job' = IF backend = "litellm" /\ job[j] = "running"
                  THEN [job EXCEPT ![j] = "over"] ELSE job
      /\ UNCHANGED <<backend, attempt, line, answer>>
  BY DEF StopWaiting, Abandoned
<1>3. TypeOK' BY <1>1, <1>2 DEF IInv, TypeOK, Ended
<1>4. AttemptInv' /\ JobInv' /\ LineInv'
  <2>1. \A i \in Job : i # j => job'[i] = job[i] /\ (i \in lapsed' <=> i \in lapsed)
    BY <1>2 DEF IInv, TypeOK
  <2>2. \/ job'[j] = job[j] /\ j \in lapsed'
        \/ job'[j] = "over" /\ job[j] # "queued"
    BY <1>1, <1>2 DEF IInv, TypeOK
  <2>3. backend = "litellm" /\ j \in lapsed' => job'[j] # "running"
    BY <1>1, <1>2 DEF IInv, TypeOK
  <2>4. s \in {"resting"} \cup Ended BY DEF Ended
  <2>5. UNCHANGED <<backend, attempt, line>> BY <1>2
  <2> QED BY <2>1, <2>2, <2>3, <2>4, <2>5, EndOfWait
<1>5. AnswerIsCurrent'
  <2> SUFFICES ASSUME NEW o \in Caller
               PROVE  /\ pc'[o] = "answered" <=> answer[o] # Nothing
                      /\ pc'[o] = "answered" =>
                            /\ answer[o].by = Current(o)
                            /\ Current(o) \notin lapsed'
                            /\ answer[o].text # answer[o].body =>
                                  backend = "gemini" /\ answer[o].body = "no text"
    BY <1>2 DEF AnswerIsCurrent, Current
  <2>1. CASE o = c
    <3>1. pc'[c] = s /\ answer[c] = Nothing BY DEF IInv, TypeOK, AnswerIsCurrent
    <3> QED BY <2>1, <3>1
  <2>2. CASE o # c
    <3>1. pc'[o] = pc[o] BY <2>2 DEF IInv, TypeOK
    <3>2. Current(o) # j BY <2>2 DEF Current
    <3> QED BY <1>2, <3>1, <3>2 DEF IInv, AnswerIsCurrent
  <2> QED BY <2>1, <2>2
<1> QED BY <1>3, <1>4, <1>5

LEMMA DeliverStep ==
    ASSUME IInv, NEW c \in Caller, NEW j \in Job, Deliver(c, j)
    PROVE  TypeOK' /\ AttemptInv' /\ JobInv' /\ LineInv' /\ AnswerIsCurrent'
<1> DEFINE read == Reading(job[j])
           given == [by |-> j, body |-> job[j], text |-> read]
<1>1. /\ pc[c] = "waiting" /\ j = Current(c) /\ job[j] \in Body
      /\ job' = [job EXCEPT ![j] = "over"]
      /\ UNCHANGED <<backend, attempt, line, lapsed>>
  BY DEF Deliver, Awaited
<1>2. \/ /\ pc' = GivesUp(c) /\ UNCHANGED answer
      \/ /\ read # "failure"
         /\ pc' = [pc EXCEPT ![c] = "answered"]
         /\ answer' = [answer EXCEPT ![c] = given]
  BY DEF Deliver
<1>3. read # "failure" => given \in Answers /\ given # Nothing
  <2>1. read # "failure" => read \in {"text", "empty"} BY <1>1 DEF Reading, Body
  <2> QED BY <1>1, <2>1, NothingAssumption DEF Answers
<1>4. \/ read = job[j] \/ read = "failure"
      \/ backend = "gemini" /\ job[j] = "no text"
  BY DEF Reading
<1>5. PICK s \in {"resting", "failed", "answered"} :
         /\ pc' = [pc EXCEPT ![c] = s]
         /\ s = "resting" => attempt[c] < Attempts
         /\ s # "answered" => answer' = answer
         /\ s = "answered" => read # "failure" /\ answer' = [answer EXCEPT ![c] = given]
  BY <1>2 DEF GivesUp
<1>6. /\ j \in Job /\ j \notin lapsed BY <1>1, CurrentIs
<1> HIDE DEF read, given
<1>7. TypeOK' BY <1>1, <1>3, <1>5 DEF IInv, TypeOK, Ended
<1>8. AttemptInv' /\ JobInv' /\ LineInv'
  <2>1. \A i \in Job : i # j => job'[i] = job[i] BY <1>1 DEF IInv, TypeOK
  <2>2. job'[j] = "over" /\ job[j] # "queued" BY <1>1 DEF IInv, TypeOK, Body
  <2> QED BY <1>1, <1>5, <2>1, <2>2, EndOfWait DEF Ended
<1>9. AnswerIsCurrent'
  <2> SUFFICES ASSUME NEW o \in Caller
               PROVE  /\ pc'[o] = "answered" <=> answer'[o] # Nothing
                      /\ pc'[o] = "answered" =>
                            /\ answer'[o].by = Current(o)
                            /\ Current(o) \notin lapsed
                            /\ answer'[o].text # answer'[o].body =>
                                  backend = "gemini" /\ answer'[o].body = "no text"
    BY <1>1 DEF AnswerIsCurrent, Current
  <2>1. CASE o = c /\ s = "answered"
    <3>1. pc'[o] = "answered" /\ answer'[o] = given
      BY <1>5, <2>1 DEF IInv, TypeOK
    <3>2. given.by = j /\ given.body = job[j] /\ given.text = read BY DEF given
    <3> QED BY <1>1, <1>3, <1>4, <1>5, <1>6, <2>1, <3>1, <3>2
  <2>2. CASE o = c /\ s # "answered"
    <3>1. answer[o] = Nothing BY <1>1, <2>2 DEF IInv, AnswerIsCurrent
    <3> QED BY <1>5, <2>2, <3>1 DEF IInv, TypeOK
  <2>3. CASE o # c
    <3>1. pc'[o] = pc[o] /\ answer'[o] = answer[o] BY <1>5, <2>3 DEF IInv, TypeOK
    <3> QED BY <3>1 DEF IInv, AnswerIsCurrent
  <2> QED BY <2>1, <2>2, <2>3
<1> QED BY <1>7, <1>8, <1>9

----------------------------------------------------------------------------
(* Threads. *)

\* A thread that takes a job was idle; nothing else starts one.
LEMMA PoolStep == IInv /\ [Next]_vars => PoolInv'
<1> SUFFICES ASSUME IInv, [Next]_vars, backend' = "gemini"
             PROVE  IsFiniteSet(Running') /\ Cardinality(Running') <= Workers
  BY DEF PoolInv
<1> USE DEF IInv, TypeOK
<1>1. backend = "gemini"
  BY DEF Next, Begin, Timeout, Cancel, StopWaiting, Take, Drop, Respond, Deliver, Done, vars
<1>2. IsFiniteSet(Running) /\ Cardinality(Running) <= Workers /\ Cardinality(Running) \in Nat
  BY <1>1, FS_CardinalityType DEF PoolInv
<1>3. ASSUME Running' \subseteq Running
      PROVE  IsFiniteSet(Running') /\ Cardinality(Running') <= Workers
  <2>1. /\ IsFiniteSet(Running') /\ Cardinality(Running') <= Cardinality(Running)
        /\ Cardinality(Running') \in Nat
    BY <1>2, <1>3, FS_Subset, FS_CardinalityType
  <2> QED BY <1>2, <2>1, ConstantsAssumption
<1>4. CASE Take
  <2> DEFINE h == Head(line)
  <2>1. job' = [job EXCEPT ![h] = Taken(h)] /\ Cardinality(Running) < Workers
    BY <1>4 DEF Take, Idle
  <2>2. Running' \subseteq Running \cup {h} BY <2>1 DEF Running
  <2>3. /\ IsFiniteSet(Running \cup {h})
        /\ Cardinality(Running \cup {h}) <= Cardinality(Running) + 1
        /\ Cardinality(Running \cup {h}) \in Nat
    <3>1. /\ IsFiniteSet(Running \cup {h})
          /\ Cardinality(Running \cup {h}) =
                IF h \in Running THEN Cardinality(Running) ELSE Cardinality(Running) + 1
      BY <1>2, FS_AddElement
    <3> QED BY <1>2, <3>1
  <2>4. /\ IsFiniteSet(Running')
        /\ Cardinality(Running') <= Cardinality(Running \cup {h})
        /\ Cardinality(Running') \in Nat
    BY <2>2, <2>3, FS_Subset, FS_CardinalityType
  <2> QED BY <1>2, <2>1, <2>3, <2>4, ConstantsAssumption
<1>5. ASSUME NEW c \in Caller, Begin(c) PROVE Running' \subseteq Running
  BY <1>1, <1>5 DEF Begin, Running
<1>6. ASSUME NEW c \in Caller, Timeout(c) \/ Cancel(c) PROVE Running' \subseteq Running
  BY <1>1, <1>6 DEF Timeout, Cancel, StopWaiting, Abandoned, Running
<1>7. ASSUME NEW j \in Job, Drop(j) PROVE Running' \subseteq Running
  BY <1>7 DEF Drop, Running
<1>8. ASSUME NEW j \in Job, NEW b \in Body, Respond(j, b) PROVE Running' \subseteq Running
  BY <1>8 DEF Respond, Running, Body
<1>9. ASSUME NEW c \in Caller, NEW j \in Job, Deliver(c, j) PROVE Running' \subseteq Running
  BY <1>9 DEF Deliver, Running
<1>10. CASE Done \/ UNCHANGED vars BY <1>3, <1>10 DEF Done, vars, Running
<1> QED
  BY <1>3, <1>4, <1>5, <1>6, <1>7, <1>8, <1>9, <1>10 DEF Next

----------------------------------------------------------------------------
(* Theorems. *)

LEMMA Invariance == Spec => []IInv
<1>1. IInv /\ [Next]_vars => IInv'
  <2> SUFFICES ASSUME IInv, [Next]_vars PROVE IInv' OBVIOUS
  <2> DEFINE Kept == TypeOK' /\ AttemptInv' /\ JobInv' /\ LineInv' /\ AnswerIsCurrent'
  <2>1. ASSUME NEW c \in Caller, Begin(c) PROVE Kept BY <2>1, BeginStep
  <2>2. ASSUME NEW c \in Caller, Timeout(c) PROVE Kept
    <3>1. PICK s \in {"resting", "failed"} :
             pc' = [pc EXCEPT ![c] = s] /\ (s = "resting" => attempt[c] < Attempts)
      BY <2>2 DEF Timeout, GivesUp
    <3>2. pc[c] = "waiting" /\ StopWaiting(c) BY <2>2 DEF Timeout, Timer
    <3> QED BY <3>1, <3>2, StopStep
  <2>3. ASSUME NEW c \in Caller, Cancel(c) PROVE Kept
    <3>1. pc[c] = "waiting" /\ StopWaiting(c) /\ pc' = [pc EXCEPT ![c] = "cancelled"]
      BY <2>3 DEF Cancel
    <3> QED BY <3>1, StopStep
  <2>4. ASSUME Take PROVE Kept BY <2>4, TakeStep
  <2>5. ASSUME NEW j \in Job, Drop(j) PROVE Kept BY <2>5, DropStep
  <2>6. ASSUME NEW j \in Job, NEW b \in Body, Respond(j, b) PROVE Kept
    BY <2>6, RespondStep
  <2>7. ASSUME NEW c \in Caller, NEW j \in Job, Deliver(c, j) PROVE Kept
    BY <2>7, DeliverStep
  <2>8. ASSUME Done \/ UNCHANGED vars PROVE Kept
    <3>1. UNCHANGED vars BY <2>8 DEF Done
    <3> QED
      BY <3>1 DEF vars, IInv, TypeOK, AttemptInv, JobInv, Waited, LineInv,
                  AnswerIsCurrent, Current
  <2>9. Kept BY <2>1, <2>2, <2>3, <2>4, <2>5, <2>6, <2>7, <2>8 DEF Next
  <2> QED BY <2>9, PoolStep DEF IInv
<1> QED BY InitInv, <1>1, PTL DEF Spec

\* Every variable keeps its type: in particular no caller makes more attempts
\* than the configuration allows.
THEOREM TypeCorrect == Spec => []TypeOK
<1>1. IInv => TypeOK BY DEF IInv
<1> QED BY <1>1, Invariance, PTL

\* A caller is answered by the attempt it was waiting for.
THEOREM AnswersAreCurrent == Spec => []AnswerIsCurrent
<1>1. IInv => AnswerIsCurrent BY DEF IInv
<1> QED BY <1>1, Invariance, PTL

\* Every request that is out is waited for, or lapsed in a thread; and no more
\* of them run than there are threads.
THEOREM OverlapsAreInThreads == Spec => []OverlapOnlyInThreads
<1>1. IInv => OverlapOnlyInThreads
  <2> SUFFICES ASSUME IInv PROVE OverlapOnlyInThreads OBVIOUS
  <2>1. ASSUME NEW j \in Running
        PROVE  \/ pc[j[1]] = "waiting" /\ j = Current(j[1])
               \/ backend = "gemini" /\ j \in lapsed
    <3>1. j \in Job /\ job[j] = "running" BY DEF Running
    <3>2. j[2] <= attempt[j[1]] BY <3>1, HasBegun
    <3>3. CASE Waited(j) BY <3>1, <3>3, JobIs DEF Waited, Current
    <3>4. CASE ~Waited(j) BY <3>1, <3>2, <3>4 DEF IInv, TypeOK, JobInv
    <3> QED BY <3>3, <3>4
  <2> QED BY <2>1 DEF IInv, PoolInv, OverlapOnlyInThreads
<1> QED BY <1>1, Invariance, PTL
=============================================================================
