-------------------------- MODULE TaskExecutorProofs --------------------------
(***************************************************************************)
(* Proofs about TaskExecutor, for every number of tasks and of calls of      *)
(* cancel(): execute() tells one story, and what a client reads of a task up *)
(* to its first final event implements TaskProtocol.                         *)
(***************************************************************************)
EXTENDS TaskExecutor, SequenceTheorems, TLAPS

Told(t) == {events[t][i] : i \in DOMAIN events[t]}

\* What may have been announced, by where execute() is.
Story(t) ==
    /\ step[t] = "new" => ~asked[t] /\ Told(t) = {}
    /\ step[t] = "accepted" => ~asked[t] /\ Told(t) \subseteq {"working", "canceled"}
    /\ step[t] = "running" => asked[t] /\ Told(t) \subseteq {"working", "canceled"}
    /\ step[t] = "delivered" =>
          asked[t] /\ Told(t) \subseteq {"working", "canceled", "artifact"}
    /\ step[t] = "over" =>
          \/ ~asked[t] /\ Told(t) \subseteq {"failed", "canceled"}
          \/ asked[t] /\ Told(t) \subseteq {"working", "canceled", "failed"}
          \/ asked[t] /\ Told(t) \subseteq {"working", "canceled", "artifact", "completed"}
    /\ step[t] = "killed" =>
          /\ Told(t) \subseteq {"working", "canceled", "artifact"}
          /\ "artifact" \in Told(t) => asked[t]

\* A blank query is refused, and goes no further.
Blank(t) ==
    query[t] = "blank" =>
        /\ step[t] \in {"new", "over"}
        /\ ~asked[t]
        /\ Told(t) \subseteq {"failed", "canceled"}

\* As long as nothing final was announced, the events are execute()'s own.
Open(t) ==
    FinalAt(t) = {} =>
        /\ step[t] = "new" => events[t] = <<>>
        /\ step[t] \in {"accepted", "running"} => events[t] = <<"working">>
        /\ step[t] = "delivered" => events[t] = <<"working", "artifact">>
        /\ step[t] = "killed" => events[t] \in {<<"working">>, <<"working", "artifact">>}
        /\ step[t] # "over"

Tasks == \A t \in Task : Story(t) /\ Blank(t) /\ Open(t)

\* There is a first final event if there is any (Cut is well defined).
FirstInv ==
    \A t \in Task : FinalAt(t) # {} =>
        \E i \in FinalAt(t) : \A j \in FinalAt(t) : i <= j

IInv == TaskTypeOK /\ Tasks /\ FirstInv /\ OnlyCancelsOverlap

----------------------------------------------------------------------------
(* One more event. *)

\* What an announcement does to the events of a task, and to the final ones.
LEMMA OneMore ==
    ASSUME TaskTypeOK, NEW t \in Task, NEW e \in Event, Emit(t, e)
    PROVE  /\ events' \in [Task -> Seq(Event)]
           /\ \A u \in Task : u # t => events'[u] = events[u]
           /\ events'[t] = Append(events[t], e)
           /\ Len(events[t]) \in Nat
           /\ DOMAIN events[t] = 1..Len(events[t])
           /\ DOMAIN events'[t] = 1..(Len(events[t]) + 1)
           /\ \A i \in 1..Len(events[t]) : events'[t][i] = events[t][i]
           /\ events'[t][Len(events[t]) + 1] = e
           /\ Told(t)' = Told(t) \cup {e}
           /\ FinalAt(t)' = IF e \in Final THEN FinalAt(t) \cup {Len(events[t]) + 1}
                            ELSE FinalAt(t)
<1> USE DEF TaskTypeOK
<1>1. /\ events[t] \in Seq(Event)
      /\ events' = [events EXCEPT ![t] = Append(events[t], e)]
  BY DEF Emit
<1>2. /\ events'[t] = Append(events[t], e)
      /\ \A u \in Task : u # t => events'[u] = events[u]
  BY <1>1
<1>3. /\ Len(events[t]) \in Nat
      /\ DOMAIN events[t] = 1..Len(events[t])
      /\ DOMAIN events'[t] = 1..(Len(events[t]) + 1)
      /\ \A i \in 1..Len(events[t]) : events'[t][i] = events[t][i]
      /\ events'[t][Len(events[t]) + 1] = e
      /\ events'[t] \in Seq(Event)
  BY <1>1, <1>2
<1>4. events' \in [Task -> Seq(Event)] BY <1>1, <1>3
<1>5. Told(t)' = Told(t) \cup {e}
  <2>1. Told(t)' = {events'[t][i] : i \in 1..(Len(events[t]) + 1)} BY <1>3 DEF Told
  <2>2. Told(t) = {events[t][i] : i \in 1..Len(events[t])} BY <1>3 DEF Told
  <2> HIDE DEF TaskTypeOK
  <2> QED BY <1>3, <2>1, <2>2
<1>6. FinalAt(t)' = IF e \in Final THEN FinalAt(t) \cup {Len(events[t]) + 1}
                    ELSE FinalAt(t)
  BY <1>3 DEF FinalAt
<1> QED BY <1>2, <1>3, <1>4, <1>5, <1>6

\* A task whose events do not change keeps all that is defined by them.
LEMMA NoneMore ==
    ASSUME NEW t \in Task, events'[t] = events[t]
    PROVE  Told(t)' = Told(t) /\ FinalAt(t)' = FinalAt(t)
BY DEF Told, FinalAt

\* The first final event stays the first.
LEMMA FirstStays ==
    ASSUME TaskTypeOK, FirstInv, NEW t \in Task, NEW e \in Event, Emit(t, e)
    PROVE  FirstInv'
<1> SUFFICES ASSUME NEW u \in Task, FinalAt(u)' # {}
             PROVE  \E i \in FinalAt(u)' : \A j \in FinalAt(u)' : i <= j
  BY DEF FirstInv
<1>1. CASE u # t BY <1>1, OneMore, NoneMore DEF FirstInv
<1>2. CASE u = t
  <2>1. FinalAt(t) \subseteq 1..Len(events[t]) BY OneMore DEF FinalAt
  <2>2. CASE FinalAt(t) = {} BY <1>2, <2>2, OneMore
  <2>3. CASE FinalAt(t) # {}
    <3>1. PICK i \in FinalAt(t) : \A j \in FinalAt(t) : i <= j BY <2>3 DEF FirstInv
    <3>2. \A j \in FinalAt(t)' : i <= j BY <2>1, <3>1, OneMore
    <3>3. i \in FinalAt(t)' BY <3>1, OneMore
    <3> QED BY <1>2, <3>2, <3>3
  <2> QED BY <2>2, <2>3
<1> QED BY <1>1, <1>2

\* A final event may follow others if these are cancel()'s or it is.
LEMMA OverlapStays ==
    ASSUME TaskTypeOK, OnlyCancelsOverlap, NEW t \in Task, NEW e \in Event, Emit(t, e),
           e = "canceled" \/ Told(t) \cap Final \subseteq {"canceled"}
    PROVE  OnlyCancelsOverlap'
<1> SUFFICES ASSUME NEW u \in Task, NEW i \in FinalAt(u)', NEW j \in (DOMAIN events[u])', i < j
             PROVE  events'[u][i] = "canceled" \/ events'[u][j] = "canceled"
  BY DEF OnlyCancelsOverlap
<1>1. CASE u # t BY <1>1, OneMore, NoneMore DEF OnlyCancelsOverlap
<1>2. CASE u = t
  <2>1. i \in 1..Len(events[t]) BY <1>2, OneMore DEF FinalAt
  <2>2. events'[t][i] = events[t][i] /\ i \in FinalAt(t)
    BY <1>2, <2>1, OneMore DEF FinalAt
  <2>3. CASE j \in 1..Len(events[t])
    BY <1>2, <2>2, <2>3, OneMore DEF OnlyCancelsOverlap
  <2>4. CASE j = Len(events[t]) + 1
    <3>1. events[t][i] \in Told(t) \cap Final BY <2>2 DEF FinalAt, Told
    <3> QED BY <1>2, <2>2, <2>4, <3>1, OneMore
  <2> QED BY <1>2, <2>3, <2>4, OneMore
<1> QED BY <1>1, <1>2

----------------------------------------------------------------------------
(* The invariant. *)

LEMMA InitInv == TaskInit => IInv
<1> SUFFICES ASSUME TaskInit PROVE IInv OBVIOUS
<1> USE DEF TaskInit
<1>1. TaskTypeOK BY MaxCancelsAssumption DEF TaskTypeOK
<1>2. \A t \in Task : Told(t) = {} /\ FinalAt(t) = {}
  <2>1. \A t \in Task : events[t] = <<>> OBVIOUS
  <2>2. <<>> \in Seq(Event) /\ Len(<<>>) = 0 BY EmptySeq
  <2>3. \A q \in Seq(Event) : DOMAIN q = 1..Len(q) OBVIOUS
  <2>4. DOMAIN <<>> = {} BY <2>2, <2>3
  <2> QED BY <2>1, <2>4, Zenon DEF Told, FinalAt
<1>3. Tasks BY <1>2 DEF Tasks, Story, Blank, Open
<1>4. FirstInv /\ OnlyCancelsOverlap BY <1>2 DEF FirstInv, OnlyCancelsOverlap
<1> QED BY <1>1, <1>3, <1>4 DEF IInv

\* A step that announces an event of one task keeps the invariant if it does
\* for that task.
LEMMA EmitKeeps ==
    ASSUME IInv, NEW t \in Task, NEW e \in Event, Emit(t, e),
           TaskTypeOK', query' = query,
           \A u \in Task : u # t => step'[u] = step[u] /\ asked'[u] = asked[u],
           Story(t)', Blank(t)', Open(t)',
           e = "canceled" \/ Told(t) \cap Final \subseteq {"canceled"}
    PROVE  IInv'
<1>1. ASSUME NEW u \in Task, u # t PROVE Story(u)' /\ Blank(u)' /\ Open(u)'
  <2>1. events'[u] = events[u] BY <1>1, OneMore DEF IInv
  <2>2. Told(u)' = Told(u) /\ FinalAt(u)' = FinalAt(u) BY <2>1, NoneMore
  <2> QED BY <1>1, <2>1, <2>2 DEF IInv, Tasks, Story, Blank, Open
<1>2. Tasks' BY <1>1 DEF Tasks
<1>3. FirstInv' /\ OnlyCancelsOverlap' BY FirstStays, OverlapStays DEF IInv
<1> QED BY <1>2, <1>3 DEF IInv

\* So does one that announces nothing.
LEMMA SilentKeeps ==
    ASSUME IInv, NEW t \in Task, events' = events,
           TaskTypeOK', query' = query,
           \A u \in Task : u # t => step'[u] = step[u] /\ asked'[u] = asked[u],
           Story(t)', Blank(t)', Open(t)'
    PROVE  IInv'
<1>1. \A u \in Task : Told(u)' = Told(u) /\ FinalAt(u)' = FinalAt(u) BY NoneMore
<1>2. ASSUME NEW u \in Task, u # t PROVE Story(u)' /\ Blank(u)' /\ Open(u)'
  BY <1>1, <1>2 DEF IInv, Tasks, Story, Blank, Open
<1>3. Tasks' BY <1>2 DEF Tasks
<1>4. FirstInv' /\ OnlyCancelsOverlap'
  BY <1>1 DEF IInv, FirstInv, OnlyCancelsOverlap
<1> QED BY <1>3, <1>4 DEF IInv

\* A final event is among those of its task.
LEMMA FinalIsLast ==
    ASSUME IInv, NEW t \in Task, NEW e \in Final, Emit(t, e)
    PROVE  FinalAt(t)' # {}
BY OneMore DEF IInv, Event

LEMMA StepInv ==
    ASSUME IInv, [TaskNext]_taskVars PROVE IInv'
<1> USE DEF At
<1>1. ASSUME NEW t \in Task, Refuse(t) PROVE IInv'
  <2>1. /\ Emit(t, "failed") /\ "failed" \in Event /\ "failed" \in Final
        /\ step' = [step EXCEPT ![t] = "over"] /\ step[t] = "new" /\ query[t] = "blank"
        /\ UNCHANGED <<query, asked, cancels>>
    BY <1>1 DEF Refuse, Event, Final
  <2>2. TaskTypeOK' BY <2>1, OneMore DEF IInv, TaskTypeOK
  <2>3. Told(t)' = Told(t) \cup {"failed"} /\ FinalAt(t)' # {}
    BY <2>1, OneMore, FinalIsLast DEF IInv
  <2>4. ~asked[t] /\ Told(t) = {} /\ step'[t] = "over"
    BY <2>1 DEF IInv, TaskTypeOK, Tasks, Story
  <2>5. Story(t)' /\ Blank(t)' /\ Open(t)'
    BY <2>1, <2>3, <2>4 DEF Story, Blank, Open
  <2> QED BY <2>1, <2>2, <2>4, <2>5, EmitKeeps DEF IInv, TaskTypeOK
<1>2. ASSUME NEW t \in Task, Accept(t) PROVE IInv'
  <2>1. /\ Emit(t, "working") /\ "working" \in Event /\ "working" \notin Final
        /\ step' = [step EXCEPT ![t] = "accepted"] /\ step[t] = "new" /\ query[t] = "text"
        /\ UNCHANGED <<query, asked, cancels>>
    BY <1>2 DEF Accept, Event, Final
  <2>2. TaskTypeOK' BY <2>1, OneMore DEF IInv, TaskTypeOK
  <2>3. Told(t)' = Told(t) \cup {"working"} /\ FinalAt(t)' = FinalAt(t)
    BY <2>1, OneMore DEF IInv
  <2>4. ~asked[t] /\ Told(t) = {} /\ step'[t] = "accepted"
    BY <2>1 DEF IInv, TaskTypeOK, Tasks, Story
  <2>5. FinalAt(t) = {} => events'[t] = <<"working">>
    BY <2>1, OneMore DEF IInv, Tasks, Open
  <2>6. Story(t)' /\ Blank(t)' /\ Open(t)'
    BY <2>1, <2>3, <2>4, <2>5 DEF Story, Blank, Open
  <2> QED BY <2>1, <2>2, <2>4, <2>6, EmitKeeps DEF IInv, TaskTypeOK
<1>3. ASSUME NEW t \in Task, Delegate(t) PROVE IInv'
  <2>1. /\ events' = events /\ step[t] = "accepted"
        /\ step' = [step EXCEPT ![t] = "running"] /\ asked' = [asked EXCEPT ![t] = TRUE]
        /\ UNCHANGED <<query, events, cancels>>
    BY <1>3 DEF Delegate
  <2>2. TaskTypeOK' BY <2>1 DEF IInv, TaskTypeOK
  <2>3. Told(t)' = Told(t) /\ FinalAt(t)' = FinalAt(t) BY <2>1, NoneMore
  <2>4. step'[t] = "running" /\ asked'[t] BY <2>1 DEF IInv, TaskTypeOK
  <2>5. Story(t)' /\ Blank(t)' /\ Open(t)'
    BY <2>1, <2>3, <2>4 DEF IInv, Tasks, Story, Blank, Open
  <2> QED BY <2>1, <2>2, <2>5, SilentKeeps DEF IInv, TaskTypeOK
<1>4. ASSUME NEW t \in Task, PipelineRaises(t) PROVE IInv'
  <2>1. /\ Emit(t, "failed") /\ "failed" \in Event /\ "failed" \in Final
        /\ step' = [step EXCEPT ![t] = "over"] /\ step[t] = "running"
        /\ UNCHANGED <<query, asked, cancels>>
    BY <1>4 DEF PipelineRaises, Raised, Event, Final
  <2>2. TaskTypeOK' BY <2>1, OneMore DEF IInv, TaskTypeOK
  <2>3. Told(t)' = Told(t) \cup {"failed"} /\ FinalAt(t)' # {}
    BY <2>1, OneMore, FinalIsLast DEF IInv
  <2>4. /\ asked[t] /\ Told(t) \subseteq {"working", "canceled"} /\ step'[t] = "over"
        /\ query[t] # "blank"
    BY <2>1 DEF IInv, TaskTypeOK, Tasks, Story, Blank
  <2>5. Story(t)' /\ Blank(t)' /\ Open(t)'
    BY <2>1, <2>3, <2>4 DEF Story, Blank, Open
  <2> QED BY <2>1, <2>2, <2>4, <2>5, EmitKeeps DEF IInv, TaskTypeOK, Final
<1>5. ASSUME NEW t \in Task, PipelineReturns(t) PROVE IInv'
  <2>1. /\ Emit(t, "artifact") /\ "artifact" \in Event /\ "artifact" \notin Final
        /\ step' = [step EXCEPT ![t] = "delivered"] /\ step[t] = "running"
        /\ UNCHANGED <<query, asked, cancels>>
    BY <1>5 DEF PipelineReturns, Outcome, Event, Final
  <2>2. TaskTypeOK' BY <2>1, OneMore DEF IInv, TaskTypeOK
  <2>3. Told(t)' = Told(t) \cup {"artifact"} /\ FinalAt(t)' = FinalAt(t)
    BY <2>1, OneMore DEF IInv
  <2>4. /\ asked[t] /\ Told(t) \subseteq {"working", "canceled"} /\ step'[t] = "delivered"
        /\ query[t] # "blank"
    BY <2>1 DEF IInv, TaskTypeOK, Tasks, Story, Blank
  <2>5. FinalAt(t) = {} => events'[t] = <<"working", "artifact">>
    BY <2>1, OneMore DEF IInv, Tasks, Open
  <2>6. Story(t)' /\ Blank(t)' /\ Open(t)'
    BY <2>1, <2>3, <2>4, <2>5 DEF Story, Blank, Open
  <2> QED BY <2>1, <2>2, <2>4, <2>6, EmitKeeps DEF IInv, TaskTypeOK, Final
<1>6. ASSUME NEW t \in Task, Complete(t) PROVE IInv'
  <2>1. /\ Emit(t, "completed") /\ "completed" \in Event /\ "completed" \in Final
        /\ step' = [step EXCEPT ![t] = "over"] /\ step[t] = "delivered"
        /\ UNCHANGED <<query, asked, cancels>>
    BY <1>6 DEF Complete, Outcome, Event, Final
  <2>2. TaskTypeOK' BY <2>1, OneMore DEF IInv, TaskTypeOK
  <2>3. Told(t)' = Told(t) \cup {"completed"} /\ FinalAt(t)' # {}
    BY <2>1, OneMore, FinalIsLast DEF IInv
  <2>4. /\ asked[t] /\ Told(t) \subseteq {"working", "canceled", "artifact"}
        /\ step'[t] = "over" /\ query[t] # "blank"
    BY <2>1 DEF IInv, TaskTypeOK, Tasks, Story, Blank
  <2>5. Story(t)' /\ Blank(t)' /\ Open(t)'
    BY <2>1, <2>3, <2>4 DEF Story, Blank, Open
  <2> QED BY <2>1, <2>2, <2>4, <2>5, EmitKeeps DEF IInv, TaskTypeOK, Final
<1>7. ASSUME NEW t \in Task, Kill(t) PROVE IInv'
  <2>1. /\ step[t] \in {"accepted", "running", "delivered"}
        /\ step' = [step EXCEPT ![t] = "killed"]
        /\ UNCHANGED <<query, events, asked, cancels>>
    BY <1>7 DEF Kill
  <2>2. TaskTypeOK' BY <2>1 DEF IInv, TaskTypeOK
  <2>3. Told(t)' = Told(t) /\ FinalAt(t)' = FinalAt(t) BY <2>1, NoneMore
  <2>4. step'[t] = "killed" BY <2>1 DEF IInv, TaskTypeOK
  <2>5. Story(t)' /\ Blank(t)' /\ Open(t)'
    BY <2>1, <2>3, <2>4 DEF IInv, Tasks, Story, Blank, Open
  <2> QED BY <2>1, <2>2, <2>5, SilentKeeps DEF IInv, TaskTypeOK
<1>8. ASSUME NEW t \in Task, CancelTask(t) PROVE IInv'
  <2>1. /\ Emit(t, "canceled") /\ "canceled" \in Event /\ "canceled" \in Final
        /\ step[t] # "new" /\ cancels[t] < MaxCancels
        /\ cancels' = [cancels EXCEPT ![t] = cancels[t] + 1]
        /\ UNCHANGED <<query, step, asked>>
    BY <1>8 DEF CancelTask, Event, Final
  <2>2. TaskTypeOK' BY <2>1, OneMore, MaxCancelsAssumption DEF IInv, TaskTypeOK
  <2>3. Told(t)' = Told(t) \cup {"canceled"} /\ FinalAt(t)' # {}
    BY <2>1, OneMore, FinalIsLast DEF IInv
  <2>4. Story(t)' /\ Blank(t)' /\ Open(t)'
    BY <2>1, <2>3 DEF IInv, Tasks, Story, Blank, Open
  <2> QED BY <2>1, <2>2, <2>4, EmitKeeps
<1>9. CASE UNCHANGED taskVars
  <2>1. \A t \in Task : Told(t)' = Told(t) /\ FinalAt(t)' = FinalAt(t)
    BY <1>9, NoneMore DEF taskVars
  <2>2. TaskTypeOK' BY <1>9 DEF taskVars, IInv, TaskTypeOK
  <2>3. ASSUME NEW t \in Task PROVE Story(t)' /\ Blank(t)' /\ Open(t)'
    BY <1>9, <2>1, <2>3 DEF taskVars, IInv, Tasks, Story, Blank, Open
  <2>4. FirstInv' /\ OnlyCancelsOverlap'
    BY <1>9, <2>1 DEF taskVars, IInv, FirstInv, OnlyCancelsOverlap
  <2> QED BY <2>2, <2>3, <2>4 DEF IInv, Tasks
<1> QED BY <1>1, <1>2, <1>3, <1>4, <1>5, <1>6, <1>7, <1>8, <1>9
        DEF TaskNext, Begin, Run

LEMMA Invariant == TaskSpec => []IInv
BY InitInv, StepInv, PTL DEF TaskSpec

\* The type invariant.
THEOREM TypeCorrect == TaskSpec => []TaskTypeOK
BY Invariant, PTL DEF IInv

\* Whenever cancel() is called and the SDK cancels execute(), the events are
\* those of one execution and of cancel(): no second end, no result beside a
\* failure, no run of the pipeline for a blank query.
THEOREM OneExecution == TaskSpec => []OneStory
<1>1. IInv => FailedTasksAreEmpty
  <2> SUFFICES ASSUME IInv, NEW t \in Task
               PROVE  /\ query[t] = "blank" =>
                            ~asked[t] /\ Told(t) \subseteq {"failed", "canceled"}
                      /\ "failed" \in Told(t) => "artifact" \notin Told(t)
                      /\ "artifact" \in Told(t) => asked[t]
    BY DEF FailedTasksAreEmpty, Told
  <2>1. /\ step[t] \in {"new", "accepted", "running", "delivered", "over", "killed"}
        /\ Story(t) /\ Blank(t)
    BY DEF IInv, TaskTypeOK, Tasks
  <2> QED BY <2>1 DEF Story, Blank
<1>2. IInv => OneStory BY <1>1 DEF IInv, OneStory
<1> QED BY <1>2, Invariant, PTL

----------------------------------------------------------------------------
(* The refinement. *)

\* Before anything final a client has seen every event; from then on what it
\* has seen does not change.
LEMMA ViewOpen ==
    ASSUME TaskTypeOK, NEW t \in Task, FinalAt(t) = {} PROVE View[t] = events[t]
<1>1. events[t] \in Seq(Event) BY DEF TaskTypeOK
<1>2. View[t] = SubSeq(events[t], 1, Len(events[t])) BY DEF View, Cut
<1> QED BY <1>1, <1>2, SubSeqFull

LEMMA LeastIsUnique ==
    ASSUME NEW F, F \subseteq Nat, NEW i \in F, \A j \in F : i <= j
    PROVE  (CHOOSE k \in F : \A j \in F : k <= j) = i
<1>1. \A k \in F : (\A j \in F : k <= j) => k = i OBVIOUS
<1> QED BY <1>1, Zenon

LEMMA CutIsFirst ==
    ASSUME TaskTypeOK, NEW t \in Task, NEW i \in FinalAt(t), \A j \in FinalAt(t) : i <= j
    PROVE  Cut(t) = i
<1>1. FinalAt(t) \subseteq Nat BY DEF FinalAt, TaskTypeOK
<1> QED BY <1>1, LeastIsUnique DEF Cut

\* The view after one more event.
LEMMA ViewGrows ==
    ASSUME IInv, NEW t \in Task, NEW e \in Event, Emit(t, e)
    PROVE  View' = IF FinalAt(t) = {} THEN [View EXCEPT ![t] = Append(View[t], e)] ELSE View
<1> USE DEF IInv
<1>1. ASSUME NEW u \in Task, u # t PROVE View'[u] = View[u]
  <2>1. events'[u] = events[u] BY <1>1, OneMore
  <2>2. FinalAt(u)' = FinalAt(u) BY <2>1, NoneMore
  <2>3. Cut(u)' = Cut(u) BY <2>1, <2>2 DEF Cut
  <2> QED BY <2>1, <2>3 DEF View
<1>3. CASE FinalAt(t) = {}
  <2>1. View[t] = events[t] BY <1>3, ViewOpen
  <2>2. Cut(t)' = Len(events[t]) + 1
    <3>1. CASE e \in Final
      <4>1. FinalAt(t)' = {Len(events[t]) + 1} BY <1>3, <3>1, OneMore
      <4>2. Cut(t)' = CHOOSE k \in FinalAt(t)' : \A j \in FinalAt(t)' : k <= j
        BY <4>1 DEF Cut
      <4>3. Len(events[t]) + 1 \in Nat BY OneMore
      <4> QED BY <4>1, <4>2, <4>3, LeastIsUnique
    <3>2. CASE e \notin Final
      <4>1. FinalAt(t)' = {} BY <1>3, <3>2, OneMore
      <4>2. Len(events'[t]) = Len(events[t]) + 1 BY OneMore DEF TaskTypeOK
      <4> QED BY <4>1, <4>2 DEF Cut
    <3> QED BY <3>1, <3>2
  <2>3. events'[t] \in Seq(Event) /\ Len(events'[t]) = Len(events[t]) + 1
    BY OneMore DEF TaskTypeOK
  <2>4. View'[t] = events'[t]
    <3>1. View'[t] = SubSeq(events'[t], 1, Len(events'[t])) BY <2>2, <2>3 DEF View
    <3> QED BY <2>3, <3>1, SubSeqFull
  <2>5. View'[t] = Append(View[t], e) BY <2>1, <2>4, OneMore
  <2> QED BY <1>1, <1>3, <2>5 DEF View
<1>4. CASE FinalAt(t) # {}
  <2>1. PICK i \in FinalAt(t) : \A j \in FinalAt(t) : i <= j BY <1>4 DEF FirstInv
  <2>2. Cut(t) = i BY <2>1, CutIsFirst
  <2>3. i \in 1..Len(events[t]) /\ FinalAt(t) \subseteq 1..Len(events[t])
    BY <2>1, OneMore DEF FinalAt
  <2>4. Cut(t)' = i
    <3>1. i \in FinalAt(t)' /\ \A j \in FinalAt(t)' : i <= j BY <2>1, <2>3, OneMore
    <3>2. FinalAt(t)' \subseteq Nat BY <2>3, OneMore
    <3>3. Cut(t)' = CHOOSE k \in FinalAt(t)' : \A j \in FinalAt(t)' : k <= j
      BY <3>1 DEF Cut
    <3> QED BY <3>1, <3>2, <3>3, LeastIsUnique
  <2>5. SubSeq(events'[t], 1, i) = SubSeq(events[t], 1, i)
    BY <2>3, OneMore DEF TaskTypeOK
  <2>6. View'[t] = View[t] BY <2>2, <2>4, <2>5 DEF View
  <2> QED BY <1>1, <1>4, <2>6 DEF View
<1> QED BY <1>3, <1>4

\* What a client sees of a task is a task of the protocol, whatever cancel()
\* and the SDK do beside execute().
THEOREM ClientsSeeTheProtocol == TaskSpec => ClientSeesTheProtocol
<1>1. TaskInit => Protocol!Init
  <2> SUFFICES ASSUME TaskInit, NEW t \in Task PROVE View[t] = <<>>
    BY DEF Protocol!Init, View
  <2>1. IInv /\ FinalAt(t) = {} /\ events[t] = <<>>
    BY InitInv DEF TaskInit, FinalAt
  <2> QED BY <2>1, ViewOpen DEF IInv
<1>2. ASSUME IInv, [TaskNext]_taskVars PROVE [Protocol!Next]_View
  <2> USE DEF Protocol!Next, Protocol!See
  <2>1. ASSUME NEW t \in Task, NEW e \in Event, Emit(t, e),
               FinalAt(t) = {} =>
                  \/ events[t] = <<>> /\ e \in {"working", "failed", "canceled"}
                  \/ events[t] = <<"working">> /\ e \in {"artifact", "failed", "canceled"}
                  \/ events[t] = <<"working", "artifact">> /\ e \in {"completed", "canceled"}
        PROVE  [Protocol!Next]_View
    <3>1. CASE FinalAt(t) # {} BY <1>2, <2>1, <3>1, ViewGrows
    <3>2. CASE FinalAt(t) = {}
      <4>1. /\ View' = [View EXCEPT ![t] = Append(View[t], e)]
            /\ View[t] = events[t]
        BY <1>2, <2>1, <3>2, ViewGrows, ViewOpen DEF IInv
      <4>2. ~Protocol!Ended(t)
        <5>1. \A i \in DOMAIN View[t] : View[t][i] \notin Final
          BY <3>2, <4>1 DEF FinalAt
        <5> QED BY <5>1 DEF Protocol!Ended, Protocol!Final, Final
      <4>3. CASE e = "canceled" BY <4>1, <4>2, <4>3 DEF Protocol!Canceled
      <4>4. CASE e = "failed" BY <2>1, <3>2, <4>1, <4>4 DEF Protocol!Failed
      <4>5. CASE e = "working" BY <2>1, <3>2, <4>1, <4>5 DEF Protocol!Accepted
      <4>6. CASE e = "artifact" BY <2>1, <3>2, <4>1, <4>6 DEF Protocol!Delivered
      <4>7. CASE e = "completed" BY <2>1, <3>2, <4>1, <4>7 DEF Protocol!Completed
      <4> QED BY <4>3, <4>4, <4>5, <4>6, <4>7 DEF Event, Final
    <3> QED BY <3>1, <3>2
  <2>2. ASSUME events' = events PROVE UNCHANGED View
    BY <2>2 DEF View, Cut, FinalAt
  <2>3. ASSUME NEW t \in Task, FinalAt(t) = {} PROVE Open(t) /\ Tasks
    BY <1>2 DEF IInv, Tasks
  <2>4. ASSUME NEW t \in Task, Refuse(t) PROVE [Protocol!Next]_View
    BY <2>1, <2>3, <2>4 DEF Refuse, At, Open, Event, Final
  <2>5. ASSUME NEW t \in Task, Accept(t) PROVE [Protocol!Next]_View
    BY <2>1, <2>3, <2>5 DEF Accept, At, Open, Event
  <2>6. ASSUME NEW t \in Task, PipelineRaises(t) PROVE [Protocol!Next]_View
    BY <2>1, <2>3, <2>6 DEF PipelineRaises, Raised, At, Open, Event, Final
  <2>7. ASSUME NEW t \in Task, PipelineReturns(t) PROVE [Protocol!Next]_View
    BY <2>1, <2>3, <2>7 DEF PipelineReturns, Outcome, At, Open, Event
  <2>8. ASSUME NEW t \in Task, Complete(t) PROVE [Protocol!Next]_View
    BY <2>1, <2>3, <2>8 DEF Complete, Outcome, At, Open, Event, Final
  <2>9. ASSUME NEW t \in Task, CancelTask(t) PROVE [Protocol!Next]_View
    <3>1. step[t] \in {"accepted", "running", "delivered", "over", "killed"}
      BY <1>2, <2>9 DEF CancelTask, IInv, TaskTypeOK
    <3>2. FinalAt(t) = {} =>
             events[t] = <<"working">> \/ events[t] = <<"working", "artifact">>
      BY <2>3, <3>1 DEF Open
    <3>3. Emit(t, "canceled") /\ "canceled" \in Event BY <2>9 DEF CancelTask, Event, Final
    <3> QED BY <2>1, <3>2, <3>3
  <2>10. ASSUME NEW t \in Task, Delegate(t) \/ Kill(t) PROVE events' = events
    BY <2>10 DEF Delegate, Kill
  <2>11. CASE UNCHANGED taskVars BY <2>2, <2>11 DEF taskVars
  <2> QED BY <1>2, <2>2, <2>4, <2>5, <2>6, <2>7, <2>8, <2>9, <2>10, <2>11
          DEF TaskNext, Begin, Run
<1> QED BY <1>1, <1>2, Invariant, PTL DEF TaskSpec, ClientSeesTheProtocol, Protocol!Spec
=============================================================================
