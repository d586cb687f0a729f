------------------------ MODULE ResearchPipelineProofs ------------------------
(***************************************************************************)
(* Proofs about ResearchPipeline, for every set of runs, queries, results    *)
(* and replies, every TopK and every number of cache failures.               *)
(*                                                                         *)
(* The first part is about the two loops the stages are made of: what a      *)
(* loop over a list computes is proved by the least element principle of the *)
(* natural numbers, which the library states without an operator parameter.  *)
(***************************************************************************)
EXTENDS ResearchPipeline, WellFoundedInduction, SequenceTheorems, TLAPS

USE DEF files, Lookup, Lose

----------------------------------------------------------------------------
(* Loops. *)

\* A non-empty set of natural numbers has a least element.
LEMMA Least ==
    ASSUME NEW T, T \subseteq Nat, T # {}
    PROVE  \E n \in T : \A m \in T : n <= m
<1>1. IsWellFoundedOn(OpToRel(<, Nat), Nat) BY NatLessThanWellFounded, Zenon
<1>2. PICK x \in T : \A y \in T : ~(<<y, x>> \in OpToRel(<, Nat))
  BY <1>1, WFMin, Zenon
<1>3. ASSUME NEW y \in T, y < x PROVE <<y, x>> \in OpToRel(<, Nat)
  BY <1>3 DEF OpToRel
<1>4. ASSUME NEW y \in T PROVE ~(y < x) BY <1>2, <1>3, <1>4, Zenon
<1> QED BY <1>4

\* g is the course of a loop of N turns over values of S, which starts with e
\* and goes on with step.
IsLoop(g, N, S, e, step) ==
    /\ g \in [0..N -> S]
    /\ g[0] = e
    /\ \A k \in 1..N : g[k] = step[<<k, g[k - 1]>>]

\* Every loop has a course.
LEMMA LoopIsDefined ==
    ASSUME NEW S, NEW N \in Nat, NEW e \in S, NEW step \in [(1..N) \X S -> S]
    PROVE  \E g : IsLoop(g, N, S, e, step)
<1> DEFINE Upto(n, g) == \A k \in 0..n : g[k] = IF k = 0 THEN e ELSE step[<<k, g[k - 1]>>]
           Bad == {n \in 0..N : ~ \E g \in [0..n -> S] : Upto(n, g)}
<1>1. Bad = {}
  <2> SUFFICES ASSUME Bad # {} PROVE FALSE OBVIOUS
  <2>1. Bad \subseteq Nat OBVIOUS
  <2>2. PICK n \in Bad : \A m \in Bad : n <= m
    <3> HIDE DEF Bad
    <3> QED BY <2>1, Least
  <2>3. CASE n = 0
    <3> DEFINE g == [k \in 0..0 |-> e]
    <3>1. g \in [0..n -> S] /\ Upto(n, g) BY <2>3
    <3> QED BY <3>1
  <2>4. CASE n # 0
    <3>1. n \in 1..N /\ n - 1 \in 0..N /\ n - 1 \notin Bad BY <2>2, <2>4
    <3>2. PICK g \in [0..(n - 1) -> S] : Upto(n - 1, g) BY <3>1
    <3> DEFINE h == [k \in 0..n |-> IF k = n THEN step[<<n, g[n - 1]>>] ELSE g[k]]
    <3>3. step[<<n, g[n - 1]>>] \in S BY <3>1
    <3>4. h \in [0..n -> S] BY <3>1, <3>3
    <3>5. ASSUME NEW k \in 0..n
          PROVE  h[k] = IF k = 0 THEN e ELSE step[<<k, h[k - 1]>>]
      <4>1. CASE k = n BY <3>1, <4>1
      <4>2. CASE k # n
        <5>1. k \in 0..(n - 1) /\ h[k] = g[k] BY <3>1, <4>2
        <5>2. k # 0 => k - 1 \in 0..(n - 1) /\ h[k - 1] = g[k - 1] BY <3>1, <5>1
        <5> HIDE DEF h
        <5> QED BY <3>2, <5>1, <5>2
      <4> QED BY <4>1, <4>2
    <3> HIDE DEF h
    <3>6. Upto(n, h) BY <3>5
    <3>7. \E g1 \in [0..n -> S] : Upto(n, g1) BY <3>4, <3>6
    <3> QED BY <3>7
  <2> QED BY <2>3, <2>4
<1>2. PICK g \in [0..N -> S] : Upto(N, g) BY <1>1
<1>3. g[0] = e
  <2>1. 0 \in 0..N OBVIOUS
  <2> QED BY <1>2, <2>1
<1>4. ASSUME NEW k \in 1..N PROVE g[k] = step[<<k, g[k - 1]>>]
  <2>1. k \in 0..N /\ k # 0 OBVIOUS
  <2> QED BY <1>2, <2>1
<1> QED BY <1>3, <1>4 DEF IsLoop

\* What holds at the start of a loop, and is kept by every turn, holds after
\* each of them.
LEMMA LoopKeeps ==
    ASSUME NEW S, NEW N \in Nat, NEW f, f[0] \in S,
           \A k \in 1..N : f[k - 1] \in S => f[k] \in S
    PROVE  \A k \in 0..N : f[k] \in S
<1> DEFINE Bad == {k \in 0..N : f[k] \notin S}
<1> SUFFICES ASSUME Bad # {} PROVE FALSE OBVIOUS
<1>1. Bad \subseteq Nat OBVIOUS
<1>2. PICK k \in Bad : \A m \in Bad : k <= m
  <2> HIDE DEF Bad
  <2> QED BY <1>1, Least
<1>3. k \in 1..N /\ k - 1 \in 0..N /\ k - 1 \notin Bad BY <1>2
<1> QED BY <1>2, <1>3

\* No two elements of a list of picks are the same.
Picks(n) == {q \in Seq(1..n) : IsInjective(q)}

LEMMA NoPick == ASSUME NEW n \in Nat PROVE <<>> \in Picks(n)
<1>1. <<>> \in Seq(1..n) /\ Len(<<>>) = 0 BY EmptySeq
<1>2. DOMAIN <<>> = 1..Len(<<>>) BY <1>1, LenProperties
<1> QED BY <1>1, <1>2 DEF Picks, IsInjective

\* A position that was not picked yet may be.
LEMMA OnePickMore ==
    ASSUME NEW n \in Nat, NEW q \in Picks(n), NEW i \in 1..n, i \notin ToSet(q)
    PROVE  Append(q, i) \in Picks(n)
<1>1. q \in Seq(1..n) /\ IsInjective(q) BY DEF Picks
<1>2. /\ Append(q, i) \in Seq(1..n) /\ Len(Append(q, i)) = Len(q) + 1
      /\ \A k \in 1..Len(q) : Append(q, i)[k] = q[k]
      /\ Append(q, i)[Len(q) + 1] = i
  BY <1>1, AppendProperties
<1>3. DOMAIN q = 1..Len(q) /\ DOMAIN Append(q, i) = 1..(Len(q) + 1) /\ Len(q) \in Nat
  BY <1>1, <1>2, LenProperties
<1>4. \A k \in 1..Len(q) : q[k] # i BY <1>3 DEF ToSet
<1>5. ASSUME NEW a \in 1..(Len(q) + 1), NEW b \in 1..(Len(q) + 1),
             Append(q, i)[a] = Append(q, i)[b]
      PROVE  a = b
  <2>1. CASE a = Len(q) + 1 \/ b = Len(q) + 1
    <3>1. a \in 1..Len(q) => Append(q, i)[a] # i BY <1>2, <1>4
    <3>2. b \in 1..Len(q) => Append(q, i)[b] # i BY <1>2, <1>4
    <3> QED BY <1>2, <1>3, <1>5, <2>1, <3>1, <3>2
  <2>2. CASE a \in 1..Len(q) /\ b \in 1..Len(q)
    BY <1>1, <1>2, <1>3, <1>5, <2>2 DEF IsInjective
  <2> QED BY <1>3, <2>1, <2>2
<1>6. IsInjective(Append(q, i)) BY <1>3, <1>5 DEF IsInjective
<1> QED BY <1>2, <1>6 DEF Picks

\* _materialize returns positions in range, none of them twice, whatever the
\* model replied.
LEMMA MaterializedPicks ==
    ASSUME NEW reply \in Seq(Int), NEW n \in Nat
    PROVE  Materialized(reply, n) \in Picks(n)
<1> DEFINE N == Len(reply)
           Turn(k, q) == IF reply[k] \in 1..n \ ToSet(q) THEN Append(q, reply[k]) ELSE q
           Loop(g) == [k \in 0..N |-> IF k = 0 THEN <<>> ELSE Turn(k, g[k - 1])]
           step == [x \in (1..N) \X Picks(n) |-> Turn(x[1], x[2])]
<1>0. N \in Nat BY LenProperties
<1>1. ASSUME NEW k \in 1..N, NEW q \in Picks(n) PROVE Turn(k, q) \in Picks(n)
  BY OnePickMore
<1>2. step \in [(1..N) \X Picks(n) -> Picks(n)] BY <1>1
<1>3. PICK g : IsLoop(g, N, Picks(n), <<>>, step)
  <2> HIDE DEF step, Turn, N
  <2>1. <<>> \in Picks(n) BY NoPick
  <2> QED BY <1>0, <1>2, <2>1, LoopIsDefined
<1>4. \A k \in 1..N : g[k] = Turn(k, g[k - 1])
  <2> SUFFICES ASSUME NEW k \in 1..N PROVE g[k] = Turn(k, g[k - 1]) OBVIOUS
  <2> HIDE DEF Turn, N
  <2>1. g[k - 1] \in Picks(n) BY <1>0, <1>3 DEF IsLoop
  <2>2. step[<<k, g[k - 1]>>] = Turn(k, g[k - 1]) BY <2>1
  <2> HIDE DEF step
  <2> QED BY <1>3, <2>2 DEF IsLoop
<1>5. g = Loop(g)
  <2>1. ASSUME NEW k \in 0..N
        PROVE  g[k] = IF k = 0 THEN <<>> ELSE Turn(k, g[k - 1])
    <3> HIDE DEF step, Turn, N
    <3>1. k = 0 \/ k \in 1..N BY <1>0
    <3> QED BY <1>3, <1>4, <3>1 DEF IsLoop
  <2>2. g = [k \in 0..N |-> g[k]] BY <1>3 DEF IsLoop
  <2> HIDE DEF Turn, step, N
  <2> QED BY <2>1, <2>2
<1> DEFINE f == CHOOSE h : h = Loop(h)
<1>6. f = Loop(f)
  <2> HIDE DEF Loop
  <2> QED BY <1>5
<1>7. Materialized(reply, n) = f[N]
  BY DEF Materialized
<1> HIDE DEF f
<1>8. f[0] = <<>> /\ \A k \in 1..N : f[k] = Turn(k, f[k - 1])
  <2> HIDE DEF Turn, N
  <2> QED BY <1>0, <1>6
<1>9. \A k \in 0..N : f[k] \in Picks(n)
  <2>1. f[0] \in Picks(n) BY <1>8, NoPick
  <2>2. \A k \in 1..N : f[k - 1] \in Picks(n) => f[k] \in Picks(n)
    <3> HIDE DEF Turn, N
    <3> QED BY <1>1, <1>8
  <2> QED BY <1>0, <2>1, <2>2, LoopKeeps
<1> QED BY <1>0, <1>7, <1>9

\* select picks at most TopK positions of the results, none of them twice, and
\* something if there is something, whatever the model replied or failed to.
LEMMA ChosenPicks ==
    ASSUME NEW reply \in Reply \cup {Error}, NEW n \in Nat
    PROVE  /\ Chosen(reply, n) \in Picks(n)
           /\ Len(Chosen(reply, n)) <= TopK
           /\ n # 0 /\ TopK # 0 => Chosen(reply, n) # <<>>
<1> USE ConstantsAssumption
<1>1. /\ Leading(n) \in Picks(n) /\ Len(Leading(n)) <= TopK
      /\ n # 0 /\ TopK # 0 => Leading(n) # <<>>
  <2> DEFINE m == Smaller(TopK, n)
  <2>1. m \in Nat /\ m <= n /\ m <= TopK /\ (n # 0 /\ TopK # 0 => m # 0) BY DEF Smaller
  <2>2. Leading(n) = [i \in 1..m |-> i] BY DEF Leading
  <2> HIDE DEF m
  <2>3. Leading(n) \in [1..m -> 1..n] BY <2>1, <2>2
  <2>4. Leading(n) \in Seq(1..n) /\ Len(Leading(n)) = m BY <2>1, <2>3, IsASeq, LenProperties
  <2>5. IsInjective(Leading(n)) BY <2>2 DEF IsInjective
  <2>6. Leading(n) = <<>> => m = 0 BY <2>4, EmptySeq
  <2> QED BY <2>1, <2>4, <2>5, <2>6 DEF Picks
<1>2. CASE reply = Error BY <1>1, <1>2 DEF Chosen
<1>3. CASE reply # Error
  <2> DEFINE picks == Materialized(reply, n)
             m == Smaller(TopK, Len(picks))
  <2>1. picks \in Seq(1..n) /\ IsInjective(picks)
    BY <1>3, MaterializedPicks DEF Picks
  <2>2. Chosen(reply, n) = IF picks = <<>> THEN Leading(n) ELSE SubSeq(picks, 1, m)
    BY <1>3 DEF Chosen
  <2> HIDE DEF picks
  <2>3. CASE picks # <<>>
    <3>1. /\ Len(picks) \in Nat /\ Len(picks) # 0 /\ DOMAIN picks = 1..Len(picks)
      BY <2>1, <2>3, LenProperties, EmptySeq
    <3>2. m \in 0..Len(picks) /\ m <= TopK /\ (TopK # 0 => m # 0)
      BY <3>1 DEF Smaller
    <3> HIDE DEF m
    <3>3. /\ SubSeq(picks, 1, m) \in Seq(1..n) /\ Len(SubSeq(picks, 1, m)) = m
          /\ \A i \in 1..m : SubSeq(picks, 1, m)[i] = picks[i]
      BY <2>1, <3>1, <3>2, SubSeqProperties
    <3>4. DOMAIN SubSeq(picks, 1, m) = 1..m /\ (SubSeq(picks, 1, m) = <<>> => m = 0)
      BY <3>3, LenProperties, EmptySeq
    <3>5. IsInjective(SubSeq(picks, 1, m))
      BY <2>1, <3>1, <3>2, <3>3, <3>4 DEF IsInjective
    <3> QED BY <2>2, <2>3, <3>2, <3>3, <3>4, <3>5 DEF Picks
  <2> QED BY <1>1, <2>2, <2>3
<1> QED BY <1>2, <1>3

\* validate keeps pages that were judged "keep", each with the URL it was
\* scraped from.
LEMMA KeptPages ==
    ASSUME NEW found, NEW chosen, NEW page, NEW verdicts, Len(page) \in Nat
    PROVE  KeptOf(found, chosen, page, verdicts) \in
               Seq({<<found[chosen[i]], page[i]>> :
                       i \in {j \in 1..Len(page) : verdicts[j] = "keep"}})
<1> DEFINE N == Len(page)
           E == {<<found[chosen[i]], page[i]>> :
                    i \in {j \in 1..N : verdicts[j] = "keep"}}
           Turn(k, q) == IF verdicts[k] = "keep"
                           THEN Append(q, <<found[chosen[k]], page[k]>>) ELSE q
           Loop(g) == [k \in 0..N |-> IF k = 0 THEN <<>> ELSE Turn(k, g[k - 1])]
           step == [x \in (1..N) \X Seq(E) |-> Turn(x[1], x[2])]
<1>1. ASSUME NEW k \in 1..N, NEW q \in Seq(E) PROVE Turn(k, q) \in Seq(E)
  <2>1. verdicts[k] = "keep" => <<found[chosen[k]], page[k]>> \in E OBVIOUS
  <2> HIDE DEF E
  <2> QED BY <2>1, AppendProperties
<1>2. step \in [(1..N) \X Seq(E) -> Seq(E)]
  <2> HIDE DEF E, Turn
  <2> QED BY <1>1
<1>3. <<>> \in Seq(E) BY EmptySeq
<1>4. PICK g : IsLoop(g, N, Seq(E), <<>>, step)
  <2> HIDE DEF step, Turn, N, E
  <2> QED BY <1>2, <1>3, LoopIsDefined DEF N
<1> HIDE DEF E
<1>5. \A k \in 1..N : g[k] = Turn(k, g[k - 1])
  <2> SUFFICES ASSUME NEW k \in 1..N PROVE g[k] = Turn(k, g[k - 1]) OBVIOUS
  <2> HIDE DEF Turn
  <2>1. g[k - 1] \in Seq(E) BY <1>4 DEF IsLoop
  <2>2. step[<<k, g[k - 1]>>] = Turn(k, g[k - 1]) BY <2>1
  <2> HIDE DEF step
  <2> QED BY <1>4, <2>2 DEF IsLoop
<1>6. g = Loop(g)
  <2>1. ASSUME NEW k \in 0..N
        PROVE  g[k] = IF k = 0 THEN <<>> ELSE Turn(k, g[k - 1])
    <3> HIDE DEF step, Turn, N
    <3>1. k = 0 \/ k \in 1..N BY DEF N
    <3> QED BY <1>4, <1>5, <3>1 DEF IsLoop
  <2>2. g = [k \in 0..N |-> g[k]] BY <1>4 DEF IsLoop
  <2> HIDE DEF Turn, step, N
  <2> QED BY <2>1, <2>2
<1> DEFINE f == CHOOSE h : h = Loop(h)
<1>7. f = Loop(f)
  <2> HIDE DEF Loop
  <2> QED BY <1>6
<1>8. KeptOf(found, chosen, page, verdicts) = f[N] BY DEF KeptOf
<1> HIDE DEF f
<1>9. f[0] = <<>> /\ \A k \in 1..N : f[k] = Turn(k, f[k - 1])
  <2> HIDE DEF Turn, N
  <2> QED BY <1>7 DEF N
<1>10. \A k \in 0..N : f[k] \in Seq(E)
  <2>1. f[0] \in Seq(E) BY <1>3, <1>9
  <2>2. \A k \in 1..N : f[k - 1] \in Seq(E) => f[k] \in Seq(E)
    <3> HIDE DEF Turn
    <3> QED BY <1>1, <1>9
  <2> QED BY <2>1, <2>2, LoopKeeps
<1>11. KeptOf(found, chosen, page, verdicts) \in Seq(E) BY <1>8, <1>10
<1> QED BY <1>11 DEF E

----------------------------------------------------------------------------
(* The inductive invariant. *)

CallState == {"new", "out", "in", "lost"}
Plan == [found : Seq(Url), chosen : Seq(Nat), page : Seq(Page), kept : Seq(Url \X Text)]

\* What a call of stage s answers a run that goes on.
AnswerOf(s) ==
    CASE s = "search"    -> Listing
      [] s = "select"    -> Reply \cup {Error}
      [] s = "scrape"    -> Page
      [] s = "judge"     -> {"keep", "drop", Error}
      [] s = "summarize" -> {"summary", Error}

\* What a record of stage s may hold.
RecordOf(s) ==
    CASE s = "search"    -> Listing
      [] s = "select"    -> Reply
      [] s = "scrape"    -> Page \ {"extract"}
      [] s = "judge"     -> {"keep", "drop"}
      [] s = "summarize" -> {"summary"}

ShapeInv ==
    /\ status \in [Run -> {"idle", "running", "done", "raised", "cancelled"}]
    /\ stage \in [Run -> Stage]
    /\ query \in [Run -> Query]
    /\ call \in [Run -> Seq(CallState)]
    /\ torn \subseteq {"search", "scrape", "llm"}
    /\ garbled \subseteq {"search", "scrape", "llm"}
    /\ DOMAIN answer = Run
    /\ \A r \in Run : answer[r] = [i \in DOMAIN call[r] |-> answer[r][i]]
    /\ plan \in [Run -> Plan]
    /\ faults \in 0..MaxFaults
    /\ paid \in [Run -> BOOLEAN]
    /\ clean \in [Run -> BOOLEAN]
    /\ alone \in [Run -> BOOLEAN]
    /\ before \in [Run -> SUBSET Run]

RecordsFit(m) == \A k \in DOMAIN m : \A s \in Stage : k[1] = s => m[k] \in RecordOf(s)

MemoInv == RecordsFit(memo) /\ RecordsFit(safe)

\* The plan p of a run at stage s with the status st: what the stages before
\* have added to it, and nothing of what is to come.
PlanFits(st, s, p) ==
    /\ p.found \in Listing \cup {<<>>}
    /\ s = "search" /\ st # "done" => p.found = <<>>
    /\ s = "search" /\ st = "done" => p.found = <<>> \/ TopK = 0
    /\ s # "search" => p.found \in Listing /\ p.found # <<>> /\ TopK # 0
    /\ s \in {"search", "select"} => p.chosen = <<>>
    /\ s \notin {"search", "select"} =>
          p.chosen \in Picks(Len(p.found)) /\ p.chosen # <<>> /\ Len(p.chosen) <= TopK
    /\ s \notin {"judge", "summarize"} => p.page = <<>>
    /\ s \in {"judge", "summarize"} => Len(p.page) = Len(p.chosen)
    /\ s # "summarize" => p.kept = <<>>
    /\ s = "summarize" =>
          /\ p.kept # <<>>
          /\ \A n \in DOMAIN p.kept : \E i \in DOMAIN p.chosen :
                p.kept[n] = <<p.found[p.chosen[i]], p.page[i]>> /\ HasText(p.page[i])

\* The calls c of that stage, and what they were answered: one call or one for
\* each result chosen, none to the model about a page without text, and an
\* answer of the right kind to each, since a search that failed ended the run.
CallsFit(st, s, c, a, p) ==
    /\ Len(c) = IF s \in {"scrape", "judge"} THEN Len(p.chosen) ELSE 1
    /\ \A i \in DOMAIN c :
          /\ c[i] = "in" /\ st \in {"idle", "running"} => a[i] \in AnswerOf(s)
          /\ s = "judge" /\ c[i] \in {"new", "out"} => HasText(p.page[i])
          /\ s = "judge" /\ c[i] = "in" /\ a[i] = "keep" => HasText(p.page[i])
          /\ st = "done" => c[i] = "in"
          /\ st = "cancelled" => c[i] \notin {"new", "out"}

RunsFit ==
    \A r \in Run :
        /\ PlanFits(status[r], stage[r], plan[r])
        /\ CallsFit(status[r], stage[r], call[r], answer[r], plan[r])

RaiseInv ==
    /\ garbled # {} => faults # 0
    /\ \A r \in Run :
          status[r] = "raised" /\ faults = 0 => stage[r] \in {"search", "summarize"}

IInv ==
    /\ ShapeInv
    /\ MemoInv
    /\ RunsFit
    /\ RaiseInv

----------------------------------------------------------------------------
(* What the steps have in common. *)

\* A sequence stays one, of the same length, when one element is replaced.
LEMMA OneCallChanges ==
    ASSUME NEW S, NEW c \in Seq(S), NEW i \in DOMAIN c, NEW v \in S
    PROVE  /\ [c EXCEPT ![i] = v] \in Seq(S)
           /\ DOMAIN [c EXCEPT ![i] = v] = DOMAIN c
           /\ Len([c EXCEPT ![i] = v]) = Len(c)
<1>1. DOMAIN c = 1..Len(c) /\ Len(c) \in Nat /\ c \in [1..Len(c) -> S] BY LenProperties
<1>2. [c EXCEPT ![i] = v] \in [1..Len(c) -> S] BY <1>1
<1> QED BY <1>1, <1>2, IsASeq, LenProperties

\* A function on 1..n is a sequence of length n.
LEMMA ListOf ==
    ASSUME NEW S, NEW n \in Nat, NEW f \in [1..n -> S]
    PROVE  f \in Seq(S) /\ Len(f) = n /\ DOMAIN f = 1..n
BY IsASeq, LenProperties

\* A key names the stage it belongs to.
LEMMA KeyNamesStage ==
    ASSUME NEW r \in Run, NEW i, stage[r] \in Stage
    PROVE  Key(r, i)[1] = stage[r]
BY DEF Key, Stage

\* One more record of the right kind.
LEMMA RecordedFits ==
    ASSUME NEW m, RecordsFit(m), NEW r \in Run, NEW i, stage[r] \in Stage,
           NEW a \in Outcome(stage[r]), Storable(stage[r], a)
    PROVE  RecordsFit(Recorded(m, Key(r, i), a))
<1>1. a \in RecordOf(stage[r])
  BY ConstantsAssumption DEF Outcome, Storable, RecordOf, Stage, Page
<1>2. Key(r, i)[1] = stage[r] BY KeyNamesStage
<1>3. PICK key : key = Key(r, i) OBVIOUS
<1>4. PICK n : n = [k \in DOMAIN m \cup {key} |-> IF k = key THEN a ELSE m[k]] OBVIOUS
<1>5. ASSUME NEW k \in DOMAIN n, NEW s \in Stage, k[1] = s PROVE n[k] \in RecordOf(s)
  <2>1. CASE k = key BY <1>1, <1>2, <1>3, <1>4, <1>5, <2>1
  <2>2. CASE k # key BY <1>4, <1>5, <2>2 DEF RecordsFit
  <2> QED BY <2>1, <2>2
<1>6. RecordsFit(n) BY <1>5 DEF RecordsFit
<1> QED BY <1>3, <1>4, <1>6 DEF Recorded

\* The records of one file are read again from m.
LEMMA RereadFits ==
    ASSUME NEW m, RecordsFit(m), RecordsFit(memo), NEW f
    PROVE  RecordsFit(Reread(f, m))
BY DEF RecordsFit, Reread

\* What the caches hold is of the right kind, whatever is put next, and whether
\* or not the put is whole.
LEMMA PuttingKeepsMemo ==
    ASSUME IInv, NEW r \in Run, NEW i, NEW a \in Outcome(stage[r]), Storable(stage[r], a),
           Put(Key(r, i), a) \/ PutRaises(Key(r, i), a)
    PROVE  /\ MemoInv'
           /\ torn' \subseteq {"search", "scrape", "llm"}
           /\ garbled' \subseteq {"search", "scrape", "llm"}
<1>1. /\ stage[r] \in Stage /\ RecordsFit(memo) /\ RecordsFit(safe)
      /\ torn \subseteq {"search", "scrape", "llm"}
      /\ garbled \subseteq {"search", "scrape", "llm"}
  BY DEF IInv, ShapeInv, MemoInv
<1>2. PICK key : key = Key(r, i) OBVIOUS
<1>3. FileOf(key) \in {"search", "scrape", "llm"} BY DEF FileOf
<1>4. RecordsFit(Recorded(memo, key, a)) /\ RecordsFit(Recorded(safe, key, a))
  BY <1>1, <1>2, RecordedFits
<1>5. \A m : RecordsFit(m) => RecordsFit(Reread(FileOf(key), m)) BY <1>1, RereadFits
<1>6. CASE UNCHANGED files
  <2>1. MemoInv' BY <1>1, <1>6 DEF MemoInv, RecordsFit
  <2> QED BY <1>1, <1>6, <2>1
<1> HIDE DEF RecordsFit
<1>7. CASE TornPut(key, a)
  <2>1. RecordsFit(memo)' /\ RecordsFit(safe)'
    <3>1. safe' = safe /\ memo' \in {memo, Recorded(memo, key, a), Reread(FileOf(key), safe)}
      BY <1>7 DEF TornPut
    <3>2. PICK m, n : m = memo' /\ n = safe' OBVIOUS
    <3>3. RecordsFit(m) /\ RecordsFit(n) BY <1>1, <1>4, <1>5, <3>1, <3>2
    <3> QED BY <3>2, <3>3 DEF RecordsFit
  <2> QED BY <1>1, <1>3, <1>7, <2>1 DEF TornPut, MemoInv
<1>8. CASE Put(key, a)
  <2>1. RecordsFit(memo)' /\ RecordsFit(safe)'
    <3>1. safe' \in {safe, Recorded(safe, key, a)} /\ memo' = Reread(FileOf(key), safe')
      BY <1>8 DEF Put
    <3>2. PICK m, n : m = memo' /\ n = safe' OBVIOUS
    <3>3. RecordsFit(n) BY <1>1, <1>4, <3>1, <3>2
    <3>4. RecordsFit(m) BY <1>5, <3>1, <3>2, <3>3
    <3> QED BY <3>2, <3>3, <3>4 DEF RecordsFit
  <2> QED BY <1>1, <1>3, <1>8, <2>1 DEF Put, MemoInv
<1> QED BY <1>2, <1>6, <1>7, <1>8 DEF PutRaises

\* Nothing of the run o but its history changes.
Same(o) ==
    /\ status'[o] = status[o] /\ stage'[o] = stage[o] /\ plan'[o] = plan[o]
    /\ call'[o] = call[o] /\ answer'[o] = answer[o]

\* A step of one run leaves the others as they fit.
LEMMA OthersFit ==
    ASSUME IInv, NEW r \in Run, \A o \in Run \ {r} : Same(o),
           PlanFits(status'[r], stage'[r], plan'[r]),
           CallsFit(status'[r], stage'[r], call'[r], answer'[r], plan'[r])
    PROVE  RunsFit'
<1> SUFFICES ASSUME NEW o \in Run
             PROVE  /\ PlanFits(status'[o], stage'[o], plan'[o])
                    /\ CallsFit(status'[o], stage'[o], call'[o], answer'[o], plan'[o])
  BY DEF RunsFit
<1>1. CASE o = r BY <1>1
<1>2. CASE o # r BY <1>2 DEF Same, IInv, RunsFit
<1> QED BY <1>1, <1>2

----------------------------------------------------------------------------
(* The invariant holds at first, and every step keeps it. *)

LEMMA OneCall ==
    ASSUME NEW S, NEW v \in S
    PROVE  <<v>> \in Seq(S) /\ Len(<<v>>) = 1 /\ DOMAIN <<v>> = {1} /\ <<v>>[1] = v
OBVIOUS

LEMMA InitFits == Init => IInv
<1> SUFFICES ASSUME Init PROVE IInv OBVIOUS
<1> USE DEF Init
<1>1. <<"new">> \in Seq(CallState) /\ Len(<<"new">>) = 1 /\ DOMAIN <<"new">> = {1}
  BY OneCall DEF CallState
<1>2. NoPlan \in Plan BY EmptySeq DEF NoPlan, Plan
<1>3. ShapeInv
  <2>1. \A r \in Run : answer[r] = [i \in DOMAIN call[r] |-> answer[r][i]] BY <1>1, OneCall
  <2> QED BY <1>1, <1>2, <2>1, ConstantsAssumption DEF ShapeInv, Stage
<1>4. MemoInv
  <2>1. DOMAIN memo = {} /\ DOMAIN safe = {} BY EmptySeq
  <2> QED BY <2>1 DEF MemoInv, RecordsFit
<1>5. RunsFit
  <2> SUFFICES ASSUME NEW r \in Run
               PROVE  /\ PlanFits(status[r], stage[r], plan[r])
                      /\ CallsFit(status[r], stage[r], call[r], answer[r], plan[r])
    BY DEF RunsFit
  <2>1. PlanFits("idle", "search", NoPlan) BY DEF PlanFits, NoPlan
  <2>2. CallsFit("idle", "search", <<"new">>, answer[r], NoPlan) BY <1>1, OneCall DEF CallsFit
  <2> QED BY <2>1, <2>2
<1>6. RaiseInv BY DEF RaiseInv
<1> QED BY <1>3, <1>4, <1>5, <1>6 DEF IInv

LEMMA StartFits == ASSUME IInv, NEW r \in Run, Start(r) PROVE IInv'
<1> USE DEF Start
<1>1. ShapeInv' BY DEF IInv, ShapeInv
<1>2. MemoInv' BY DEF IInv, MemoInv, RecordsFit
<1>3. RunsFit'
  <2>1. \A o \in Run \ {r} : Same(o) BY DEF IInv, ShapeInv, Same
  <2>2. /\ status[r] = "idle" /\ status'[r] = "running" /\ stage'[r] = stage[r]
        /\ plan'[r] = plan[r] /\ call'[r] = call[r] /\ answer'[r] = answer[r]
    BY DEF IInv, ShapeInv
  <2>3. PlanFits("running", stage[r], plan[r])
    BY <2>2 DEF IInv, RunsFit, PlanFits
  <2>4. CallsFit("running", stage[r], call[r], answer[r], plan[r])
    BY <2>2 DEF IInv, RunsFit, CallsFit
  <2> QED BY <2>1, <2>2, <2>3, <2>4, OthersFit
<1>4. RaiseInv' BY DEF IInv, ShapeInv, RaiseInv
<1> QED BY <1>1, <1>2, <1>3, <1>4 DEF IInv

\* A call i of run r is settled with a, or sent, or lost.
LEMMA CallStep ==
    ASSUME IInv, NEW r \in Run, NEW i \in DOMAIN call[r], NEW v \in CallState,
           call' = [call EXCEPT ![r][i] = v]
    PROVE  /\ call' \in [Run -> Seq(CallState)]
           /\ DOMAIN call'[r] = DOMAIN call[r] /\ Len(call'[r]) = Len(call[r])
           /\ call'[r][i] = v
           /\ \A j \in DOMAIN call[r] : j # i => call'[r][j] = call[r][j]
           /\ \A o \in Run : o # r => call'[o] = call[o]
<1>1. call \in [Run -> Seq(CallState)] BY DEF IInv, ShapeInv
<1> DEFINE c == [call[r] EXCEPT ![i] = v]
<1>2. c \in Seq(CallState) /\ DOMAIN c = DOMAIN call[r] /\ Len(c) = Len(call[r])
  BY <1>1, OneCallChanges
<1>3. c[i] = v /\ \A j \in DOMAIN call[r] : j # i => c[j] = call[r][j] OBVIOUS
<1>4. call' = [call EXCEPT ![r] = c] OBVIOUS
<1> HIDE DEF c
<1> QED BY <1>1, <1>2, <1>3, <1>4

LEMMA AnswerStep ==
    ASSUME IInv, NEW r \in Run, NEW i \in DOMAIN call[r], NEW a, Settles(r, i, a)
    PROVE  /\ DOMAIN answer' = Run
           /\ \A o \in Run : answer'[o] = [j \in DOMAIN call'[o] |-> answer'[o][j]]
           /\ answer'[r][i] = a
           /\ \A j \in DOMAIN call[r] : j # i => answer'[r][j] = answer[r][j]
           /\ \A o \in Run : o # r => answer'[o] = answer[o]
<1>1. DOMAIN answer = Run /\ \A o \in Run : answer[o] = [j \in DOMAIN call[o] |-> answer[o][j]]
  BY DEF IInv, ShapeInv
<1> DEFINE b == [answer[r] EXCEPT ![i] = a]
<1>2. answer' = [answer EXCEPT ![r] = b] BY DEF Settles
<1>3. /\ DOMAIN answer' = Run /\ answer'[r] = b
      /\ \A o \in Run : o # r => answer'[o] = answer[o]
  <2> HIDE DEF b
  <2> QED BY <1>1, <1>2
<1>4. DOMAIN answer[r] = DOMAIN call[r] BY <1>1
<1>5. /\ b = [j \in DOMAIN call[r] |-> b[j]] /\ b[i] = a
      /\ \A j \in DOMAIN call[r] : j # i => b[j] = answer[r][j]
  BY <1>4
<1>6. \A o \in Run : DOMAIN call'[o] = DOMAIN call[o]
  BY CallStep DEF Settles, CallState
<1>7. ASSUME NEW o \in Run PROVE answer'[o] = [j \in DOMAIN call'[o] |-> answer'[o][j]]
  <2> HIDE DEF b
  <2>1. CASE o = r BY <1>3, <1>5, <1>6, <2>1
  <2>2. CASE o # r BY <1>1, <1>3, <1>6, <2>2
  <2> QED BY <2>1, <2>2
<1> HIDE DEF b
<1> QED BY <1>3, <1>5, <1>7

\* A run that settles a call with an answer of the right kind, or raises.
LEMMA SettledFits ==
    ASSUME IInv, NEW r \in Run, NEW i \in DOMAIN call[r], NEW a, Settles(r, i, a),
           call[r][i] \in {"new", "out"}, stage' = stage, plan' = plan,
           \/ status' = status /\ a \in AnswerOf(stage[r])
           \/ status' = [status EXCEPT ![r] = "raised"]
    PROVE  RunsFit'
<1>0. ShapeInv /\ PlanFits(status[r], stage[r], plan[r])
      /\ CallsFit(status[r], stage[r], call[r], answer[r], plan[r])
  BY DEF IInv, RunsFit
<1>1. /\ DOMAIN call'[r] = DOMAIN call[r] /\ Len(call'[r]) = Len(call[r])
      /\ call'[r][i] = "in"
      /\ \A j \in DOMAIN call[r] : j # i => call'[r][j] = call[r][j]
      /\ \A o \in Run : o # r => call'[o] = call[o]
  BY CallStep DEF Settles, CallState
<1>2. /\ answer'[r][i] = a
      /\ \A j \in DOMAIN call[r] : j # i => answer'[r][j] = answer[r][j]
      /\ \A o \in Run : o # r => answer'[o] = answer[o]
  BY AnswerStep
<1>3. /\ \A o \in Run \ {r} : status'[o] = status[o]
      /\ \/ status'[r] = status[r] /\ a \in AnswerOf(stage[r])
         \/ status'[r] = "raised"
  BY <1>0 DEF ShapeInv
<1>4. \A o \in Run \ {r} : Same(o) BY <1>1, <1>2, <1>3 DEF Same
<1>5. status[r] # "done" BY <1>0 DEF CallsFit
<1>6. status[r] # "cancelled" BY <1>0 DEF CallsFit
<1>7. PlanFits(status'[r], stage[r], plan[r])
  BY <1>0, <1>3, <1>5 DEF PlanFits
<1>8. CallsFit(status'[r], stage[r], call'[r], answer'[r], plan[r])
  <2>1. Len(call'[r]) = IF stage[r] \in {"scrape", "judge"} THEN Len(plan[r].chosen) ELSE 1
    BY <1>0, <1>1 DEF CallsFit
  <2>2. status'[r] \notin {"done", "cancelled"} BY <1>3, <1>5, <1>6
  <2>3. stage[r] = "judge" => HasText(plan[r].page[i]) BY <1>0 DEF CallsFit
  <2>4. ASSUME NEW j \in DOMAIN call'[r]
        PROVE  /\ call'[r][j] = "in" /\ status'[r] \in {"idle", "running"} =>
                      answer'[r][j] \in AnswerOf(stage[r])
               /\ stage[r] = "judge" /\ call'[r][j] \in {"new", "out"} =>
                      HasText(plan[r].page[j])
               /\ stage[r] = "judge" /\ call'[r][j] = "in" /\ answer'[r][j] = "keep" =>
                      HasText(plan[r].page[j])
    <3>1. CASE j = i BY <1>1, <1>2, <1>3, <2>3, <3>1
    <3>2. CASE j # i BY <1>0, <1>1, <1>2, <1>3, <3>2 DEF CallsFit
    <3> QED BY <3>1, <3>2
  <2> QED BY <2>1, <2>2, <2>4 DEF CallsFit
<1> QED BY <1>4, <1>7, <1>8, OthersFit

LEMMA HitFits ==
    ASSUME IInv, NEW r \in Run, NEW i \in DOMAIN call[r], Hit(r, i) PROVE IInv'
<1> DEFINE a == memo[Key(r, i)]
<1>1. /\ Settles(r, i, a) /\ call[r][i] = "new" /\ Key(r, i) \in DOMAIN memo
      /\ UNCHANGED files /\ status' = status /\ stage' = stage /\ query' = query
      /\ plan' = plan /\ faults' = faults /\ paid' = paid
      /\ clean' = [clean EXCEPT ![r] = @ /\ Lined(Key(r, i), a)]
      /\ alone' = alone /\ before' = before
  BY DEF Hit, Served
<1>2. a \in AnswerOf(stage[r])
  <2>1. stage[r] \in Stage /\ Key(r, i)[1] = stage[r] BY KeyNamesStage DEF IInv, ShapeInv
  <2>2. a \in RecordOf(stage[r]) BY <1>1, <2>1 DEF IInv, MemoInv, RecordsFit
  <2> HIDE DEF a
  <2> QED BY <2>1, <2>2 DEF RecordOf, AnswerOf, Stage
<1> HIDE DEF a
<1>3. ShapeInv'
  <2>1. call' \in [Run -> Seq(CallState)] BY <1>1, CallStep DEF Settles, CallState
  <2>2. DOMAIN answer' = Run /\ \A o \in Run : answer'[o] = [j \in DOMAIN call'[o] |-> answer'[o][j]]
    BY <1>1, AnswerStep
  <2>3. Lined(Key(r, i), a) \in BOOLEAN BY DEF Lined
  <2>4. clean' \in [Run -> BOOLEAN] BY <1>1, <2>3 DEF IInv, ShapeInv
  <2> QED BY <1>1, <2>1, <2>2, <2>4 DEF IInv, ShapeInv
<1>4. MemoInv' BY <1>1 DEF IInv, MemoInv, RecordsFit
<1>5. RunsFit' BY <1>1, <1>2, SettledFits
<1>6. RaiseInv' BY <1>1 DEF IInv, RaiseInv
<1> QED BY <1>3, <1>4, <1>5, <1>6 DEF IInv

LEMMA AnsweredFits ==
    ASSUME IInv, NEW r \in Run, NEW i \in DOMAIN call[r], NEW a, Answered(r, i, a)
    PROVE  IInv'
<1>1. /\ Settles(r, i, a) /\ call[r][i] = "out" /\ a \in Outcome(stage[r])
      /\ IF Storable(stage[r], a) THEN Put(Key(r, i), a) ELSE UNCHANGED files
      /\ status' = IF Fatal(stage[r], a) THEN [status EXCEPT ![r] = "raised"] ELSE status
      /\ clean' = [clean EXCEPT ![r] =
                       @ /\ Flawless(stage[r], a) /\ FileOf(Key(r, i)) \notin torn]
      /\ stage' = stage /\ query' = query
      /\ plan' = plan /\ faults' = faults /\ paid' = paid
      /\ alone' = alone /\ before' = before
  BY DEF Answered
<1>f. MemoInv' /\ torn' \subseteq {"search", "scrape", "llm"}
               /\ garbled' \subseteq {"search", "scrape", "llm"}
  <2>1. CASE Storable(stage[r], a) BY <1>1, <2>1, PuttingKeepsMemo
  <2>2. CASE ~Storable(stage[r], a) BY <1>1, <2>2 DEF IInv, ShapeInv, MemoInv, RecordsFit
  <2> QED BY <2>1, <2>2
<1>g. garbled' = garbled BY <1>1 DEF Put
<1>2. ShapeInv'
  <2>1. call' \in [Run -> Seq(CallState)] BY <1>1, CallStep DEF Settles, CallState
  <2>2. DOMAIN answer' = Run /\ \A o \in Run : answer'[o] = [j \in DOMAIN call'[o] |-> answer'[o][j]]
    BY <1>1, AnswerStep
  <2>3. Flawless(stage[r], a) \in BOOLEAN BY DEF Flawless
  <2>4. clean' \in [Run -> BOOLEAN] BY <1>1, <2>3 DEF IInv, ShapeInv
  <2>5. status' \in [Run -> {"idle", "running", "done", "raised", "cancelled"}]
    BY <1>1 DEF IInv, ShapeInv
  <2> QED BY <1>1, <1>f, <2>1, <2>2, <2>4, <2>5 DEF IInv, ShapeInv
<1>4. RunsFit'
  <2>1. CASE Fatal(stage[r], a) BY <1>1, <2>1, SettledFits
  <2>2. CASE ~Fatal(stage[r], a)
    <3>1. stage[r] \in Stage BY DEF IInv, ShapeInv
    <3>2. a \in AnswerOf(stage[r])
      BY <1>1, <2>2, <3>1 DEF Outcome, AnswerOf, Fatal, Stage, Page
    <3> QED BY <1>1, <2>2, <3>2, SettledFits
  <2> QED BY <2>1, <2>2
<1>5. RaiseInv'
  <2>1. CASE Fatal(stage[r], a) BY <1>1, <1>g, <2>1 DEF IInv, ShapeInv, RaiseInv, Fatal
  <2>2. CASE ~Fatal(stage[r], a) BY <1>1, <1>g, <2>2 DEF IInv, RaiseInv
  <2> QED BY <2>1, <2>2
<1> QED BY <1>f, <1>2, <1>4, <1>5 DEF IInv

\* A call that is sent or lost: its run goes on with nothing new, or raises.
LEMMA UnansweredFits ==
    ASSUME IInv, NEW r \in Run, NEW i \in DOMAIN call[r], NEW v,
           call' = [call EXCEPT ![r][i] = v], call[r][i] \in {"new", "out"},
           stage' = stage, plan' = plan, answer' = answer,
           \/ v = "out" /\ call[r][i] = "new" /\ status' = status
           \/ v = "lost" /\ status' = [status EXCEPT ![r] = "raised"]
    PROVE  RunsFit'
<1>0. ShapeInv /\ PlanFits(status[r], stage[r], plan[r])
      /\ CallsFit(status[r], stage[r], call[r], answer[r], plan[r])
  BY DEF IInv, RunsFit
<1>1. /\ DOMAIN call'[r] = DOMAIN call[r] /\ Len(call'[r]) = Len(call[r])
      /\ call'[r][i] = v
      /\ \A j \in DOMAIN call[r] : j # i => call'[r][j] = call[r][j]
      /\ \A o \in Run : o # r => call'[o] = call[o]
  BY CallStep DEF CallState
<1>2. /\ \A o \in Run \ {r} : status'[o] = status[o]
      /\ status'[r] = status[r] \/ status'[r] = "raised"
  BY <1>0 DEF ShapeInv
<1>3. \A o \in Run \ {r} : Same(o) BY <1>1, <1>2 DEF Same
<1>4. status[r] # "done" /\ status[r] # "cancelled" BY <1>0 DEF CallsFit
<1>5. PlanFits(status'[r], stage[r], plan[r]) BY <1>0, <1>2, <1>4 DEF PlanFits
<1>6. CallsFit(status'[r], stage[r], call'[r], answer[r], plan[r])
  <2>1. Len(call'[r]) = IF stage[r] \in {"scrape", "judge"} THEN Len(plan[r].chosen) ELSE 1
    BY <1>0, <1>1 DEF CallsFit
  <2>2. status'[r] \notin {"done", "cancelled"} BY <1>2, <1>4
  <2>3. ASSUME NEW j \in DOMAIN call'[r]
        PROVE  /\ call'[r][j] = "in" /\ status'[r] \in {"idle", "running"} =>
                      answer[r][j] \in AnswerOf(stage[r])
               /\ stage[r] = "judge" /\ call'[r][j] \in {"new", "out"} =>
                      HasText(plan[r].page[j])
               /\ stage[r] = "judge" /\ call'[r][j] = "in" /\ answer[r][j] = "keep" =>
                      HasText(plan[r].page[j])
    <3>1. CASE j = i BY <1>0, <1>1, <3>1 DEF CallsFit
    <3>2. CASE j # i BY <1>0, <1>1, <1>2, <3>2 DEF CallsFit
    <3> QED BY <3>1, <3>2
  <2> QED BY <2>1, <2>2, <2>3 DEF CallsFit
<1> QED BY <1>3, <1>5, <1>6, OthersFit

LEMMA MissFits ==
    ASSUME IInv, NEW r \in Run, NEW i \in DOMAIN call[r], Miss(r, i) PROVE IInv'
<1>1. /\ call' = [call EXCEPT ![r][i] = "out"] /\ call[r][i] = "new"
      /\ paid' = [paid EXCEPT ![r] = TRUE]
      /\ UNCHANGED files /\ status' = status /\ stage' = stage /\ query' = query
      /\ answer' = answer /\ plan' = plan /\ faults' = faults /\ clean' = clean
      /\ alone' = alone /\ before' = before
  BY DEF Miss
<1>2. ShapeInv'
  <2>1. call' \in [Run -> Seq(CallState)] /\ \A o \in Run : DOMAIN call'[o] = DOMAIN call[o]
    BY <1>1, CallStep DEF CallState
  <2> QED BY <1>1, <2>1 DEF IInv, ShapeInv
<1>3. MemoInv' BY <1>1 DEF IInv, MemoInv, RecordsFit
<1>4. RunsFit' BY <1>1, UnansweredFits
<1>5. RaiseInv' BY <1>1 DEF IInv, RaiseInv
<1> QED BY <1>2, <1>3, <1>4, <1>5 DEF IInv

\* The cache raises: at the lookup, or at the store.
LEMMA CallRaisesFits ==
    ASSUME IInv, NEW r \in Run, NEW i \in DOMAIN call[r],
           LookupRaises(r, i) \/ \E a \in Outcome(stage[r]) : StoreRaises(r, i, a)
    PROVE  IInv'
<1>1. /\ \/ call' = [call EXCEPT ![r][i] = "lost"] /\ status' = [status EXCEPT ![r] = "raised"]
         \/ call' = call /\ status' = status
      /\ call[r][i] \in {"new", "out"}
      /\ Fault \/ (garbled # {} /\ garbled' = garbled /\ UNCHANGED faults)
      /\ stage' = stage /\ query' = query /\ answer' = answer /\ plan' = plan
      /\ paid' = paid /\ clean' = clean /\ alone' = alone /\ before' = before
  BY DEF LookupRaises, StoreRaises
<1>2. MemoInv' /\ torn' \subseteq {"search", "scrape", "llm"}
               /\ garbled' \subseteq {"search", "scrape", "llm"}
  <2>1. CASE LookupRaises(r, i)
    BY <2>1 DEF LookupRaises, IInv, ShapeInv, MemoInv, RecordsFit
  <2>2. ASSUME NEW a \in Outcome(stage[r]), StoreRaises(r, i, a)
        PROVE  MemoInv' /\ torn' \subseteq {"search", "scrape", "llm"}
                        /\ garbled' \subseteq {"search", "scrape", "llm"}
    <3>1. Storable(stage[r], a) /\ PutRaises(Key(r, i), a) BY <2>2 DEF StoreRaises
    <3> QED BY <3>1, PuttingKeepsMemo
  <2> QED BY <2>1, <2>2
<1>3. faults' \in 0..MaxFaults /\ faults' # 0
  <2>1. faults \in 0..MaxFaults /\ (garbled # {} => faults # 0)
    BY DEF IInv, ShapeInv, RaiseInv
  <2> QED BY <1>1, <2>1, ConstantsAssumption DEF Fault
<1>4. ShapeInv'
  <2>1. call' \in [Run -> Seq(CallState)] /\ \A o \in Run : DOMAIN call'[o] = DOMAIN call[o]
    BY <1>1, CallStep DEF CallState, IInv, ShapeInv
  <2>2. status' \in [Run -> {"idle", "running", "done", "raised", "cancelled"}]
    BY <1>1 DEF IInv, ShapeInv
  <2> QED BY <1>1, <1>2, <1>3, <2>1, <2>2 DEF IInv, ShapeInv
<1>5. RunsFit'
  <2>1. CASE call' = call /\ status' = status BY <1>1, <2>1 DEF IInv, RunsFit
  <2> QED BY <1>1, <2>1, UnansweredFits
<1>6. RaiseInv' BY <1>3 DEF RaiseInv
<1> QED BY <1>2, <1>4, <1>5, <1>6 DEF IInv

\* The run r goes to stage s with the plan p and one new call for each of n.
LEMMA ProceedFits ==
    ASSUME IInv, NEW r \in Run, NEW s \in Stage, NEW n \in Nat, NEW p \in Plan,
           status[r] = "running", Proceed(r, s, 1..n), plan' = [plan EXCEPT ![r] = p],
           PlanFits("running", s, p), n = IF s \in {"scrape", "judge"} THEN Len(p.chosen) ELSE 1,
           s # "judge",
           UNCHANGED <<files, query, faults, paid, clean, alone, before>>
    PROVE  IInv'
<1> DEFINE c == [i \in 1..n |-> "new"]
<1>0. ShapeInv BY DEF IInv
<1>1. c \in Seq(CallState) /\ Len(c) = n /\ DOMAIN c = 1..n
  BY ListOf DEF CallState
<1>2. /\ call' = [call EXCEPT ![r] = c] /\ answer' = [answer EXCEPT ![r] = [i \in 1..n |-> None]]
      /\ stage' = [stage EXCEPT ![r] = s] /\ status' = status
  BY DEF Proceed
<1>3. \A i \in 1..n : c[i] = "new" OBVIOUS
<1> HIDE DEF c
<1>4. ShapeInv'
  <2>1. call' \in [Run -> Seq(CallState)] /\ call'[r] = c BY <1>0, <1>1, <1>2 DEF ShapeInv
  <2>2. DOMAIN answer' = Run /\ answer'[r] = [i \in 1..n |-> None] BY <1>0, <1>2 DEF ShapeInv
  <2>3. ASSUME NEW o \in Run PROVE answer'[o] = [j \in DOMAIN call'[o] |-> answer'[o][j]]
    <3>1. CASE o = r
      <4>1. DOMAIN call'[o] = 1..n BY <1>1, <2>1, <3>1
      <4> QED BY <2>2, <3>1, <4>1
    <3>2. CASE o # r
      <4>1. call'[o] = call[o] /\ answer'[o] = answer[o] BY <1>0, <1>2, <3>2 DEF ShapeInv
      <4> QED BY <1>0, <4>1 DEF ShapeInv
    <3> QED BY <3>1, <3>2
  <2>4. stage' \in [Run -> Stage] /\ plan' \in [Run -> Plan] BY <1>0, <1>2 DEF ShapeInv
  <2> QED BY <1>0, <1>2, <2>1, <2>2, <2>3, <2>4 DEF ShapeInv
<1>5. MemoInv' BY DEF IInv, MemoInv, RecordsFit
<1>6. RunsFit'
  <2>1. \A o \in Run \ {r} : Same(o) BY <1>0, <1>2 DEF ShapeInv, Same
  <2>2. /\ status'[r] = "running" /\ stage'[r] = s /\ plan'[r] = p /\ call'[r] = c
    BY <1>0, <1>2 DEF ShapeInv
  <2>3. CallsFit("running", s, c, answer'[r], p) BY <1>1, <1>3 DEF CallsFit
  <2> QED BY <2>1, <2>2, <2>3, OthersFit
<1>7. RaiseInv' BY <1>0, <1>2 DEF IInv, ShapeInv, RaiseInv
<1> QED BY <1>4, <1>5, <1>6, <1>7 DEF IInv

\* The run r is done, with the plan p.
LEMMA FinishFits ==
    ASSUME IInv, NEW r \in Run, NEW p \in Plan,
           status[r] = "running", Finish(r), plan' = [plan EXCEPT ![r] = p],
           PlanFits("done", stage[r], p),
           p.chosen = plan[r].chosen, p.page = plan[r].page,
           \A i \in DOMAIN call[r] : call[r][i] = "in",
           UNCHANGED <<files, query, faults, paid, clean, alone, before>>
    PROVE  IInv'
<1>0. ShapeInv /\ CallsFit(status[r], stage[r], call[r], answer[r], plan[r])
  BY DEF IInv, RunsFit
<1>1. status' = [status EXCEPT ![r] = "done"] /\ stage' = stage /\ call' = call /\ answer' = answer
  BY DEF Finish
<1>2. ShapeInv'
  <2>1. status' \in [Run -> {"idle", "running", "done", "raised", "cancelled"}]
    BY <1>0, <1>1 DEF ShapeInv
  <2>2. plan' \in [Run -> Plan] BY <1>0 DEF ShapeInv
  <2> QED BY <1>0, <1>1, <2>1, <2>2 DEF ShapeInv
<1>3. MemoInv' BY DEF IInv, MemoInv, RecordsFit
<1>4. RunsFit'
  <2>1. \A o \in Run \ {r} : Same(o) BY <1>0, <1>1 DEF ShapeInv, Same
  <2>2. /\ status'[r] = "done" /\ plan'[r] = p BY <1>0, <1>1 DEF ShapeInv
  <2>3. CallsFit("done", stage[r], call[r], answer[r], p) BY <1>0 DEF CallsFit
  <2> QED BY <1>1, <2>1, <2>2, <2>3, OthersFit
<1>5. RaiseInv' BY <1>0, <1>1 DEF IInv, ShapeInv, RaiseInv
<1> QED BY <1>2, <1>3, <1>4, <1>5 DEF IInv

LEMMA SearchedFits == ASSUME IInv, NEW r \in Run, Searched(r) PROVE IInv'
<1> DEFINE a == answer[r][1]
           p == [plan[r] EXCEPT !.found = a]
<1>1. /\ status[r] = "running" /\ stage[r] = "search"
      /\ \A i \in DOMAIN call[r] : call[r][i] = "in"
      /\ plan' = [plan EXCEPT ![r] = p]
      /\ UNCHANGED <<files, query, faults, paid, clean, alone, before>>
      /\ IF a = <<>> \/ TopK = 0 THEN Finish(r) ELSE Proceed(r, "select", {1})
  BY DEF Searched, Through
<1>2. /\ PlanFits("running", "search", plan[r])
      /\ CallsFit("running", "search", call[r], answer[r], plan[r])
      /\ plan[r] \in Plan /\ call[r] \in Seq(CallState)
  BY <1>1 DEF IInv, RunsFit, ShapeInv
<1>3. a \in Listing
  <2>1. 1 \in DOMAIN call[r] BY <1>2, LenProperties DEF CallsFit
  <2>2. answer[r][1] \in AnswerOf("search") BY <1>1, <1>2, <2>1 DEF CallsFit
  <2> QED BY <2>2 DEF AnswerOf
<1>4. p \in Plan /\ p.found = a /\ p.chosen = <<>> /\ p.page = <<>> /\ p.kept = <<>>
      /\ plan[r].chosen = <<>> /\ plan[r].page = <<>>
  BY <1>2, <1>3, ConstantsAssumption DEF Plan, PlanFits
<1> HIDE DEF a, p
<1>5. CASE a = <<>> \/ TopK = 0
  <2>1. PlanFits("done", "search", p) BY <1>3, <1>4, <1>5 DEF PlanFits
  <2> QED BY <1>1, <1>4, <1>5, <2>1, FinishFits
<1>6. CASE ~(a = <<>> \/ TopK = 0)
  <2>1. PlanFits("running", "select", p) BY <1>3, <1>4, <1>6 DEF PlanFits
  <2>2. 1..1 = {1} OBVIOUS
  <2>3. Proceed(r, "select", 1..1) BY <1>1, <1>6, <2>2
  <2> QED BY <1>1, <1>4, <2>1, <2>3, ProceedFits DEF Stage
<1> QED BY <1>5, <1>6

LEMMA SelectedFits == ASSUME IInv, NEW r \in Run, Selected(r) PROVE IInv'
<1> DEFINE a == answer[r][1]
           n == Len(plan[r].found)
           q == Chosen(a, n)
           p == [plan[r] EXCEPT !.chosen = q]
<1>1. /\ status[r] = "running" /\ stage[r] = "select"
      /\ \A i \in DOMAIN call[r] : call[r][i] = "in"
      /\ plan' = [plan EXCEPT ![r] = p]
      /\ UNCHANGED <<files, query, faults, paid, clean, alone, before>>
      /\ Proceed(r, "scrape", DOMAIN q)
  BY DEF Selected, Through
<1>2. /\ PlanFits("running", "select", plan[r])
      /\ CallsFit("running", "select", call[r], answer[r], plan[r])
      /\ plan[r] \in Plan /\ call[r] \in Seq(CallState)
  BY <1>1 DEF IInv, RunsFit, ShapeInv
<1>3. a \in Reply \cup {Error}
  <2>1. 1 \in DOMAIN call[r] BY <1>2, LenProperties DEF CallsFit
  <2>2. answer[r][1] \in AnswerOf("select") BY <1>1, <1>2, <2>1 DEF CallsFit
  <2> QED BY <2>2 DEF AnswerOf
<1>4. n \in Nat /\ n # 0 /\ TopK # 0
  <2>1. plan[r].found \in Seq(Url) /\ plan[r].found # <<>> /\ TopK # 0
    BY <1>2 DEF Plan, PlanFits
  <2> QED BY <2>1, LenProperties, EmptySeq
<1> HIDE DEF a, n
<1>5. q \in Picks(n) /\ q # <<>> /\ Len(q) <= TopK BY <1>3, <1>4, ChosenPicks
<1>6. q \in Seq(Nat) /\ Len(q) \in Nat /\ DOMAIN q = 1..Len(q)
  <2>1. q \in Seq(1..n) BY <1>5 DEF Picks
  <2> HIDE DEF q, p
  <2>2. Len(q) \in Nat /\ DOMAIN q = 1..Len(q) /\ q \in [1..Len(q) -> 1..n]
    BY <2>1, LenProperties
  <2>3. q \in [1..Len(q) -> Nat] BY <2>2
  <2>4. q \in Seq(Nat) BY <2>2, <2>3, IsASeq
  <2> QED BY <2>2, <2>4
<1> HIDE DEF q
<1>7. p \in Plan /\ p.chosen = q /\ p.found = plan[r].found /\ p.page = <<>> /\ p.kept = <<>>
  BY <1>2, <1>6 DEF Plan, PlanFits
<1>8. PlanFits("running", "scrape", p) BY <1>2, <1>5, <1>7 DEF PlanFits, n
<1> HIDE DEF p
<1> QED BY <1>1, <1>6, <1>7, <1>8, ProceedFits DEF Stage

LEMMA ScrapedFits == ASSUME IInv, NEW r \in Run, Scraped(r) PROVE IInv'
<1> DEFINE p == [plan[r] EXCEPT !.page = answer[r]]
           c == [i \in DOMAIN call[r] |-> IF i \in Judged(r) THEN "new" ELSE "in"]
           b == [i \in DOMAIN answer[r] |-> IF i \in Judged(r) THEN None ELSE "drop"]
<1>0. ShapeInv BY DEF IInv
<1>1. /\ status[r] = "running" /\ stage[r] = "scrape"
      /\ \A i \in DOMAIN call[r] : call[r][i] = "in"
      /\ plan' = [plan EXCEPT ![r] = p] /\ stage' = [stage EXCEPT ![r] = "judge"]
      /\ call' = [call EXCEPT ![r] = c] /\ answer' = [answer EXCEPT ![r] = b]
      /\ UNCHANGED <<files, status, query, faults, paid, clean, alone, before>>
  BY <1>0 DEF Scraped, Through, ShapeInv
<1>2. /\ PlanFits("running", "scrape", plan[r])
      /\ CallsFit("running", "scrape", call[r], answer[r], plan[r])
      /\ plan[r] \in Plan /\ call[r] \in Seq(CallState)
      /\ answer[r] = [i \in DOMAIN call[r] |-> answer[r][i]]
  BY <1>1 DEF IInv, RunsFit, ShapeInv
<1>3. /\ DOMAIN call[r] = 1..Len(call[r]) /\ Len(call[r]) \in Nat
      /\ Len(call[r]) = Len(plan[r].chosen)
  BY <1>2, LenProperties DEF CallsFit
<1>4. answer[r] \in Seq(Page) /\ Len(answer[r]) = Len(plan[r].chosen)
      /\ DOMAIN answer[r] = DOMAIN call[r]
  <2>1. ASSUME NEW i \in DOMAIN call[r] PROVE answer[r][i] \in Page
    <3>1. answer[r][i] \in AnswerOf("scrape") BY <1>1, <1>2 DEF CallsFit
    <3> QED BY <3>1 DEF AnswerOf
  <2>2. answer[r] \in [1..Len(call[r]) -> Page] BY <1>2, <1>3, <2>1
  <2> QED BY <1>3, <2>2, ListOf
<1>5. /\ p \in Plan /\ p.page = answer[r] /\ p.kept = <<>>
      /\ p.chosen = plan[r].chosen /\ p.found = plan[r].found
  BY <1>2, <1>4 DEF Plan, PlanFits
<1>6. PlanFits("running", "judge", p) BY <1>2, <1>4, <1>5 DEF PlanFits
<1>7. c \in Seq(CallState) /\ Len(c) = Len(plan[r].chosen) /\ DOMAIN c = DOMAIN call[r]
  <2>1. c \in [1..Len(call[r]) -> CallState] BY <1>3 DEF CallState
  <2> HIDE DEF c
  <2> QED BY <1>3, <2>1, ListOf
<1>8. \A i \in DOMAIN c :
         \/ c[i] = "new" /\ HasText(answer[r][i])
         \/ c[i] = "in" /\ b[i] = "drop"
  BY <1>4 DEF Judged
<1>9. b = [i \in DOMAIN c |-> b[i]] BY <1>4, <1>7
<1> HIDE DEF p, c, b
<1>10. /\ \A o \in Run \ {r} : Same(o)
       /\ status'[r] = "running" /\ stage'[r] = "judge" /\ plan'[r] = p
       /\ call'[r] = c /\ answer'[r] = b
  BY <1>0, <1>1 DEF ShapeInv, Same
<1>11. ShapeInv'
  <2>1. call' \in [Run -> Seq(CallState)] BY <1>0, <1>1, <1>7 DEF ShapeInv
  <2>2. DOMAIN answer' = Run BY <1>0, <1>1 DEF ShapeInv
  <2>3. \A o \in Run : answer'[o] = [j \in DOMAIN call'[o] |-> answer'[o][j]]
    <3> SUFFICES ASSUME NEW o \in Run PROVE answer'[o] = [j \in DOMAIN call'[o] |-> answer'[o][j]]
      OBVIOUS
    <3>1. CASE o = r BY <1>9, <1>10, <3>1
    <3>2. CASE o # r BY <1>0, <1>10, <3>2 DEF ShapeInv, Same
    <3> QED BY <3>1, <3>2
  <2>4. stage' \in [Run -> Stage] /\ plan' \in [Run -> Plan]
    BY <1>0, <1>1, <1>5 DEF ShapeInv, Stage
  <2> QED BY <1>0, <1>1, <2>1, <2>2, <2>3, <2>4 DEF ShapeInv
<1>12. MemoInv' BY <1>1 DEF IInv, MemoInv, RecordsFit
<1>13. RunsFit'
  <2>1. CallsFit("running", "judge", c, b, p)
    BY <1>5, <1>7, <1>8 DEF CallsFit, AnswerOf
  <2> QED BY <1>6, <1>10, <2>1, OthersFit
<1>14. RaiseInv' BY <1>0, <1>1 DEF IInv, ShapeInv, RaiseInv
<1> QED BY <1>11, <1>12, <1>13, <1>14 DEF IInv

LEMMA ValidatedFits == ASSUME IInv, NEW r \in Run, Validated(r) PROVE IInv'
<1> DEFINE k == KeptOf(plan[r].found, plan[r].chosen, plan[r].page, answer[r])
           p == [plan[r] EXCEPT !.kept = k]
<1>1. /\ status[r] = "running" /\ stage[r] = "judge"
      /\ \A i \in DOMAIN call[r] : call[r][i] = "in"
      /\ plan' = [plan EXCEPT ![r] = p]
      /\ UNCHANGED <<files, query, faults, paid, clean, alone, before>>
      /\ IF k = <<>> THEN Finish(r) ELSE Proceed(r, "summarize", {1})
  BY DEF Validated, Through
<1>2. /\ PlanFits("running", "judge", plan[r])
      /\ CallsFit("running", "judge", call[r], answer[r], plan[r])
      /\ plan[r] \in Plan /\ call[r] \in Seq(CallState)
  BY <1>1 DEF IInv, RunsFit, ShapeInv
<1>3. /\ plan[r].found \in Seq(Url) /\ plan[r].chosen \in Seq(1..Len(plan[r].found))
      /\ plan[r].page \in Seq(Page) /\ Len(plan[r].page) = Len(plan[r].chosen)
      /\ Len(call[r]) = Len(plan[r].chosen) /\ plan[r].kept = <<>>
  BY <1>2 DEF Plan, PlanFits, CallsFit, Picks
<1>4. /\ Len(plan[r].page) \in Nat
      /\ DOMAIN plan[r].chosen = 1..Len(plan[r].page)
      /\ DOMAIN call[r] = 1..Len(plan[r].page)
      /\ DOMAIN plan[r].found = 1..Len(plan[r].found)
  BY <1>2, <1>3, LenProperties
<1> DEFINE J == {j \in 1..Len(plan[r].page) : answer[r][j] = "keep"}
           E == {<<plan[r].found[plan[r].chosen[i]], plan[r].page[i]>> : i \in J}
<1>5. k \in Seq(E) BY <1>4, KeptPages
<1> HIDE DEF k
<1>6. ASSUME NEW i \in J PROVE HasText(plan[r].page[i]) BY <1>1, <1>2, <1>4 DEF CallsFit
<1>7. E \subseteq Url \X Text
  <2> SUFFICES ASSUME NEW i \in J
               PROVE  plan[r].found[plan[r].chosen[i]] \in Url /\ plan[r].page[i] \in Text
    OBVIOUS
  <2>1. plan[r].chosen[i] \in 1..Len(plan[r].found) BY <1>3, <1>4, ElementOfSeq
  <2>2. plan[r].found[plan[r].chosen[i]] \in Url BY <1>3, <2>1, ElementOfSeq
  <2> QED BY <1>6, <2>2 DEF HasText
<1>8. k \in Seq(Url \X Text) /\ \A m \in DOMAIN k : k[m] \in E
  <2> HIDE DEF E
  <2>1. DOMAIN k = 1..Len(k) BY <1>5, LenProperties
  <2>2. \A m \in DOMAIN k : k[m] \in E BY <1>5, <2>1, ElementOfSeq
  <2> QED BY <1>5, <1>7, <2>2
<1>9. p \in Plan /\ p.kept = k /\ p.found = plan[r].found /\ p.chosen = plan[r].chosen
      /\ p.page = plan[r].page
  <2> HIDE DEF E
  <2> QED BY <1>2, <1>8 DEF Plan
<1>10. \A m \in DOMAIN p.kept : \E i \in DOMAIN p.chosen :
           p.kept[m] = <<p.found[p.chosen[i]], p.page[i]>> /\ HasText(p.page[i])
  <2> SUFFICES ASSUME NEW m \in DOMAIN k
               PROVE  \E i \in DOMAIN p.chosen :
                         k[m] = <<p.found[p.chosen[i]], p.page[i]>> /\ HasText(p.page[i])
    BY <1>9
  <2>1. PICK i \in J : k[m] = <<plan[r].found[plan[r].chosen[i]], plan[r].page[i]>> BY <1>8
  <2> QED BY <1>4, <1>6, <1>9, <2>1
<1> HIDE DEF p, E
<1>11. CASE k = <<>>
  <2>1. PlanFits("done", "judge", p) BY <1>2, <1>9, <1>11 DEF PlanFits
  <2> QED BY <1>1, <1>9, <1>11, <2>1, FinishFits
<1>12. CASE k # <<>>
  <2>1. PlanFits("running", "summarize", p) BY <1>2, <1>9, <1>10, <1>12 DEF PlanFits
  <2>2. 1..1 = {1} OBVIOUS
  <2>3. Proceed(r, "summarize", 1..1) BY <1>1, <1>12, <2>2
  <2> QED BY <1>1, <1>9, <2>1, <2>3, ProceedFits DEF Stage
<1> QED BY <1>11, <1>12

LEMMA SummarizedFits == ASSUME IInv, NEW r \in Run, Summarized(r) PROVE IInv'
<1>1. /\ status[r] = "running" /\ stage[r] = "summarize" /\ Finish(r) /\ plan' = plan
      /\ \A i \in DOMAIN call[r] : call[r][i] = "in"
      /\ UNCHANGED <<files, query, faults, paid, clean, alone, before>>
  BY DEF Summarized, Through
<1>2. PlanFits("running", "summarize", plan[r]) /\ plan[r] \in Plan /\ DOMAIN plan = Run
  BY <1>1 DEF IInv, RunsFit, ShapeInv
<1>3. PlanFits("done", "summarize", plan[r]) BY <1>2 DEF PlanFits
<1>4. plan' = [plan EXCEPT ![r] = plan[r]] BY <1>1, <1>2 DEF IInv, ShapeInv
<1> QED BY <1>1, <1>2, <1>3, <1>4, FinishFits

LEMMA CancelFits == ASSUME IInv, NEW r \in Run, Cancel(r) PROVE IInv'
<1> DEFINE c == [i \in DOMAIN call[r] |-> IF i \in Unsettled(r) THEN "lost" ELSE call[r][i]]
<1>0. ShapeInv /\ PlanFits(status[r], stage[r], plan[r])
      /\ CallsFit(status[r], stage[r], call[r], answer[r], plan[r])
  BY DEF IInv, RunsFit
<1>1. /\ status[r] = "running" /\ status' = [status EXCEPT ![r] = "cancelled"]
      /\ call' = [call EXCEPT ![r] = c]
      /\ UNCHANGED <<files, stage, query, answer, plan, faults, paid, clean, alone, before>>
  BY DEF Cancel
<1>2. call[r] \in Seq(CallState) /\ DOMAIN call[r] = 1..Len(call[r]) /\ Len(call[r]) \in Nat
  BY <1>0, LenProperties DEF ShapeInv
<1>3. c \in Seq(CallState) /\ Len(c) = Len(call[r]) /\ DOMAIN c = DOMAIN call[r]
  <2>1. c \in [1..Len(call[r]) -> CallState] BY <1>2, ElementOfSeq DEF CallState
  <2> HIDE DEF c
  <2> QED BY <1>2, <2>1, ListOf
<1>4. \A i \in DOMAIN c : c[i] \notin {"new", "out"} /\ (c[i] = "in" => call[r][i] = "in")
  BY <1>3 DEF Unsettled
<1> HIDE DEF c
<1>5. /\ \A o \in Run \ {r} : Same(o)
      /\ status'[r] = "cancelled" /\ stage'[r] = stage[r] /\ plan'[r] = plan[r]
      /\ call'[r] = c /\ answer'[r] = answer[r]
  BY <1>0, <1>1 DEF ShapeInv, Same
<1>6. ShapeInv'
  <2>1. call' \in [Run -> Seq(CallState)] BY <1>0, <1>1, <1>3 DEF ShapeInv
  <2>2. \A o \in Run : DOMAIN call'[o] = DOMAIN call[o] BY <1>0, <1>1, <1>3 DEF ShapeInv
  <2>3. status' \in [Run -> {"idle", "running", "done", "raised", "cancelled"}]
    BY <1>0, <1>1 DEF ShapeInv
  <2> QED BY <1>0, <1>1, <2>1, <2>2, <2>3 DEF ShapeInv
<1>7. MemoInv' BY <1>1 DEF IInv, MemoInv, RecordsFit
<1>8. RunsFit'
  <2>1. PlanFits("cancelled", stage[r], plan[r]) BY <1>0, <1>1 DEF PlanFits
  <2>2. CallsFit("cancelled", stage[r], c, answer[r], plan[r])
    BY <1>0, <1>3, <1>4 DEF CallsFit
  <2> QED BY <1>5, <2>1, <2>2, OthersFit
<1>9. RaiseInv' BY <1>0, <1>1 DEF IInv, ShapeInv, RaiseInv
<1> QED BY <1>6, <1>7, <1>8, <1>9 DEF IInv

LEMMA StepFits == IInv /\ [Next]_vars => IInv'
<1> SUFFICES ASSUME IInv, [Next]_vars PROVE IInv' OBVIOUS
<1>1. ASSUME NEW r \in Run, Start(r) PROVE IInv' BY <1>1, StartFits
<1>2. ASSUME NEW r \in Run, Calls(r) PROVE IInv'
  BY <1>2, HitFits, MissFits, AnsweredFits, CallRaisesFits DEF Calls
<1>3. ASSUME NEW r \in Run, Advance(r) PROVE IInv'
  BY <1>3, SearchedFits, SelectedFits, ScrapedFits, ValidatedFits, SummarizedFits DEF Advance
<1>4. ASSUME NEW r \in Run, Cancel(r) PROVE IInv' BY <1>4, CancelFits
<1>6. CASE UNCHANGED vars
  <2>1. ShapeInv' BY <1>6 DEF vars, IInv, ShapeInv
  <2>2. MemoInv' /\ RaiseInv' BY <1>6 DEF vars, IInv, MemoInv, RecordsFit, RaiseInv
  <2>3. RunsFit' BY <1>6 DEF vars, IInv, RunsFit
  <2> QED BY <2>1, <2>2, <2>3 DEF IInv
<1> QED BY <1>1, <1>2, <1>3, <1>4, <1>6 DEF Next

\* Every reachable state of every instance satisfies the invariant.
THEOREM PlansFitStages == Spec => []IInv
BY InitFits, StepFits, PTL DEF Spec

----------------------------------------------------------------------------
(* What it is good for. *)

LEMMA FitsTypes == IInv => TypeOK
<1> SUFFICES ASSUME IInv PROVE TypeOK OBVIOUS
<1>1. ASSUME NEW r \in Run
      PROVE  /\ call[r] \in Seq({"new", "out", "in", "lost"})
             /\ DOMAIN answer[r] = DOMAIN call[r]
             /\ plan[r].found \in Listing \cup {<<>>}
             /\ plan[r].chosen \in Seq(1..Len(plan[r].found))
             /\ plan[r].page \in Seq(Page)
             /\ plan[r].kept \in Seq(Url \X Text)
  <2>1. /\ call[r] \in Seq(CallState) /\ plan[r] \in Plan /\ DOMAIN answer[r] = DOMAIN call[r]
        /\ PlanFits(status[r], stage[r], plan[r])
    BY DEF IInv, ShapeInv, RunsFit
  <2>2. plan[r].chosen \in Seq(1..Len(plan[r].found))
    BY <2>1, EmptySeq DEF PlanFits, Picks
  <2> QED BY <2>1, <2>2 DEF CallState, Plan, PlanFits
<1> QED BY <1>1 DEF IInv, ShapeInv, TypeOK

\* The types of the pipeline's state.
THEOREM TypeCorrect == Spec => []TypeOK
BY PlansFitStages, FitsTypes, PTL

LEMMA FitsGround == IInv => Grounded
<1> SUFFICES ASSUME IInv, NEW r \in Run
             PROVE  LET p == plan[r] IN
                /\ IsInjective(p.chosen)
                /\ Len(p.chosen) <= TopK
                /\ stage[r] \in {"scrape", "judge", "summarize"} => p.chosen # <<>>
                /\ \A n \in DOMAIN p.kept : \E i \in DOMAIN p.chosen :
                      p.kept[n] = <<UrlAt(r, i), p.page[i]>> /\ HasText(p.page[i])
                /\ \A i \in DOMAIN call[r] : call[r][i] = "out" =>
                      /\ stage[r] = "select" => p.found # <<>>
                      /\ stage[r] = "judge" => HasText(p.page[i])
                      /\ stage[r] = "summarize" => p.kept # <<>>
  BY DEF Grounded
<1>1. /\ PlanFits(status[r], stage[r], plan[r])
      /\ CallsFit(status[r], stage[r], call[r], answer[r], plan[r])
      /\ stage[r] \in Stage
  BY DEF IInv, ShapeInv, RunsFit
<1>2. IsInjective(<<>>) /\ Len(<<>>) = 0 BY NoPick, EmptySeq DEF Picks
<1>3. IsInjective(plan[r].chosen) /\ Len(plan[r].chosen) <= TopK
  BY <1>1, <1>2, ConstantsAssumption DEF PlanFits, Picks
<1>4. ASSUME NEW n \in DOMAIN plan[r].kept
      PROVE  \E i \in DOMAIN plan[r].chosen :
                plan[r].kept[n] = <<UrlAt(r, i), plan[r].page[i]>> /\ HasText(plan[r].page[i])
  <2>1. plan[r].kept # <<>>
    <3>1. DOMAIN <<>> = {} BY EmptySeq
    <3> QED BY <1>4, <3>1
  <2>2. stage[r] = "summarize" BY <1>1, <2>1 DEF PlanFits
  <2> QED BY <1>1, <2>2 DEF PlanFits, UrlAt
<1>5. stage[r] \in {"scrape", "judge", "summarize"} => plan[r].chosen # <<>>
  BY <1>1 DEF PlanFits
<1>6. \A i \in DOMAIN call[r] : call[r][i] = "out" =>
         /\ stage[r] = "select" => plan[r].found # <<>>
         /\ stage[r] = "judge" => HasText(plan[r].page[i])
         /\ stage[r] = "summarize" => plan[r].kept # <<>>
  BY <1>1 DEF PlanFits, CallsFit
<1> QED BY <1>3, <1>4, <1>5, <1>6

\* The summary is made from at most TopK of the results found, none twice,
\* each with a text, and the model is never asked about nothing: for every
\* listing, every reply of the model and every interleaving of the runs.
THEOREM SummariesAreGrounded == Spec => []Grounded
BY PlansFitStages, FitsGround, PTL

\* While the caches work, a run raises only when its search failed or when the
\* summary of pages it kept did: a lost selection or judgement never costs it
\* its result.
THEOREM OnlySearchAndSummaryRaise == Spec => []FailuresDegrade
<1>1. IInv => FailuresDegrade
  BY DEF IInv, RaiseInv, RunsFit, PlanFits, FailuresDegrade
<1> QED BY <1>1, PlansFitStages, PTL

\* A run that is done or cancelled has no call left that would still fetch, ask
\* the model or write a record.
THEOREM OnlyARaiseLeavesCalls == Spec => []NoOrphansUnlessRaised
<1>1. IInv => NoOrphansUnlessRaised
  BY DEF IInv, RunsFit, CallsFit, NoOrphansUnlessRaised
<1> QED BY <1>1, PlansFitStages, PTL


----------------------------------------------------------------------------
(* A second run: the invariant. *)

\* What the run keeps of its own history: it has not begun before it starts,
\* what it sends it has paid for, those it follows are done, and while it is
\* alone nobody else is active.
HistoryInv ==
    \A r \in Run :
        /\ status[r] = "idle" =>
              /\ stage[r] = "search" /\ call[r] = <<"new">> /\ plan[r] = NoPlan
              /\ ~paid[r] /\ before[r] = {}
        /\ \A i \in DOMAIN call[r] : call[r][i] = "out" => paid[r]
        /\ \A d \in before[r] : status[d] = "done" /\ d # r
        /\ alone[r] /\ Active(r) => \A e \in Run \ {r} : ~Active(e)
        /\ status[r] = "done" => stage[r] \notin {"select", "scrape"}

\* The record a under the key k is there to stay: it is served, from a line of
\* its own, and no call that is out will overwrite it.
Firm(k, a) ==
    /\ k \in DOMAIN memo /\ memo[k] = a
    /\ Lined(k, a)
    /\ k[1] = "scrape" => a # "empty"
    /\ \A e \in Run : \A j \in DOMAIN call[e] : call[e][j] = "out" => Key(e, j) # k

\* The chosen pages of d have different URLs, and different texts.
Apart(d) ==
    /\ \A i, j \in DOMAIN plan[d].chosen : i # j => UrlAt(d, i) # UrlAt(d, j)
    /\ \A i, j \in DOMAIN plan[d].page :
          i # j /\ HasText(plan[d].page[i]) => plan[d].page[i] # plan[d].page[j]

\* What the call i of r was answered is on record; a page without text was
\* dropped without a call.
OnRecord(r, i) ==
    IF stage[r] = "judge" /\ ~HasText(plan[r].page[i]) THEN answer[r][i] = "drop"
    ELSE Firm(Key(r, i), answer[r][i])

\* The verdicts on the pages of p are on record.
VerdictsOnRecord(q, p, verdicts) ==
    \A i \in DOMAIN p.page :
        IF HasText(p.page[i]) THEN Firm(<<"judge", q, p.page[i]>>, verdicts[i])
        ELSE verdicts[i] = "drop"

\* The caches hold every answer the plan of d was made from.
Trail(d) ==
    /\ stage[d] # "search" => Firm(<<"search", query[d]>>, plan[d].found)
    /\ stage[d] \notin {"search", "select"} =>
          \E reply \in Reply :
             /\ Firm(<<"select", query[d], plan[d].found>>, reply)
             /\ plan[d].chosen = Chosen(reply, Len(plan[d].found))
    /\ stage[d] \in {"judge", "summarize"} =>
          \A i \in DOMAIN plan[d].page : Firm(<<"scrape", UrlAt(d, i)>>, plan[d].page[i])
    /\ stage[d] = "summarize" =>
          \E verdicts \in [DOMAIN plan[d].page -> {"keep", "drop"}] :
             /\ VerdictsOnRecord(query[d], plan[d], verdicts)
             /\ plan[d].kept = KeptOf(plan[d].found, plan[d].chosen, plan[d].page, verdicts)
    /\ \A i \in DOMAIN call[d] : call[d][i] = "in" => OnRecord(d, i)
    /\ status[d] = "done" /\ stage[d] = "search" => plan[d].found = answer[d][1]
    /\ status[d] = "done" /\ stage[d] = "judge" =>
          KeptOf(plan[d].found, plan[d].chosen, plan[d].page, answer[d]) = <<>>

TrailInv ==
    \A d \in Run :
        alone[d] /\ clean[d] /\ status[d] \in {"running", "done"} /\ Apart(d) => Trail(d)

\* The run r goes the way d went, and has paid nothing for it.
Mirrors(r, d) ==
    /\ ~paid[r]
    /\ stage[r] # "search" => plan[r].found = plan[d].found
    /\ stage[r] \notin {"search", "select"} => plan[r].chosen = plan[d].chosen
    /\ stage[r] \in {"judge", "summarize"} => plan[r].page = plan[d].page
    /\ stage[r] = "summarize" => plan[r].kept = plan[d].kept
    /\ \A i \in DOMAIN call[r] : call[r][i] = "in" => OnRecord(r, i)
    /\ status[r] = "done" => plan[r] = plan[d]

MirrorInv == \A r, d \in Run : Replays(r, d) /\ Apart(d) => Mirrors(r, d)

Replayable == IInv /\ HistoryInv /\ TrailInv /\ MirrorInv


----------------------------------------------------------------------------
(* History. *)

LEMMA InitHistory == Init => HistoryInv /\ TrailInv /\ MirrorInv
<1> SUFFICES ASSUME Init PROVE HistoryInv /\ TrailInv /\ MirrorInv OBVIOUS
<1>1. HistoryInv BY OneCall DEF Init, HistoryInv, Active
<1>2. TrailInv BY DEF Init, TrailInv
<1>3. MirrorInv BY DEF Init, MirrorInv, Replays
<1> QED BY <1>1, <1>2, <1>3

\* A step of calls or stages is a step of one run, which is not idle, and does
\* not make anyone active who was not.
Works(r) ==
    /\ status[r] # "idle" /\ Active(r)
    /\ query' = query /\ alone' = alone /\ before' = before
    /\ \A o \in Run \ {r} : Same(o) /\ paid'[o] = paid[o] /\ clean'[o] = clean[o]
    /\ status'[r] # "idle"
    /\ paid[r] => paid'[r]
    /\ clean'[r] => clean[r]
    /\ \A i \in DOMAIN call'[r] : call'[r][i] = "out" => paid'[r]
    /\ status'[r] = "done" => stage'[r] \notin {"select", "scrape"}

\* A call of which the cache raises is lost, and its run raises; to a search it
\* is as before.
LEMMA RaisedCall ==
    ASSUME IInv, NEW r \in Run, NEW i \in DOMAIN call[r],
           LookupRaises(r, i) \/ \E a \in Outcome(stage[r]) : StoreRaises(r, i, a)
    PROVE  /\ \/ call' = [call EXCEPT ![r][i] = "lost"] /\ status' = [status EXCEPT ![r] = "raised"]
              \/ call[r][i] = "out" /\ call' = call /\ status' = status
           /\ call[r][i] \in {"new", "out"}
           /\ stage' = stage /\ query' = query /\ answer' = answer /\ plan' = plan
           /\ paid' = paid /\ clean' = clean /\ alone' = alone /\ before' = before
BY DEF LookupRaises, StoreRaises

\* The five kinds of steps of calls.
Raises(r, i) == LookupRaises(r, i) \/ \E a \in Outcome(stage[r]) : StoreRaises(r, i, a)

LEMMA CallKinds ==
    ASSUME NEW r \in Run, Calls(r)
    PROVE  \E i \in DOMAIN call[r] :
              \/ Hit(r, i) \/ Miss(r, i) \/ Raises(r, i)
              \/ \E a \in Outcome(stage[r]) : Answered(r, i, a)
BY DEF Calls, Raises

LEMMA CallsWork ==
    ASSUME IInv, HistoryInv, NEW r \in Run, Calls(r)
    PROVE  Works(r)
<1>0. ShapeInv /\ CallsFit(status[r], stage[r], call[r], answer[r], plan[r])
  BY DEF IInv, RunsFit
<1> USE <1>0
<1>1. PICK i \in DOMAIN call[r] : \/ Hit(r, i) \/ Miss(r, i) \/ Raises(r, i)
                                  \/ \E a \in Outcome(stage[r]) : Answered(r, i, a)
  BY CallKinds
<1>2. call[r][i] \in {"new", "out"}
  BY <1>1, RaisedCall DEF Hit, Miss, Raises, Answered
<1>3. status[r] # "idle"
  <2>1. status[r] = "idle" => call[r][i] = "new" BY OneCall DEF HistoryInv
  <2> QED BY <1>1, <2>1 DEF Hit, Miss, Raises, LookupRaises, StoreRaises, Answered
<1>4. Active(r) /\ status[r] # "done" BY <1>2, <1>3 DEF Active, Unsettled, CallsFit
<1>5. \/ \E v \in {"in", "out", "lost"} :
            /\ call' = [call EXCEPT ![r][i] = v]
            /\ v = "out" => paid' = [paid EXCEPT ![r] = TRUE]
      \/ call' = call /\ paid' = paid
  <2>1. CASE Raises(r, i) BY <2>1, RaisedCall DEF Raises
  <2>2. CASE ~Raises(r, i) BY <1>1, <2>2 DEF Hit, Miss, Answered, Settles
  <2> QED BY <2>1, <2>2
<1>6. /\ \A o \in Run : o # r => call'[o] = call[o]
      /\ \A j \in DOMAIN call'[r] : call'[r][j] = "out" => paid'[r] \/ (j \in DOMAIN call[r] /\ call[r][j] = "out")
  <2>1. ASSUME NEW v \in {"in", "out", "lost"}, call' = [call EXCEPT ![r][i] = v],
               v = "out" => paid' = [paid EXCEPT ![r] = TRUE]
        PROVE  /\ \A o \in Run : o # r => call'[o] = call[o]
               /\ \A j \in DOMAIN call'[r] : call'[r][j] = "out" => paid'[r] \/ (j \in DOMAIN call[r] /\ call[r][j] = "out")
    <3>1. /\ DOMAIN call'[r] = DOMAIN call[r] /\ call'[r][i] = v
          /\ \A j \in DOMAIN call[r] : j # i => call'[r][j] = call[r][j]
          /\ \A o \in Run : o # r => call'[o] = call[o]
      BY <2>1, CallStep DEF CallState, IInv
    <3>2. v = "out" => paid'[r] BY <2>1 DEF ShapeInv
    <3> QED BY <3>1, <3>2
  <2> QED BY <1>5, <2>1
<1>7. \A o \in Run \ {r} : answer'[o] = answer[o]
  <2>1. CASE Raises(r, i) BY <2>1, RaisedCall DEF Raises
  <2>2. CASE ~Raises(r, i) BY <1>1, <2>2 DEF Hit, Miss, Answered, Settles, ShapeInv
  <2> QED BY <2>1, <2>2
<1>8. /\ query' = query /\ alone' = alone /\ before' = before
      /\ plan' = plan /\ stage' = stage
      /\ status' = status \/ status' = [status EXCEPT ![r] = "raised"]
      /\ paid' = paid \/ paid' = [paid EXCEPT ![r] = TRUE]
      /\ clean' = clean \/ \E f : clean' = [clean EXCEPT ![r] = @ /\ f]
  <2>1. CASE Raises(r, i) BY <2>1, RaisedCall DEF Raises
  <2>2. CASE ~Raises(r, i) BY <1>1, <2>2 DEF Hit, Miss, Answered
  <2> QED BY <2>1, <2>2
<1>9. \A o \in Run \ {r} : Same(o) /\ paid'[o] = paid[o] /\ clean'[o] = clean[o]
  BY <1>6, <1>7, <1>8 DEF Same, ShapeInv
<1>10. status'[r] # "idle" /\ status'[r] # "done" BY <1>3, <1>4, <1>8 DEF ShapeInv
<1>11. (paid[r] => paid'[r]) /\ (clean'[r] => clean[r]) BY <1>8 DEF ShapeInv
<1>12. \A j \in DOMAIN call'[r] : call'[r][j] = "out" => paid'[r]
  BY <1>6, <1>11 DEF HistoryInv
<1> QED BY <1>3, <1>4, <1>8, <1>9, <1>10, <1>11, <1>12 DEF Works

LEMMA StagesWork ==
    ASSUME IInv, HistoryInv, NEW r \in Run, Advance(r) \/ Cancel(r)
    PROVE  /\ Works(r) /\ UNCHANGED files
           /\ \A i \in DOMAIN call'[r] : call'[r][i] # "out"
<1>0. ShapeInv BY DEF IInv
<1>1. status[r] = "running"
  BY DEF Advance, Cancel, Searched, Selected, Scraped, Validated, Summarized, Through
<1>2. /\ UNCHANGED files /\ query' = query /\ alone' = alone /\ before' = before
      /\ paid' = paid /\ clean' = clean
  BY DEF Advance, Cancel, Searched, Selected, Scraped, Validated, Summarized, Through
<1>3. \A o \in Run \ {r} : Same(o)
  BY <1>0 DEF ShapeInv, Same, Advance, Cancel, Searched, Selected, Scraped, Validated,
              Summarized, Through, Proceed, Finish
<1>4. status'[r] # "idle" /\ (status'[r] = "done" => stage'[r] \notin {"select", "scrape"})
  BY <1>0, <1>1 DEF ShapeInv, Advance, Cancel, Searched, Selected, Scraped, Validated,
              Summarized, Through, Proceed, Finish
<1>5. ASSUME NEW i \in DOMAIN call'[r] PROVE call'[r][i] # "out"
  <2>1. CASE Cancel(r) BY <1>0, <2>1 DEF ShapeInv, Cancel, Unsettled
  <2>2. CASE Searched(r) \/ Selected(r) \/ Validated(r) \/ Summarized(r)
    BY <1>0, <2>2 DEF ShapeInv, Searched, Selected, Validated, Summarized, Through, Proceed, Finish
  <2>3. CASE Scraped(r)
    BY <1>0, <2>3 DEF ShapeInv, Scraped, Through
  <2> QED BY <2>1, <2>2, <2>3 DEF Advance
<1> QED BY <1>0, <1>1, <1>2, <1>3, <1>4, <1>5 DEF Works, Active

LEMMA WorkKeepsHistory ==
    ASSUME IInv, HistoryInv, IInv', NEW r \in Run, Works(r)
    PROVE  HistoryInv'
<1>1. \A o \in Run : Active(o)' => Active(o)
  BY DEF Works, Active, Unsettled, Same
<1> SUFFICES ASSUME NEW o \in Run
             PROVE  /\ status'[o] = "idle" =>
                          /\ stage'[o] = "search" /\ call'[o] = <<"new">> /\ plan'[o] = NoPlan
                          /\ ~paid'[o] /\ before'[o] = {}
                    /\ \A i \in DOMAIN call'[o] : call'[o][i] = "out" => paid'[o]
                    /\ \A d \in before'[o] : status'[d] = "done" /\ d # o
                    /\ alone'[o] /\ Active(o)' => \A e \in Run \ {o} : ~Active(e)'
                    /\ status'[o] = "done" => stage'[o] \notin {"select", "scrape"}
  BY DEF HistoryInv
<1>2. status[r] # "done"
  BY DEF Works, Active, Unsettled, IInv, RunsFit, CallsFit
<1>3. \A d \in before'[o] : status'[d] = "done" /\ d # o
  <2> SUFFICES ASSUME NEW d \in before[o] PROVE status'[d] = "done" /\ d # o BY DEF Works
  <2>1. status[d] = "done" /\ d # o /\ d \in Run BY DEF HistoryInv, IInv, ShapeInv
  <2> QED BY <1>2, <2>1 DEF Works, Same
<1>4. alone'[o] /\ Active(o)' => \A e \in Run \ {o} : ~Active(e)'
  BY <1>1 DEF Works, HistoryInv
<1>5. CASE o = r BY <1>3, <1>4, <1>5 DEF Works
<1>6. CASE o # r BY <1>3, <1>4, <1>6 DEF Works, Same, HistoryInv
<1> QED BY <1>5, <1>6

LEMMA StartKeepsHistory ==
    ASSUME IInv, HistoryInv, NEW r \in Run, Start(r)
    PROVE  HistoryInv'
<1>0. ShapeInv BY DEF IInv
<1>1. /\ status[r] = "idle" /\ status'[r] = "running"
      /\ \A o \in Run \ {r} : status'[o] = status[o] /\ before'[o] = before[o]
      /\ before'[r] = {d \in Run : status[d] = "done"}
      /\ alone'[r] = (\A e \in Run \ {r} : ~Active(e))
      /\ \A o \in Run \ {r} : alone'[o] = (alone[o] /\ ~Active(o))
      /\ stage' = stage /\ call' = call /\ plan' = plan /\ paid' = paid
  BY <1>0 DEF Start, ShapeInv
<1>2. \A o \in Run \ {r} : Active(o)' <=> Active(o) BY <1>1 DEF Active, Unsettled
<1> SUFFICES ASSUME NEW o \in Run
             PROVE  /\ status'[o] = "idle" =>
                          /\ stage'[o] = "search" /\ call'[o] = <<"new">> /\ plan'[o] = NoPlan
                          /\ ~paid'[o] /\ before'[o] = {}
                    /\ \A i \in DOMAIN call'[o] : call'[o][i] = "out" => paid'[o]
                    /\ \A d \in before'[o] : status'[d] = "done" /\ d # o
                    /\ alone'[o] /\ Active(o)' => \A e \in Run \ {o} : ~Active(e)'
                    /\ status'[o] = "done" => stage'[o] \notin {"select", "scrape"}
  BY DEF HistoryInv
<1>3. \A d \in before'[o] : status'[d] = "done" /\ d # o
  <2>1. CASE o = r BY <1>1, <2>1
  <2>2. CASE o # r
    <3> SUFFICES ASSUME NEW d \in before[o] PROVE status'[d] = "done" /\ d # o BY <1>1, <2>2
    <3>1. status[d] = "done" /\ d # o /\ d \in Run BY <1>0 DEF HistoryInv, ShapeInv
    <3> QED BY <1>1, <3>1
  <2> QED BY <2>1, <2>2
<1>4. alone'[o] /\ Active(o)' => \A e \in Run \ {o} : ~Active(e)'
  <2>1. CASE o = r BY <1>1, <1>2, <2>1
  <2>2. CASE o # r BY <1>1, <1>2, <2>2
  <2> QED BY <2>1, <2>2
<1> QED BY <1>1, <1>3, <1>4 DEF HistoryInv

\* A put, whole or not, under another key leaves what is on a line of its own.
LEMMA PutBeside ==
    ASSUME NEW key, NEW b, Put(key, b) \/ PutRaises(key, b),
           NEW k, NEW a, k # key, k \in DOMAIN memo, memo[k] = a, Lined(k, a)
    PROVE  k \in DOMAIN memo' /\ memo'[k] = a /\ Lined(k, a)'
<1> USE DEF Lined
<1>1. CASE UNCHANGED files BY <1>1
<1>2. CASE TornPut(key, b) BY <1>2 DEF TornPut, Reread, Recorded
<1>3. CASE Put(key, b)
  <2>1. k \in DOMAIN safe' /\ safe'[k] = a BY <1>3 DEF Put, Recorded
  <2>2. memo' = Reread(FileOf(key), safe') BY <1>3 DEF Put
  <2>3. PICK n : n = safe' OBVIOUS
  <2>4. k \in DOMAIN Reread(FileOf(key), n) /\ Reread(FileOf(key), n)[k] = a
    BY <2>1, <2>3 DEF Reread
  <2> QED BY <2>1, <2>2, <2>3, <2>4
<1> QED BY <1>1, <1>2, <1>3 DEF PutRaises

\* A record that is there to stay stays.
LEMMA FirmStays ==
    ASSUME IInv, HistoryInv, [Next]_vars, NEW k, NEW a, Firm(k, a)
    PROVE  Firm(k, a)'
<1>0. ShapeInv BY DEF IInv
<1> SUFFICES /\ k \in DOMAIN memo' /\ memo'[k] = a /\ Lined(k, a)'
             /\ \A e \in Run : \A j \in DOMAIN call'[e] : call'[e][j] = "out" => Key(e, j)' # k
  BY DEF Firm
<1>1. ASSUME NEW r \in Run, Start(r)
      PROVE  /\ k \in DOMAIN memo' /\ memo'[k] = a /\ Lined(k, a)'
             /\ \A e \in Run : \A j \in DOMAIN call'[e] : call'[e][j] = "out" => Key(e, j)' # k
  BY <1>1 DEF Start, Firm, Lined, Key, UrlAt
<1>2. ASSUME NEW r \in Run, Advance(r) \/ Cancel(r)
      PROVE  /\ k \in DOMAIN memo' /\ memo'[k] = a /\ Lined(k, a)'
             /\ \A e \in Run : \A j \in DOMAIN call'[e] : call'[e][j] = "out" => Key(e, j)' # k
  <2>1. /\ Works(r) /\ UNCHANGED files /\ \A i \in DOMAIN call'[r] : call'[r][i] # "out"
    BY <1>2, StagesWork
  <2>2. ASSUME NEW e \in Run, NEW j \in DOMAIN call'[e], call'[e][j] = "out"
        PROVE  Key(e, j)' # k
    <3>1. e # r BY <2>1, <2>2
    <3>2. Same(e) /\ query' = query BY <2>1, <3>1 DEF Works
    <3>3. Key(e, j)' = Key(e, j) BY <3>2 DEF Same, Key, UrlAt
    <3>4. j \in DOMAIN call[e] /\ call[e][j] = "out" BY <2>2, <3>2 DEF Same
    <3> QED BY <3>3, <3>4 DEF Firm
  <2> QED BY <2>1, <2>2 DEF Firm, Lined
<1>3. ASSUME NEW r \in Run, Calls(r)
      PROVE  /\ k \in DOMAIN memo' /\ memo'[k] = a /\ Lined(k, a)'
             /\ \A e \in Run : \A j \in DOMAIN call'[e] : call'[e][j] = "out" => Key(e, j)' # k
  <2>1. PICK i \in DOMAIN call[r] : \/ Hit(r, i) \/ Miss(r, i) \/ Raises(r, i)
                                    \/ \E b \in Outcome(stage[r]) : Answered(r, i, b)
    BY <1>3, CallKinds
  <2>2. stage' = stage /\ query' = query /\ plan' = plan
    <3>1. CASE Raises(r, i) BY <3>1, RaisedCall DEF Raises
    <3>2. CASE ~Raises(r, i) BY <2>1, <3>2 DEF Hit, Miss, Answered
    <3> QED BY <3>1, <3>2
  <2>3. \A e \in Run : \A j : Key(e, j)' = Key(e, j) BY <2>2 DEF Key, UrlAt
  <2>4. \/ call' = call
        \/ \E v \in {"in", "out", "lost"} :
              /\ call' = [call EXCEPT ![r][i] = v]
              /\ v = "out" => Miss(r, i)
    <3>1. CASE Raises(r, i) BY <3>1, RaisedCall DEF Raises
    <3>2. CASE ~Raises(r, i) BY <2>1, <3>2 DEF Hit, Miss, Answered, Settles
    <3> QED BY <3>1, <3>2
  <2>5. ASSUME NEW e \in Run, NEW j \in DOMAIN call'[e], call'[e][j] = "out"
        PROVE  (j \in DOMAIN call[e] /\ call[e][j] = "out") \/ (e = r /\ j = i /\ Miss(r, i))
    <3>1. CASE call' = call BY <2>5, <3>1
    <3>2. ASSUME NEW v \in {"in", "out", "lost"}, call' = [call EXCEPT ![r][i] = v],
                 v = "out" => Miss(r, i)
          PROVE  (j \in DOMAIN call[e] /\ call[e][j] = "out") \/ (e = r /\ j = i /\ Miss(r, i))
      <4>1. /\ DOMAIN call'[r] = DOMAIN call[r] /\ call'[r][i] = v
            /\ \A l \in DOMAIN call[r] : l # i => call'[r][l] = call[r][l]
            /\ \A o \in Run : o # r => call'[o] = call[o]
        BY <3>2, CallStep DEF CallState
      <4> QED BY <2>5, <3>2, <4>1
    <3> QED BY <2>4, <3>1, <3>2
  <2>6. Miss(r, i) => Key(r, i) # k
    <3> SUFFICES ASSUME Miss(r, i), Key(r, i) = k PROVE FALSE OBVIOUS
    <3>1. Key(r, i)[1] = stage[r] BY <1>0, KeyNamesStage DEF ShapeInv
    <3> QED BY <3>1 DEF Miss, Served, Firm
  <2>7. ASSUME NEW e \in Run, NEW j \in DOMAIN call'[e], call'[e][j] = "out"
        PROVE  Key(e, j)' # k
    BY <2>3, <2>5, <2>6, <2>7 DEF Firm
  <2>8. \/ UNCHANGED files
        \/ Key(r, i) # k /\ \E b : Put(Key(r, i), b) \/ PutRaises(Key(r, i), b)
    <3>1. call[r][i] = "out" => Key(r, i) # k BY DEF Firm
    <3>2. CASE Raises(r, i) BY <3>1, <3>2 DEF Raises, LookupRaises, StoreRaises
    <3>3. CASE ~Raises(r, i) BY <2>1, <3>1, <3>3 DEF Hit, Miss, Answered
    <3> QED BY <3>2, <3>3
  <2>9. k \in DOMAIN memo' /\ memo'[k] = a /\ Lined(k, a)'
    <3>1. k \in DOMAIN memo /\ memo[k] = a /\ Lined(k, a) BY DEF Firm
    <3>2. CASE UNCHANGED files BY <3>1, <3>2 DEF Lined
    <3>3. CASE Key(r, i) # k /\ \E b : Put(Key(r, i), b) \/ PutRaises(Key(r, i), b)
      BY <3>1, <3>3, PutBeside
    <3> QED BY <2>8, <3>2, <3>3
  <2> QED BY <2>7, <2>9
<1>4. CASE UNCHANGED vars BY <1>4 DEF vars, Firm, Lined, Key, UrlAt
<1> QED BY <1>1, <1>2, <1>3, <1>4 DEF Next

\* There is one record under a key.
LEMMA FirmIsOne == ASSUME NEW k, NEW a, NEW b, Firm(k, a), Firm(k, b) PROVE a = b
BY DEF Firm


----------------------------------------------------------------------------
(* The trail of a run that has the caches to itself. *)

LEMMA OnRecordStays ==
    ASSUME IInv, HistoryInv, [Next]_vars, NEW r \in Run, NEW i, OnRecord(r, i),
           query'[r] = query[r], stage'[r] = stage[r],
           plan'[r] = plan[r], answer'[r][i] = answer[r][i]
    PROVE  OnRecord(r, i)'
<1>1. Key(r, i)' = Key(r, i) BY DEF Key, UrlAt
<1>2. CASE stage[r] = "judge" /\ ~HasText(plan[r].page[i]) BY <1>2 DEF OnRecord
<1>3. CASE ~(stage[r] = "judge" /\ ~HasText(plan[r].page[i]))
  <2>1. Firm(Key(r, i), answer[r][i]) BY <1>3 DEF OnRecord
  <2>2. \A k : \A a : Firm(k, a) => Firm(k, a)' BY FirmStays
  <2> DEFINE k == Key(r, i)
             a == answer[r][i]
  <2>3. PICK k0, a0 : k0 = k /\ a0 = a OBVIOUS
  <2>4. Firm(k0, a0)' BY <2>1, <2>2, <2>3
  <2>5. Key(r, i)' = k0 /\ answer'[r][i] = a0 BY <1>1, <2>3
  <2>6. Firm(Key(r, i), answer[r][i])' BY <2>4, <2>5 DEF Firm, Lined
  <2> QED BY <1>3, <2>6 DEF OnRecord
<1> QED BY <1>2, <1>3

\* The part of the trail that lies behind the stage the run is at.
Behind(d) ==
    /\ stage[d] # "search" => Firm(<<"search", query[d]>>, plan[d].found)
    /\ stage[d] \notin {"search", "select"} =>
          \E reply \in Reply :
             /\ Firm(<<"select", query[d], plan[d].found>>, reply)
             /\ plan[d].chosen = Chosen(reply, Len(plan[d].found))
    /\ stage[d] \in {"judge", "summarize"} =>
          \A i \in DOMAIN plan[d].page : Firm(<<"scrape", UrlAt(d, i)>>, plan[d].page[i])
    /\ stage[d] = "summarize" =>
          \E verdicts \in [DOMAIN plan[d].page -> {"keep", "drop"}] :
             /\ VerdictsOnRecord(query[d], plan[d], verdicts)
             /\ plan[d].kept = KeptOf(plan[d].found, plan[d].chosen, plan[d].page, verdicts)

LEMMA BehindStays ==
    ASSUME IInv, HistoryInv, [Next]_vars, NEW d \in Run, Behind(d),
           query'[d] = query[d], stage'[d] = stage[d], plan'[d] = plan[d]
    PROVE  Behind(d)'
<1>0. \A k : \A a : Firm(k, a) => Firm(k, a)' BY FirmStays
<1>1. PICK q, p, s : q = query[d] /\ p = plan[d] /\ s = stage[d] OBVIOUS
<1>2. query'[d] = q /\ plan'[d] = p /\ stage'[d] = s BY <1>1
<1> HIDE DEF Firm
<1>3. s # "search" => Firm(<<"search", q>>, p.found)'
  BY <1>0, <1>1 DEF Behind
<1>4. s \notin {"search", "select"} =>
          \E reply \in Reply :
             /\ Firm(<<"select", q, p.found>>, reply)'
             /\ p.chosen = Chosen(reply, Len(p.found))
  BY <1>0, <1>1 DEF Behind
<1>5. s \in {"judge", "summarize"} =>
          \A i \in DOMAIN p.page : Firm(<<"scrape", p.found[p.chosen[i]]>>, p.page[i])'
  BY <1>0, <1>1 DEF Behind, UrlAt
<1>6. s = "summarize" =>
          \E verdicts \in [DOMAIN p.page -> {"keep", "drop"}] :
             /\ VerdictsOnRecord(q, p, verdicts)'
             /\ p.kept = KeptOf(p.found, p.chosen, p.page, verdicts)
  <2> SUFFICES ASSUME s = "summarize"
               PROVE  \E verdicts \in [DOMAIN p.page -> {"keep", "drop"}] :
                         /\ VerdictsOnRecord(q, p, verdicts)'
                         /\ p.kept = KeptOf(p.found, p.chosen, p.page, verdicts)
    OBVIOUS
  <2>1. PICK verdicts \in [DOMAIN p.page -> {"keep", "drop"}] :
             /\ VerdictsOnRecord(q, p, verdicts)
             /\ p.kept = KeptOf(p.found, p.chosen, p.page, verdicts)
    BY <1>1 DEF Behind
  <2>2. VerdictsOnRecord(q, p, verdicts)' BY <1>0, <2>1 DEF VerdictsOnRecord
  <2> QED BY <2>1, <2>2
<1> QED BY <1>2, <1>3, <1>4, <1>5, <1>6 DEF Behind, UrlAt

\* A call that is out has a key of its own when its run is alone.
LEMMA OwnKey ==
    ASSUME IInv, HistoryInv, NEW r \in Run, alone[r], Apart(r),
           NEW i \in DOMAIN call[r], call[r][i] \in {"new", "out"}, status[r] # "idle",
           stage[r] = "judge" => HasText(plan[r].page[i]),
           NEW e \in Run, NEW j \in DOMAIN call[e], call[e][j] = "out", ~(e = r /\ j = i)
    PROVE  Key(e, j) # Key(r, i)
<1>0. /\ ShapeInv /\ PlanFits(status[r], stage[r], plan[r]) /\ stage[r] \in Stage
      /\ CallsFit(status[r], stage[r], call[r], answer[r], plan[r])
      /\ call[r] \in Seq(CallState) /\ plan[r] \in Plan
  BY DEF IInv, RunsFit, ShapeInv
<1>1. e = r
  <2>1. Active(r) BY DEF Active, Unsettled
  <2>2. status[e] # "idle" BY OneCall DEF HistoryInv
  <2>3. Active(e) BY <2>2 DEF Active, Unsettled
  <2> QED BY <2>1, <2>3 DEF HistoryInv
<1>2. i # j /\ j \in DOMAIN call[r] BY <1>1
<1>3. DOMAIN call[r] = 1..Len(call[r]) BY <1>0, LenProperties
<1>4. stage[r] \in {"scrape", "judge"}
  <2>1. ASSUME stage[r] \notin {"scrape", "judge"} PROVE FALSE
    <3>1. Len(call[r]) = 1 BY <1>0, <2>1 DEF CallsFit
    <3> QED BY <1>2, <1>3, <3>1
  <2> QED BY <2>1
<1>5. DOMAIN plan[r].chosen = DOMAIN call[r]
  <2>1. Len(call[r]) = Len(plan[r].chosen) BY <1>0, <1>4 DEF CallsFit
  <2>2. plan[r].chosen \in Seq(Nat) BY <1>0 DEF Plan
  <2> QED BY <1>3, <2>1, <2>2, LenProperties
<1>6. CASE stage[r] = "scrape"
  <2>1. UrlAt(r, i) # UrlAt(r, j) BY <1>2, <1>5 DEF Apart
  <2> QED BY <1>1, <1>6, <2>1 DEF Key
<1>7. CASE stage[r] = "judge"
  <2>1. DOMAIN plan[r].page = DOMAIN plan[r].chosen
    <3>1. Len(plan[r].page) = Len(plan[r].chosen) BY <1>0, <1>7 DEF PlanFits
    <3>2. plan[r].chosen \in Seq(Nat) /\ plan[r].page \in Seq(Page) BY <1>0 DEF Plan
    <3> QED BY <3>1, <3>2, LenProperties
  <2>2. plan[r].page[i] # plan[r].page[j] BY <1>2, <1>5, <1>7, <2>1 DEF Apart
  <2> QED BY <1>1, <1>7, <2>2 DEF Key
<1> QED BY <1>4, <1>6, <1>7

\* What an alone and clean run's call was just answered is on record.
LEMMA SettledOnRecord ==
    ASSUME IInv, HistoryInv, NEW r \in Run, alone[r], Apart(r),
           NEW i \in DOMAIN call[r], status'[r] = "running",
           clean'[r], Hit(r, i) \/ \E a \in Outcome(stage[r]) : Answered(r, i, a)
    PROVE  OnRecord(r, i)'
<1>0. /\ ShapeInv /\ stage[r] \in Stage
      /\ CallsFit(status[r], stage[r], call[r], answer[r], plan[r])
  BY DEF IInv, RunsFit, ShapeInv
<1>1. /\ stage' = stage /\ plan' = plan /\ query' = query
      /\ call' = [call EXCEPT ![r][i] = "in"] /\ call[r][i] \in {"new", "out"}
  BY DEF Hit, Answered, Settles
<1>2. /\ DOMAIN call'[r] = DOMAIN call[r] /\ call'[r][i] = "in"
      /\ \A j \in DOMAIN call[r] : j # i => call'[r][j] = call[r][j]
      /\ \A o \in Run : o # r => call'[o] = call[o]
  BY <1>1, CallStep DEF CallState
<1>3. stage[r] = "judge" => HasText(plan[r].page[i]) BY <1>0, <1>1 DEF CallsFit
<1>4. status[r] # "idle"
  <2>1. status[r] = "idle" => call[r][i] = "new" BY OneCall DEF HistoryInv
  <2> QED BY <2>1 DEF Hit, Answered
<1>5. \A e \in Run : \A j : Key(e, j)' = Key(e, j) BY <1>1 DEF Key, UrlAt
<1>6. ASSUME NEW e \in Run, NEW j \in DOMAIN call'[e], call'[e][j] = "out"
      PROVE  Key(e, j)' # Key(r, i)'
  <2>1. j \in DOMAIN call[e] /\ call[e][j] = "out" /\ ~(e = r /\ j = i) BY <1>2, <1>6
  <2>2. Key(e, j) # Key(r, i) BY <1>1, <1>3, <1>4, <2>1, OwnKey
  <2> QED BY <1>5, <2>2
<1>7. /\ Key(r, i) \in DOMAIN memo' /\ memo'[Key(r, i)] = answer'[r][i]
      /\ Key(r, i) \in DOMAIN safe' /\ safe'[Key(r, i)] = answer'[r][i]
      /\ stage[r] = "scrape" => answer'[r][i] # "empty"
  <2>1. CASE Hit(r, i)
    <3>1. /\ Settles(r, i, memo[Key(r, i)]) /\ UNCHANGED files /\ Key(r, i) \in DOMAIN memo
          /\ stage[r] = "scrape" => memo[Key(r, i)] # "empty"
      BY <2>1 DEF Hit, Served
    <3>2. answer'[r][i] = memo[Key(r, i)] BY <3>1, AnswerStep
    <3>3. Lined(Key(r, i), memo[Key(r, i)]) BY <1>0, <2>1 DEF Hit, ShapeInv
    <3> QED BY <3>1, <3>2, <3>3 DEF Lined
  <2>2. ASSUME NEW a \in Outcome(stage[r]), Answered(r, i, a)
        PROVE  /\ Key(r, i) \in DOMAIN memo' /\ memo'[Key(r, i)] = answer'[r][i]
               /\ Key(r, i) \in DOMAIN safe' /\ safe'[Key(r, i)] = answer'[r][i]
               /\ stage[r] = "scrape" => answer'[r][i] # "empty"
    <3>1. /\ Settles(r, i, a) /\ Flawless(stage[r], a) /\ FileOf(Key(r, i)) \notin torn
          /\ IF Storable(stage[r], a) THEN Put(Key(r, i), a) ELSE UNCHANGED files
      BY <1>0, <2>2 DEF Answered, ShapeInv
    <3>2. PICK key : key = Key(r, i) OBVIOUS
    <3>3. safe' = Recorded(safe, key, a) /\ memo' = Reread(FileOf(key), safe')
      BY <3>1, <3>2 DEF Flawless, Storable, Put
    <3>4. PICK n : n = safe' OBVIOUS
    <3>5. key \in DOMAIN n /\ n[key] = a BY <3>3, <3>4 DEF Recorded
    <3>6. key \in DOMAIN Reread(FileOf(key), n) /\ Reread(FileOf(key), n)[key] = a
      BY <3>5 DEF Reread
    <3>7. answer'[r][i] = a BY <3>1, AnswerStep
    <3>8. stage[r] = "scrape" => a # "empty" BY <3>1 DEF Flawless
    <3> QED BY <3>2, <3>3, <3>4, <3>5, <3>6, <3>7, <3>8
  <2> QED BY <2>1, <2>2
<1>8. Key(r, i)[1] = stage[r] BY <1>0, KeyNamesStage
<1>9. Firm(Key(r, i), answer[r][i])' BY <1>5, <1>6, <1>7, <1>8 DEF Firm, Lined
<1> QED BY <1>1, <1>3, <1>9 DEF OnRecord


\* The other part: the calls of the stage the run is at.
LEMMA TrailParts ==
    ASSUME NEW d \in Run
    PROVE  Trail(d) <=> /\ Behind(d)
                        /\ \A i \in DOMAIN call[d] : call[d][i] = "in" => OnRecord(d, i)
                        /\ status[d] = "done" /\ stage[d] = "search" =>
                              plan[d].found = answer[d][1]
                        /\ status[d] = "done" /\ stage[d] = "judge" =>
                              KeptOf(plan[d].found, plan[d].chosen, plan[d].page, answer[d]) = <<>>
BY DEF Trail, Behind

\* Being set apart depends on the plan only.
LEMMA ApartOfPlan ==
    ASSUME NEW d \in Run, plan'[d] = plan[d]
    PROVE  Apart(d)' <=> Apart(d)
BY DEF Apart, UrlAt

LEMMA TrailStays ==
    ASSUME IInv, HistoryInv, [Next]_vars, NEW d \in Run, Trail(d), Same(d), query'[d] = query[d]
    PROVE  Trail(d)'
<1>1. Behind(d)' BY TrailParts, BehindStays DEF Same
<1>2. ASSUME NEW i \in DOMAIN call'[d], call'[d][i] = "in" PROVE OnRecord(d, i)'
  <2>1. OnRecord(d, i) BY <1>2, TrailParts DEF Same
  <2> QED BY <2>1, OnRecordStays DEF Same
<1>3. /\ status'[d] = "done" /\ stage'[d] = "search" => plan'[d].found = answer'[d][1]
      /\ status'[d] = "done" /\ stage'[d] = "judge" =>
            KeptOf(plan'[d].found, plan'[d].chosen, plan'[d].page, answer'[d]) = <<>>
  BY TrailParts DEF Same
<1> QED BY <1>1, <1>2, <1>3 DEF Trail, Behind

LEMMA CallsLeaveTrail ==
    ASSUME IInv, HistoryInv, [Next]_vars, TrailInv, NEW r \in Run, Calls(r),
           alone'[r], clean'[r], status'[r] \in {"running", "done"}, Apart(r)'
    PROVE  Trail(r)'
<1>0. ShapeInv /\ CallsFit(status[r], stage[r], call[r], answer[r], plan[r])
  BY DEF IInv, RunsFit
<1>1. PICK i \in DOMAIN call[r] : \/ Hit(r, i) \/ Miss(r, i) \/ Raises(r, i)
                                  \/ \E a \in Outcome(stage[r]) : Answered(r, i, a)
  BY CallKinds
<1>2. Raises(r, i) => call' = call /\ answer' = answer
  BY <1>0, RaisedCall DEF Raises, ShapeInv
<1>3. /\ stage' = stage /\ plan' = plan /\ query' = query /\ alone' = alone
      /\ call[r][i] \in {"new", "out"}
      /\ status' = status \/ status'[r] = "raised"
  <2>1. CASE Raises(r, i) BY <1>0, <2>1, RaisedCall DEF Raises, ShapeInv
  <2>2. CASE ~Raises(r, i)
    BY <1>0, <1>1, <2>2 DEF Hit, Miss, Answered, Fatal, ShapeInv
  <2> QED BY <2>1, <2>2
<1>4. status[r] = "running" /\ status'[r] = "running" BY <1>0, <1>3 DEF CallsFit
<1>5. clean[r] /\ Works(r) BY CallsWork DEF Works
<1>6. Apart(r) BY <1>3, ApartOfPlan
<1>7. Trail(r) BY <1>3, <1>4, <1>5, <1>6 DEF TrailInv
<1>8. Behind(r)' BY <1>3, <1>7, TrailParts, BehindStays
<1>9. ASSUME NEW j \in DOMAIN call'[r], call'[r][j] = "in" PROVE OnRecord(r, j)'
  <2>1. CASE Miss(r, i)
    <3>1. call' = [call EXCEPT ![r][i] = "out"] /\ answer' = answer BY <2>1 DEF Miss
    <3>2. j # i /\ j \in DOMAIN call[r] /\ call[r][j] = "in"
      BY <1>9, <3>1, CallStep DEF CallState
    <3>3. OnRecord(r, j) BY <1>7, <3>2, TrailParts
    <3> QED BY <1>3, <3>1, <3>3, OnRecordStays
  <2>2. CASE Hit(r, i) \/ \E a \in Outcome(stage[r]) : Answered(r, i, a)
    <3>1. CASE j = i BY <1>1, <1>3, <1>4, <1>6, <2>2, <3>1, SettledOnRecord
    <3>2. CASE j # i
      <4>1. PICK a : Settles(r, i, a) BY <2>2 DEF Hit, Answered
      <4>2. j \in DOMAIN call[r] /\ call[r][j] = "in" /\ answer'[r][j] = answer[r][j]
        BY <1>9, <3>2, <4>1, CallStep, AnswerStep DEF CallState, Settles
      <4>3. OnRecord(r, j) BY <1>7, <4>2, TrailParts
      <4> QED BY <1>3, <4>2, <4>3, OnRecordStays
    <3> QED BY <3>1, <3>2
  <2>3. CASE Raises(r, i)
    <3>1. j \in DOMAIN call[r] /\ call[r][j] = "in" /\ answer' = answer
      BY <1>2, <1>9, <2>3
    <3>2. OnRecord(r, j) BY <1>7, <3>1, TrailParts
    <3> QED BY <1>3, <3>1, <3>2, OnRecordStays
  <2> QED BY <1>1, <2>1, <2>2, <2>3
<1> QED BY <1>4, <1>8, <1>9 DEF Trail, Behind

\* A run that goes on takes along what it has on record.
LEMMA RecordsStay ==
    ASSUME IInv, HistoryInv, [Next]_vars
    PROVE  \A k : \A a : Firm(k, a) => Firm(k, a)'
BY FirmStays

LEMMA SearchedLeavesTrail ==
    ASSUME IInv, HistoryInv, [Next]_vars, NEW r \in Run, Searched(r), Trail(r)
    PROVE  Trail(r)'
<1>0. ShapeInv /\ CallsFit(status[r], stage[r], call[r], answer[r], plan[r])
  BY DEF IInv, RunsFit
<1>1. /\ status[r] = "running" /\ stage[r] = "search" /\ query' = query
      /\ \A i \in DOMAIN call[r] : call[r][i] = "in"
      /\ plan'[r] = [plan[r] EXCEPT !.found = answer[r][1]]
      /\ Finish(r) \/ Proceed(r, "select", {1})
  BY <1>0 DEF Searched, Through, ShapeInv
<1>2. 1 \in DOMAIN call[r] /\ DOMAIN call[r] = {1} /\ plan[r] \in Plan
  <2>1. call[r] \in Seq(CallState) /\ Len(call[r]) = 1 BY <1>0, <1>1 DEF ShapeInv, CallsFit
  <2> QED BY <1>0, <2>1, LenProperties DEF ShapeInv
<1>3. plan'[r].found = answer[r][1] BY <1>1, <1>2 DEF Plan
<1>4. Firm(<<"search", query[r]>>, answer[r][1])
  BY <1>1, <1>2, TrailParts DEF OnRecord, Key
<1>5. PICK k, a : k = <<"search", query[r]>> /\ a = answer[r][1] OBVIOUS
<1>6. Firm(k, a)' BY <1>4, <1>5, RecordsStay
<1>7. CASE Finish(r)
  <2>1. /\ status'[r] = "done" /\ stage'[r] = "search" /\ call' = call /\ answer' = answer
    BY <1>0, <1>1, <1>7 DEF Finish, ShapeInv
  <2>2. Key(r, 1)' = k BY <1>1, <1>5, <2>1 DEF Key
  <2>3. Firm(Key(r, 1), answer[r][1])' BY <1>5, <1>6, <2>1, <2>2 DEF Firm
  <2>4. OnRecord(r, 1)' BY <2>1, <2>3 DEF OnRecord
  <2>5. \A i \in DOMAIN call'[r] : i = 1 BY <1>2, <2>1
  <2> QED BY <1>3, <2>1, <2>4, <2>5 DEF Trail
<1>8. CASE Proceed(r, "select", {1})
  <2>1. /\ status'[r] = "running" /\ stage'[r] = "select"
        /\ \A i \in DOMAIN call'[r] : call'[r][i] = "new"
    BY <1>0, <1>1, <1>8 DEF Proceed, ShapeInv
  <2>2. Firm(<<"search", query[r]>>, plan[r].found)' BY <1>1, <1>3, <1>5, <1>6
  <2> QED BY <2>1, <2>2 DEF Trail
<1> QED BY <1>1, <1>7, <1>8

LEMMA SelectedLeavesTrail ==
    ASSUME IInv, HistoryInv, [Next]_vars, NEW r \in Run, Selected(r), Trail(r)
    PROVE  Trail(r)'
<1>0. ShapeInv /\ CallsFit(status[r], stage[r], call[r], answer[r], plan[r])
  BY DEF IInv, RunsFit
<1> DEFINE chosen == Chosen(answer[r][1], Len(plan[r].found))
<1>1. /\ status[r] = "running" /\ stage[r] = "select" /\ query' = query
      /\ \A i \in DOMAIN call[r] : call[r][i] = "in"
      /\ plan'[r] = [plan[r] EXCEPT !.chosen = chosen]
      /\ Proceed(r, "scrape", DOMAIN chosen)
  BY <1>0 DEF Selected, Through, ShapeInv
<1>2. 1 \in DOMAIN call[r] /\ plan[r] \in Plan
  <2>1. call[r] \in Seq(CallState) /\ Len(call[r]) = 1 BY <1>0, <1>1 DEF ShapeInv, CallsFit
  <2> QED BY <1>0, <2>1, LenProperties DEF ShapeInv
<1>3. PICK q, found, reply : /\ q = query[r] /\ found = plan[r].found
                             /\ reply = answer[r][1]
  OBVIOUS
<1>4. plan'[r].found = found /\ plan'[r].chosen = Chosen(reply, Len(found))
  BY <1>1, <1>2, <1>3 DEF Plan
<1>5. Firm(<<"select", q, found>>, reply)
  BY <1>1, <1>2, <1>3, TrailParts DEF OnRecord, Key
<1>6. reply \in Reply
  <2>1. reply \in RecordOf("select") BY <1>5 DEF Firm, IInv, MemoInv, RecordsFit, Stage
  <2> QED BY <2>1 DEF RecordOf
<1>7. Firm(<<"search", q>>, found) BY <1>1, <1>3 DEF Trail
<1>8. Firm(<<"search", q>>, found)' /\ Firm(<<"select", q, found>>, reply)'
  BY <1>5, <1>7, RecordsStay
<1>9. /\ status'[r] = "running" /\ stage'[r] = "scrape" /\ query'[r] = q
      /\ \A i \in DOMAIN call'[r] : call'[r][i] = "new"
  BY <1>0, <1>1, <1>3 DEF Proceed, ShapeInv
<1> HIDE DEF chosen, Firm
<1> QED BY <1>4, <1>6, <1>8, <1>9 DEF Trail

LEMMA ScrapedLeavesTrail ==
    ASSUME IInv, HistoryInv, [Next]_vars, NEW r \in Run, Scraped(r), Trail(r)
    PROVE  Trail(r)'
<1>0. ShapeInv BY DEF IInv
<1>1. /\ status[r] = "running" /\ stage[r] = "scrape" /\ query' = query
      /\ \A i \in DOMAIN call[r] : call[r][i] = "in"
      /\ plan'[r] = [plan[r] EXCEPT !.page = answer[r]]
      /\ status'[r] = "running" /\ stage'[r] = "judge"
      /\ call'[r] = [i \in DOMAIN call[r] |-> IF i \in Judged(r) THEN "new" ELSE "in"]
      /\ answer'[r] = [i \in DOMAIN answer[r] |-> IF i \in Judged(r) THEN None ELSE "drop"]
  BY <1>0 DEF Scraped, Through, ShapeInv
<1>2. DOMAIN answer[r] = DOMAIN call[r] /\ plan[r] \in Plan BY <1>0 DEF ShapeInv
<1>3. PICK q, found, chosen, page : /\ q = query[r] /\ found = plan[r].found
                                    /\ chosen = plan[r].chosen /\ page = answer[r]
  OBVIOUS
<1>4. /\ plan'[r].found = found /\ plan'[r].chosen = chosen /\ plan'[r].page = page
      /\ query'[r] = q
  BY <1>1, <1>2, <1>3 DEF Plan
<1>5. PICK reply \in Reply : Firm(<<"select", q, found>>, reply) /\ chosen = Chosen(reply, Len(found))
  BY <1>1, <1>3 DEF Trail
<1>6. Firm(<<"search", q>>, found)' /\ Firm(<<"select", q, found>>, reply)'
  <2>1. Firm(<<"search", q>>, found) BY <1>1, <1>3 DEF Trail
  <2> QED BY <1>5, <2>1, RecordsStay
<1>7. ASSUME NEW i \in DOMAIN page PROVE Firm(<<"scrape", found[chosen[i]]>>, page[i])'
  <2>1. OnRecord(r, i) BY <1>1, <1>2, <1>3 DEF Trail
  <2>2. Firm(<<"scrape", found[chosen[i]]>>, page[i])
    BY <1>1, <1>3, <2>1 DEF OnRecord, Key, UrlAt
  <2> QED BY <2>2, RecordsStay
<1>8. ASSUME NEW i \in DOMAIN call'[r], call'[r][i] = "in" PROVE OnRecord(r, i)'
  <2>1. i \in DOMAIN answer[r] /\ i \notin Judged(r) BY <1>1, <1>2, <1>8
  <2>2. ~HasText(page[i]) /\ answer'[r][i] = "drop" BY <1>1, <1>3, <2>1 DEF Judged
  <2> QED BY <1>1, <1>4, <2>2 DEF OnRecord
<1> HIDE DEF Firm
<1> QED BY <1>1, <1>4, <1>5, <1>6, <1>7, <1>8 DEF Trail, UrlAt

LEMMA ValidatedLeavesTrail ==
    ASSUME IInv, HistoryInv, [Next]_vars, NEW r \in Run, Validated(r), Trail(r)
    PROVE  Trail(r)'
<1>0. /\ ShapeInv /\ CallsFit(status[r], stage[r], call[r], answer[r], plan[r])
      /\ PlanFits(status[r], stage[r], plan[r])
  BY DEF IInv, RunsFit
<1>1. PICK q, found, chosen, page, verdicts :
         /\ q = query[r] /\ found = plan[r].found /\ chosen = plan[r].chosen
         /\ page = plan[r].page /\ verdicts = answer[r]
  OBVIOUS
<1> DEFINE kept == KeptOf(found, chosen, page, verdicts)
<1>2. /\ status[r] = "running" /\ stage[r] = "judge" /\ query' = query
      /\ \A i \in DOMAIN call[r] : call[r][i] = "in"
      /\ plan'[r] = [plan[r] EXCEPT !.kept = kept]
      /\ \/ kept = <<>> /\ Finish(r)
         \/ Proceed(r, "summarize", {1})
  BY <1>0, <1>1 DEF Validated, Through, ShapeInv
<1>3. /\ plan[r] \in Plan /\ DOMAIN answer[r] = DOMAIN call[r] /\ DOMAIN call[r] = DOMAIN page
      /\ verdicts = [i \in DOMAIN page |-> verdicts[i]]
  <2>1. plan[r] \in Plan /\ call[r] \in Seq(CallState) BY <1>0 DEF ShapeInv
  <2>2. answer[r] = [i \in DOMAIN call[r] |-> answer[r][i]] BY <1>0 DEF ShapeInv
  <2>3. page \in Seq(Page) /\ Len(page) = Len(call[r])
    BY <1>0, <1>1, <1>2, <2>1 DEF Plan, PlanFits, CallsFit
  <2>4. DOMAIN call[r] = DOMAIN page BY <2>1, <2>3, LenProperties
  <2> QED BY <1>1, <2>1, <2>2, <2>4
<1>4. /\ plan'[r].found = found /\ plan'[r].chosen = chosen /\ plan'[r].page = page
      /\ plan'[r].kept = kept /\ query'[r] = q
  <2> HIDE DEF kept
  <2> QED BY <1>1, <1>2, <1>3 DEF Plan
<1>5. PICK reply \in Reply : Firm(<<"select", q, found>>, reply) /\ chosen = Chosen(reply, Len(found))
  BY <1>1, <1>2 DEF Trail
<1>6. Firm(<<"search", q>>, found)' /\ Firm(<<"select", q, found>>, reply)'
  <2>1. Firm(<<"search", q>>, found) BY <1>1, <1>2 DEF Trail
  <2> QED BY <1>5, <2>1, RecordsStay
<1>7. ASSUME NEW i \in DOMAIN page PROVE Firm(<<"scrape", found[chosen[i]]>>, page[i])'
  <2>1. Firm(<<"scrape", found[chosen[i]]>>, page[i]) BY <1>1, <1>2 DEF Trail, UrlAt
  <2> QED BY <2>1, RecordsStay
<1>8. ASSUME NEW i \in DOMAIN page
      PROVE  /\ IF HasText(page[i]) THEN Firm(<<"judge", q, page[i]>>, verdicts[i])'
                ELSE verdicts[i] = "drop"
             /\ verdicts[i] \in {"keep", "drop"}
  <2>1. OnRecord(r, i) BY <1>2, <1>3 DEF Trail
  <2>2. CASE ~HasText(page[i]) BY <1>1, <1>2, <2>1, <2>2 DEF OnRecord
  <2>3. CASE HasText(page[i])
    <3>1. Firm(<<"judge", q, page[i]>>, verdicts[i])
      BY <1>1, <1>2, <2>1, <2>3 DEF OnRecord, Key
    <3>2. verdicts[i] \in RecordOf("judge") BY <3>1 DEF Firm, IInv, MemoInv, RecordsFit, Stage
    <3>3. verdicts[i] \in {"keep", "drop"} BY <3>2 DEF RecordOf
    <3> QED BY <2>3, <3>1, <3>3, RecordsStay
  <2> QED BY <2>2, <2>3
<1>9. verdicts \in [DOMAIN page -> {"keep", "drop"}] BY <1>3, <1>8
<1> HIDE DEF Firm, kept
<1>10. CASE kept = <<>> /\ Finish(r)
  <2>1. /\ status'[r] = "done" /\ stage'[r] = "judge" /\ call' = call /\ answer' = answer
    BY <1>0, <1>2, <1>10 DEF Finish, ShapeInv
  <2>2. ASSUME NEW i \in DOMAIN call'[r] PROVE OnRecord(r, i)'
    <3>1. i \in DOMAIN page BY <1>3, <2>1
    <3>2. CASE ~HasText(page[i])
      <4>1. answer'[r][i] = "drop" BY <1>1, <1>8, <2>1, <3>1, <3>2
      <4> QED BY <1>4, <2>1, <3>2, <4>1 DEF OnRecord
    <3>3. CASE HasText(page[i])
      <4>1. Key(r, i)' = <<"judge", q, page[i]>> BY <1>4, <2>1 DEF Key
      <4>2. answer'[r][i] = verdicts[i] BY <1>1, <2>1
      <4>3. Firm(Key(r, i), answer[r][i])' BY <1>8, <3>1, <3>3, <4>1, <4>2 DEF Firm
      <4> QED BY <4>3, <1>4, <3>3 DEF OnRecord
    <3> QED BY <3>2, <3>3
  <2>3. KeptOf(plan'[r].found, plan'[r].chosen, plan'[r].page, answer'[r]) = <<>>
    BY <1>1, <1>4, <1>10, <2>1 DEF kept
  <2> QED BY <1>4, <1>5, <1>6, <1>7, <2>1, <2>2, <2>3 DEF Trail, UrlAt
<1>11. CASE Proceed(r, "summarize", {1})
  <2>1. /\ status'[r] = "running" /\ stage'[r] = "summarize"
        /\ \A i \in DOMAIN call'[r] : call'[r][i] = "new"
    BY <1>0, <1>2, <1>11 DEF Proceed, ShapeInv
  <2>2. VerdictsOnRecord(query[r], plan[r], verdicts)' BY <1>4, <1>8 DEF VerdictsOnRecord
  <2>3. plan'[r].kept = KeptOf(plan'[r].found, plan'[r].chosen, plan'[r].page, verdicts)
    BY <1>4 DEF kept
  <2> QED BY <1>4, <1>5, <1>6, <1>7, <1>9, <2>1, <2>2, <2>3 DEF Trail, UrlAt
<1> QED BY <1>2, <1>10, <1>11

LEMMA SummarizedLeavesTrail ==
    ASSUME IInv, HistoryInv, [Next]_vars, NEW r \in Run, Summarized(r), Trail(r)
    PROVE  Trail(r)'
<1>1. /\ stage[r] = "summarize" /\ query' = query /\ plan' = plan
      /\ stage' = stage /\ call' = call /\ answer' = answer
  BY DEF Summarized, Through, Finish
<1>2. Behind(r)' BY <1>1, TrailParts, BehindStays
<1>3. ASSUME NEW i \in DOMAIN call'[r], call'[r][i] = "in" PROVE OnRecord(r, i)'
  BY <1>1, <1>3, OnRecordStays, TrailParts
<1> QED BY <1>1, <1>2, <1>3 DEF Trail, Behind

\* The step of r leaves r, if it is still alone and clean, with its trail.
LEMMA StagesLeaveTrail ==
    ASSUME IInv, HistoryInv, [Next]_vars, TrailInv, NEW r \in Run, Advance(r),
           alone'[r], clean'[r], Apart(r)'
    PROVE  Trail(r)'
<1>0. ShapeInv /\ PlanFits(status[r], stage[r], plan[r]) /\ plan[r] \in Plan
  BY DEF IInv, RunsFit, ShapeInv
<1>1. status[r] = "running" /\ alone[r] /\ clean[r]
  BY DEF Advance, Searched, Selected, Scraped, Validated, Summarized, Through
<1>2. Apart(r)
  <2>1. CASE stage[r] \in {"search", "select"}
    <3>1. plan[r].chosen = <<>> /\ plan[r].page = <<>> BY <1>0, <2>1 DEF PlanFits
    <3>2. DOMAIN <<>> = {} BY EmptySeq
    <3> QED BY <3>1, <3>2 DEF Apart
  <2>2. CASE Scraped(r)
    <3>1. plan[r].page = <<>> BY <1>0, <2>2 DEF PlanFits, Scraped, Through
    <3>2. plan'[r].chosen = plan[r].chosen /\ plan'[r].found = plan[r].found
      BY <1>0, <2>2 DEF Scraped, ShapeInv, Plan
    <3>3. DOMAIN <<>> = {} BY EmptySeq
    <3> QED BY <3>1, <3>2, <3>3 DEF Apart, UrlAt
  <2>3. CASE Validated(r) \/ Summarized(r)
    <3>1. /\ plan'[r].chosen = plan[r].chosen /\ plan'[r].found = plan[r].found
          /\ plan'[r].page = plan[r].page
      BY <1>0, <2>3 DEF Validated, Summarized, ShapeInv, Plan
    <3> QED BY <3>1 DEF Apart, UrlAt
  <2> QED BY <2>1, <2>2, <2>3 DEF Advance, Searched, Selected, Through
<1>3. Trail(r) BY <1>1, <1>2 DEF TrailInv
<1> QED BY <1>3, SearchedLeavesTrail, SelectedLeavesTrail, ScrapedLeavesTrail,
           ValidatedLeavesTrail, SummarizedLeavesTrail DEF Advance

LEMMA StepKeepsTrail ==
    ASSUME IInv, HistoryInv, [Next]_vars, TrailInv
    PROVE  TrailInv'
<1> SUFFICES ASSUME NEW d \in Run, alone'[d], clean'[d], status'[d] \in {"running", "done"},
                    Apart(d)'
             PROVE  Trail(d)'
  BY DEF TrailInv
<1>0. ShapeInv BY DEF IInv
<1>1. ASSUME alone[d], clean[d], Same(d), query'[d] = query[d] PROVE Trail(d)'
  <2>1. Apart(d) BY <1>1, ApartOfPlan DEF Same
  <2>2. Trail(d) BY <1>1, <2>1 DEF TrailInv, Same
  <2> QED BY <1>1, <2>2, TrailStays
<1>2. ASSUME NEW r \in Run, Start(r) PROVE Trail(d)'
  <2>1. CASE d = r
    <3>1. /\ status[r] = "idle" /\ status'[r] = "running" /\ stage' = stage /\ call' = call
      BY <1>0, <1>2 DEF Start, ShapeInv
    <3>2. stage'[r] = "search" /\ call'[r] = <<"new">> BY <3>1 DEF HistoryInv
    <3>3. \A i \in DOMAIN call'[r] : call'[r][i] = "new" BY <3>2, OneCall
    <3> QED BY <2>1, <3>1, <3>2, <3>3 DEF Trail
  <2>2. CASE d # r
    <3>1. alone[d] /\ clean[d] /\ Same(d) /\ query'[d] = query[d]
      BY <1>0, <1>2, <2>2 DEF Start, ShapeInv, Same
    <3> QED BY <1>1, <3>1
  <2> QED BY <2>1, <2>2
<1>3. ASSUME NEW r \in Run, Works(r), d # r PROVE Trail(d)'
  BY <1>1, <1>3 DEF Works
<1>4. ASSUME NEW r \in Run, Calls(r) PROVE Trail(d)'
  BY <1>3, <1>4, CallsWork, CallsLeaveTrail
<1>5. ASSUME NEW r \in Run, Advance(r) PROVE Trail(d)'
  BY <1>3, <1>5, StagesWork, StagesLeaveTrail
<1>6. ASSUME NEW r \in Run, Cancel(r) PROVE Trail(d)'
  <2>1. d # r BY <1>0, <1>6 DEF Cancel, ShapeInv
  <2> QED BY <1>3, <1>6, <2>1, StagesWork
<1>7. CASE UNCHANGED vars BY <1>1, <1>7 DEF vars, Same
<1> QED BY <1>2, <1>4, <1>5, <1>6, <1>7 DEF Next


----------------------------------------------------------------------------
(* A second run follows the trail. *)

\* A run that is done has nothing that could still take a step.
LEMMA DoneIsDone ==
    ASSUME IInv, NEW d \in Run, status[d] = "done"
    PROVE  ~Active(d) /\ \A i \in DOMAIN call[d] : call[d][i] = "in"
<1>1. \A i \in DOMAIN call[d] : call[d][i] = "in" BY DEF IInv, RunsFit, CallsFit
<1> QED BY <1>1 DEF Active, Unsettled

\* What is known of the run d that r repeats.
LEMMA TheFirstRun ==
    ASSUME IInv, HistoryInv, TrailInv, NEW r \in Run, NEW d \in Run,
           Replays(r, d), Apart(d)
    PROVE  /\ status[d] = "done" /\ d # r /\ Trail(d) /\ query[d] = query[r]
           /\ stage[d] \in {"search", "judge", "summarize"}
           /\ PlanFits("done", stage[d], plan[d])
           /\ CallsFit("done", stage[d], call[d], answer[d], plan[d])
           /\ DOMAIN call[d] # {} /\ (stage[d] # "judge" => DOMAIN call[d] = {1})
           /\ stage[d] = "judge" => DOMAIN call[d] = DOMAIN plan[d].page
<1>1. status[d] = "done" /\ d # r /\ query[d] = query[r] /\ Trail(d)
  BY DEF Replays, HistoryInv, TrailInv
<1>2. stage[d] \in {"search", "judge", "summarize"}
  BY <1>1 DEF HistoryInv, IInv, ShapeInv, Stage
<1>3. /\ PlanFits("done", stage[d], plan[d])
      /\ CallsFit("done", stage[d], call[d], answer[d], plan[d])
  BY <1>1 DEF IInv, RunsFit
<1>4. call[d] \in Seq(CallState) /\ plan[d] \in Plan BY DEF IInv, ShapeInv
<1>5. DOMAIN call[d] = 1..Len(call[d]) /\ Len(call[d]) \in Nat BY <1>4, LenProperties
<1>6. CASE stage[d] # "judge"
  <2>1. Len(call[d]) = 1 BY <1>2, <1>3, <1>6 DEF CallsFit
  <2> QED BY <1>1, <1>2, <1>3, <1>5, <1>6, <2>1
<1>7. CASE stage[d] = "judge"
  <2>1. /\ Len(call[d]) = Len(plan[d].chosen) /\ Len(plan[d].page) = Len(plan[d].chosen)
        /\ plan[d].chosen # <<>>
    BY <1>3, <1>7 DEF CallsFit, PlanFits
  <2>2. plan[d].chosen \in Seq(Nat) /\ plan[d].page \in Seq(Page) BY <1>4 DEF Plan
  <2>3. Len(plan[d].chosen) \in Nat /\ Len(plan[d].chosen) # 0
    BY <2>1, <2>2, LenProperties, EmptySeq
  <2>4. DOMAIN call[d] = DOMAIN plan[d].page BY <1>5, <2>1, <2>2, LenProperties
  <2>5. 1 \in DOMAIN call[d] BY <1>5, <2>1, <2>3
  <2> QED BY <1>1, <1>2, <1>3, <1>7, <2>4, <2>5
<1> QED BY <1>6, <1>7

\* The first run went at least as far: the search it has on record is its own,
\* and a run that got past its search had results and was to scrape some.
LEMMA SearchOnRecord ==
    ASSUME IInv, HistoryInv, TrailInv, NEW r \in Run, NEW d \in Run,
           Replays(r, d), Apart(d)
    PROVE  Firm(<<"search", query[r]>>, plan[d].found)
<1> USE TheFirstRun
<1>1. CASE stage[d] # "search" BY <1>1 DEF Trail
<1>2. CASE stage[d] = "search"
  <2>1. call[d][1] = "in" /\ 1 \in DOMAIN call[d] BY <1>2, DoneIsDone
  <2>2. OnRecord(d, 1) /\ plan[d].found = answer[d][1] BY <1>2, <2>1 DEF Trail
  <2>3. Key(d, 1) = <<"search", query[r]>> BY <1>2 DEF Key
  <2> QED BY <1>2, <2>2, <2>3 DEF OnRecord
<1> QED BY <1>1, <1>2

LEMMA PastSearch ==
    ASSUME IInv, HistoryInv, TrailInv, NEW r \in Run, NEW d \in Run,
           Replays(r, d), Apart(d), plan[d].found # <<>>, TopK # 0
    PROVE  stage[d] \in {"judge", "summarize"}
BY TheFirstRun DEF PlanFits

LEMMA SelectionOnRecord ==
    ASSUME IInv, HistoryInv, TrailInv, NEW r \in Run, NEW d \in Run,
           Replays(r, d), Apart(d), stage[d] \in {"judge", "summarize"}
    PROVE  \E reply \in Reply :
              /\ Firm(<<"select", query[r], plan[d].found>>, reply)
              /\ plan[d].chosen = Chosen(reply, Len(plan[d].found))
BY TheFirstRun DEF Trail

LEMMA JudgementsOnRecord ==
    ASSUME IInv, HistoryInv, TrailInv, NEW r \in Run, NEW d \in Run,
           Replays(r, d), Apart(d), stage[d] \in {"judge", "summarize"}
    PROVE  \E verdicts :
              /\ verdicts = [i \in DOMAIN plan[d].page |-> verdicts[i]]
              /\ VerdictsOnRecord(query[r], plan[d], verdicts)
              /\ plan[d].kept =
                    KeptOf(plan[d].found, plan[d].chosen, plan[d].page, verdicts)
<1>0. Trail(d) /\ status[d] = "done" /\ query[d] = query[r] /\ PlanFits("done", stage[d], plan[d])
  BY TheFirstRun
<1>1. CASE stage[d] = "summarize" BY <1>0, <1>1 DEF Trail
<1>2. CASE stage[d] = "judge"
  <2>1. answer[d] = [i \in DOMAIN plan[d].page |-> answer[d][i]]
    <3>1. answer[d] = [i \in DOMAIN call[d] |-> answer[d][i]] BY DEF IInv, ShapeInv
    <3>2. DOMAIN call[d] = DOMAIN plan[d].page BY <1>2, TheFirstRun
    <3> QED BY <3>1, <3>2
  <2>2. ASSUME NEW i \in DOMAIN plan[d].page
        PROVE  IF HasText(plan[d].page[i])
                 THEN Firm(<<"judge", query[r], plan[d].page[i]>>, answer[d][i])
                 ELSE answer[d][i] = "drop"
    <3>1. i \in DOMAIN call[d] /\ call[d][i] = "in"
      BY <1>0, <1>2, TheFirstRun, DoneIsDone
    <3>2. OnRecord(d, i) BY <1>0, <3>1 DEF Trail
    <3> QED BY <1>0, <1>2, <3>2 DEF OnRecord, Key
  <2>3. VerdictsOnRecord(query[r], plan[d], answer[d]) BY <2>2 DEF VerdictsOnRecord
  <2>4. plan[d].kept = KeptOf(plan[d].found, plan[d].chosen, plan[d].page, answer[d])
    BY <1>0, <1>2 DEF Trail, PlanFits
  <2> QED BY <2>1, <2>3, <2>4
<1> QED BY <1>1, <1>2

\* What r is about to ask is on record.
LEMMA NothingToPay ==
    ASSUME IInv, HistoryInv, TrailInv, NEW r \in Run, NEW d \in Run,
           Replays(r, d), Apart(d), Mirrors(r, d),
           NEW i \in DOMAIN call[r], call[r][i] = "new"
    PROVE  \E a : Firm(Key(r, i), a)
<1>0. /\ PlanFits(status[r], stage[r], plan[r])
      /\ CallsFit(status[r], stage[r], call[r], answer[r], plan[r])
      /\ stage[r] \in Stage /\ call[r] \in Seq(CallState) /\ plan[r] \in Plan
  BY DEF IInv, RunsFit, ShapeInv
<1>1. CASE stage[r] = "search" BY <1>1, SearchOnRecord DEF Key
<1>2. CASE stage[r] # "search"
  <2>1. plan[r].found = plan[d].found /\ plan[d].found # <<>> /\ TopK # 0
    BY <1>0, <1>2 DEF PlanFits, Mirrors
  <2>2. stage[d] \in {"judge", "summarize"} BY <2>1, PastSearch
  <2>3. Trail(d) /\ query[d] = query[r] BY TheFirstRun
  <2>4. CASE stage[r] = "select" BY <2>1, <2>2, <2>4, SelectionOnRecord DEF Key
  <2>5. CASE stage[r] = "scrape"
    <3>1. plan[r].chosen = plan[d].chosen BY <2>5 DEF Mirrors
    <3>2. i \in DOMAIN plan[d].page
      <4>1. Len(call[r]) = Len(plan[r].chosen) BY <1>0, <2>5 DEF CallsFit
      <4>2. Len(plan[d].page) = Len(plan[d].chosen) BY <2>2, TheFirstRun DEF PlanFits
      <4>3. plan[d].page \in Seq(Page) BY DEF IInv, ShapeInv, Plan
      <4> QED BY <1>0, <3>1, <4>1, <4>2, <4>3, LenProperties
    <3>3. Firm(<<"scrape", UrlAt(d, i)>>, plan[d].page[i]) BY <2>2, <2>3, <3>2 DEF Trail
    <3>4. Key(r, i) = <<"scrape", UrlAt(d, i)>> BY <2>1, <2>5, <3>1 DEF Key, UrlAt
    <3> QED BY <3>3, <3>4
  <2>6. CASE stage[r] = "judge"
    <3>1. plan[r].page = plan[d].page /\ HasText(plan[r].page[i])
      BY <1>0, <2>6 DEF Mirrors, CallsFit
    <3>2. i \in DOMAIN plan[d].page
      <4>1. Len(call[r]) = Len(plan[r].chosen) BY <1>0, <2>6 DEF CallsFit
      <4>2. Len(plan[r].page) = Len(plan[r].chosen) BY <1>0, <2>6 DEF PlanFits
      <4>3. plan[r].page \in Seq(Page) BY <1>0 DEF Plan
      <4> QED BY <1>0, <3>1, <4>1, <4>2, <4>3, LenProperties
    <3>3. PICK verdicts : VerdictsOnRecord(query[r], plan[d], verdicts)
      BY <2>2, JudgementsOnRecord
    <3>4. Firm(<<"judge", query[r], plan[d].page[i]>>, verdicts[i])
      BY <3>1, <3>2, <3>3 DEF VerdictsOnRecord
    <3>5. Key(r, i) = <<"judge", query[r], plan[d].page[i]>> BY <2>6, <3>1 DEF Key
    <3> QED BY <3>4, <3>5
  <2>7. CASE stage[r] = "summarize"
    <3>1. plan[r].kept = plan[d].kept /\ plan[d].kept # <<>>
      BY <1>0, <2>7 DEF Mirrors, PlanFits
    <3>2. stage[d] = "summarize" BY <2>2, <3>1, TheFirstRun DEF PlanFits
    <3>3. 1 \in DOMAIN call[d] /\ call[d][1] = "in" BY <3>2, TheFirstRun, DoneIsDone
    <3>4. Firm(Key(d, 1), answer[d][1]) BY <2>3, <3>2, <3>3 DEF Trail, OnRecord
    <3>5. Key(r, i) = Key(d, 1) BY <2>3, <2>7, <3>1, <3>2 DEF Key
    <3> QED BY <3>4, <3>5
  <2> QED BY <1>0, <1>2, <2>4, <2>5, <2>6, <2>7 DEF Stage
<1> QED BY <1>1, <1>2

LEMMA CallsMirror ==
    ASSUME IInv, HistoryInv, TrailInv, [Next]_vars, NEW r \in Run, NEW d \in Run,
           Replays(r, d), Apart(d), Mirrors(r, d), Calls(r)
    PROVE  Mirrors(r, d)'
<1>0. ShapeInv /\ CallsFit(status[r], stage[r], call[r], answer[r], plan[r])
  BY DEF IInv, RunsFit
<1>1. PICK i \in DOMAIN call[r] : \/ Hit(r, i) \/ Miss(r, i) \/ Raises(r, i)
                                  \/ \E a \in Outcome(stage[r]) : Answered(r, i, a)
  BY CallKinds
<1>2. call[r][i] # "out" BY DEF HistoryInv, Mirrors
<1>3. call[r][i] = "new"
  BY <1>1, <1>2, RaisedCall DEF Hit, Miss, Raises, Answered
<1>4. PICK a0 : Firm(Key(r, i), a0) BY <1>3, NothingToPay
<1>5. ~Miss(r, i)
  <2>1. Key(r, i)[1] = stage[r] BY <1>0, KeyNamesStage DEF ShapeInv
  <2> QED BY <1>4, <2>1 DEF Miss, Served, Firm
<1>6. \/ Hit(r, i)
      \/ /\ Raises(r, i) /\ call' = [call EXCEPT ![r][i] = "lost"] /\ answer' = answer
         /\ status' = [status EXCEPT ![r] = "raised"]
  BY <1>1, <1>2, <1>5, RaisedCall DEF Answered, Raises
<1>7. /\ stage' = stage /\ query' = query /\ paid' = paid /\ plan' = plan
      /\ status'[r] = "done" => status[r] = "done"
  <2>1. CASE Hit(r, i) BY <1>0, <2>1 DEF Hit, ShapeInv
  <2>2. CASE ~Hit(r, i) BY <1>0, <1>6, <2>2, RaisedCall DEF Raises, ShapeInv
  <2> QED BY <2>1, <2>2
<1>8. d # r BY TheFirstRun
<1>9. ASSUME NEW j \in DOMAIN call'[r], call'[r][j] = "in" PROVE OnRecord(r, j)'
  <2>1. CASE ~Hit(r, i)
    <3>1. call' = [call EXCEPT ![r][i] = "lost"] /\ answer' = answer BY <1>6, <2>1
    <3>2. j # i /\ j \in DOMAIN call[r] /\ call[r][j] = "in"
      BY <1>9, <3>1, CallStep DEF CallState
    <3> QED BY <1>7, <3>1, <3>2, OnRecordStays DEF Mirrors
  <2>2. CASE Hit(r, i)
    <3>1. Settles(r, i, memo[Key(r, i)]) BY <2>2 DEF Hit
    <3>2. CASE j = i
      <4>1. answer'[r][i] = a0 BY <1>4, <3>1, AnswerStep DEF Firm
      <4>2. PICK k : k = Key(r, i) OBVIOUS
      <4>3. Firm(k, a0)' BY <1>4, <4>2, RecordsStay
      <4>4. Key(r, i)' = k BY <1>7, <4>2 DEF Key, UrlAt
      <4>5. Firm(Key(r, i), answer[r][i])' BY <4>1, <4>3, <4>4 DEF Firm, Lined
      <4>6. ~(stage[r] = "judge" /\ ~HasText(plan[r].page[i])) BY <1>0, <1>3 DEF CallsFit
      <4> QED BY <1>7, <3>2, <4>5, <4>6 DEF OnRecord
    <3>3. CASE j # i
      <4>1. j \in DOMAIN call[r] /\ call[r][j] = "in" /\ answer'[r][j] = answer[r][j]
        BY <1>9, <3>1, <3>3, CallStep, AnswerStep DEF CallState, Settles
      <4> QED BY <1>7, <4>1, OnRecordStays DEF Mirrors
    <3> QED BY <3>2, <3>3
  <2> QED BY <1>6, <2>1, <2>2
<1> QED BY <1>7, <1>9 DEF Mirrors


LEMMA SamePlan ==
    ASSUME NEW p \in Plan, NEW o \in Plan, p.found = o.found, p.chosen = o.chosen,
           p.page = o.page, p.kept = o.kept
    PROVE  p = o
<1>1. \A x \in Plan : x = [found |-> x.found, chosen |-> x.chosen,
                            page |-> x.page, kept |-> x.kept]
  BY DEF Plan
<1>2. p = [found |-> p.found, chosen |-> p.chosen, page |-> p.page, kept |-> p.kept]
  BY <1>1
<1>3. o = [found |-> o.found, chosen |-> o.chosen, page |-> o.page, kept |-> o.kept]
  BY <1>1
<1> QED BY <1>2, <1>3

LEMMA SearchedMirrors ==
    ASSUME IInv, HistoryInv, TrailInv, [Next]_vars, NEW r \in Run, NEW d \in Run,
           Replays(r, d), Apart(d), Mirrors(r, d), Searched(r)
    PROVE  Mirrors(r, d)'
<1>0. /\ ShapeInv /\ CallsFit(status[r], stage[r], call[r], answer[r], plan[r])
      /\ PlanFits(status[r], stage[r], plan[r])
      /\ plan[r] \in Plan /\ plan[d] \in Plan /\ call[r] \in Seq(CallState)
  BY DEF IInv, RunsFit, ShapeInv
<1>1. /\ status[r] = "running" /\ stage[r] = "search" /\ query' = query /\ paid' = paid
      /\ \A i \in DOMAIN call[r] : call[r][i] = "in"
      /\ plan' = [plan EXCEPT ![r].found = answer[r][1]]
      /\ IF answer[r][1] = <<>> \/ TopK = 0 THEN Finish(r) ELSE Proceed(r, "select", {1})
  BY DEF Searched, Through
<1>2. plan'[d] = plan[d] BY <1>0, <1>1, TheFirstRun DEF ShapeInv
<1>3. DOMAIN call[r] = {1}
  <2>1. Len(call[r]) = 1 BY <1>0, <1>1 DEF CallsFit
  <2> QED BY <1>0, <2>1, LenProperties
<1>4. answer[r][1] = plan[d].found
  <2>1. Firm(<<"search", query[r]>>, answer[r][1])
    BY <1>1, <1>3 DEF Mirrors, OnRecord, Key
  <2> QED BY <2>1, SearchOnRecord, FirmIsOne
<1>5. /\ plan'[r].found = plan[d].found /\ plan'[r] \in Plan
      /\ plan'[r].chosen = <<>> /\ plan'[r].page = <<>> /\ plan'[r].kept = <<>>
  BY <1>0, <1>1, <1>4 DEF Plan, PlanFits, ShapeInv
<1>6. CASE answer[r][1] = <<>> \/ TopK = 0
  <2>1. /\ status'[r] = "done" /\ stage' = stage /\ call' = call /\ answer' = answer
    BY <1>0, <1>1, <1>6 DEF Finish, ShapeInv
  <2>2. OnRecord(r, 1)'
    <3>1. PICK k, a : k = Key(r, 1) /\ a = answer[r][1] OBVIOUS
    <3>2. Firm(k, a)' BY <1>1, <1>3, <3>1, RecordsStay DEF Mirrors, OnRecord
    <3>3. Key(r, 1)' = k BY <1>1, <2>1, <3>1 DEF Key
    <3>4. Firm(Key(r, 1), answer[r][1])' BY <2>1, <3>1, <3>2, <3>3 DEF Firm
    <3> QED BY <1>1, <2>1, <3>4 DEF OnRecord
  <2>3. plan[d].chosen = <<>> /\ plan[d].page = <<>> /\ plan[d].kept = <<>>
    <3>1. stage[d] = "search" BY <1>4, <1>6, TheFirstRun DEF PlanFits
    <3> QED BY <3>1, TheFirstRun DEF PlanFits
  <2>4. plan'[r] = plan[d] BY <1>0, <1>5, <2>3, SamePlan
  <2> QED BY <1>1, <1>2, <1>3, <2>1, <2>2, <2>4 DEF Mirrors
<1>7. CASE ~(answer[r][1] = <<>> \/ TopK = 0)
  <2>1. /\ status'[r] = "running" /\ stage'[r] = "select"
        /\ \A i \in DOMAIN call'[r] : call'[r][i] = "new"
    BY <1>0, <1>1, <1>7 DEF Proceed, ShapeInv
  <2> QED BY <1>1, <1>2, <1>5, <2>1 DEF Mirrors
<1> QED BY <1>6, <1>7

LEMMA SelectedMirrors ==
    ASSUME IInv, HistoryInv, TrailInv, [Next]_vars, NEW r \in Run, NEW d \in Run,
           Replays(r, d), Apart(d), Mirrors(r, d), Selected(r)
    PROVE  Mirrors(r, d)'
<1>0. /\ ShapeInv /\ CallsFit(status[r], stage[r], call[r], answer[r], plan[r])
      /\ PlanFits(status[r], stage[r], plan[r])
      /\ plan[r] \in Plan /\ call[r] \in Seq(CallState)
  BY DEF IInv, RunsFit, ShapeInv
<1> DEFINE chosen == Chosen(answer[r][1], Len(plan[r].found))
<1>1. /\ status[r] = "running" /\ stage[r] = "select" /\ paid' = paid
      /\ \A i \in DOMAIN call[r] : call[r][i] = "in"
      /\ plan' = [plan EXCEPT ![r].chosen = chosen]
      /\ Proceed(r, "scrape", DOMAIN chosen)
  BY DEF Selected, Through
<1>2. plan'[d] = plan[d] BY <1>0, <1>1, TheFirstRun DEF ShapeInv
<1>3. 1 \in DOMAIN call[r]
  <2>1. Len(call[r]) = 1 BY <1>0, <1>1 DEF CallsFit
  <2> QED BY <1>0, <2>1, LenProperties
<1>4. plan[r].found = plan[d].found /\ plan[d].found # <<>> /\ TopK # 0
  BY <1>0, <1>1 DEF PlanFits, Mirrors
<1>5. chosen = plan[d].chosen
  <2>1. Firm(<<"select", query[r], plan[d].found>>, answer[r][1])
    BY <1>1, <1>3, <1>4 DEF Mirrors, OnRecord, Key
  <2>2. PICK reply \in Reply :
           /\ Firm(<<"select", query[r], plan[d].found>>, reply)
           /\ plan[d].chosen = Chosen(reply, Len(plan[d].found))
    BY <1>4, PastSearch, SelectionOnRecord
  <2>3. reply = answer[r][1] BY <2>1, <2>2, FirmIsOne
  <2> QED BY <1>4, <2>2, <2>3
<1>6. /\ status'[r] = "running" /\ stage'[r] = "scrape"
      /\ \A i \in DOMAIN call'[r] : call'[r][i] = "new"
  BY <1>0, <1>1 DEF Proceed, ShapeInv
<1> HIDE DEF chosen
<1>7. plan'[r].found = plan[d].found /\ plan'[r].chosen = plan[d].chosen
  BY <1>0, <1>1, <1>4, <1>5 DEF Plan, ShapeInv
<1> QED BY <1>1, <1>2, <1>6, <1>7 DEF Mirrors

LEMMA ScrapedMirrors ==
    ASSUME IInv, HistoryInv, TrailInv, [Next]_vars, NEW r \in Run, NEW d \in Run,
           Replays(r, d), Apart(d), Mirrors(r, d), Scraped(r)
    PROVE  Mirrors(r, d)'
<1>0. /\ ShapeInv /\ CallsFit(status[r], stage[r], call[r], answer[r], plan[r])
      /\ PlanFits(status[r], stage[r], plan[r])
      /\ plan[r] \in Plan /\ call[r] \in Seq(CallState) /\ plan[d] \in Plan
      /\ answer[r] = [i \in DOMAIN call[r] |-> answer[r][i]]
  BY DEF IInv, RunsFit, ShapeInv
<1>1. /\ status[r] = "running" /\ stage[r] = "scrape" /\ paid' = paid
      /\ \A i \in DOMAIN call[r] : call[r][i] = "in"
      /\ plan' = [plan EXCEPT ![r].page = answer[r]]
      /\ status'[r] = "running" /\ stage'[r] = "judge"
      /\ call'[r] = [i \in DOMAIN call[r] |-> IF i \in Judged(r) THEN "new" ELSE "in"]
      /\ answer'[r] = [i \in DOMAIN answer[r] |-> IF i \in Judged(r) THEN None ELSE "drop"]
  BY <1>0 DEF Scraped, Through, ShapeInv
<1>2. plan'[d] = plan[d] BY <1>0, <1>1, TheFirstRun DEF ShapeInv
<1>3. /\ plan[r].found = plan[d].found /\ plan[r].chosen = plan[d].chosen
      /\ plan[d].found # <<>> /\ TopK # 0
  BY <1>0, <1>1 DEF PlanFits, Mirrors
<1>4. stage[d] \in {"judge", "summarize"} BY <1>3, PastSearch
<1>5. plan[d].page \in Seq(Page) /\ DOMAIN plan[d].page = DOMAIN call[r]
  <2>1. Len(plan[d].page) = Len(plan[d].chosen) BY <1>4, TheFirstRun DEF PlanFits
  <2>2. Len(call[r]) = Len(plan[r].chosen) BY <1>0, <1>1 DEF CallsFit
  <2>3. plan[d].page \in Seq(Page) BY <1>0 DEF Plan
  <2> QED BY <1>0, <1>3, <2>1, <2>2, <2>3, LenProperties
<1>6. ASSUME NEW i \in DOMAIN call[r] PROVE answer[r][i] = plan[d].page[i]
  <2>1. Firm(<<"scrape", UrlAt(d, i)>>, plan[d].page[i])
    BY <1>4, <1>5, TheFirstRun DEF Trail
  <2>2. OnRecord(r, i) BY <1>1 DEF Mirrors
  <2>3. Firm(<<"scrape", UrlAt(d, i)>>, answer[r][i])
    BY <1>1, <1>3, <2>2 DEF OnRecord, Key, UrlAt
  <2> QED BY <2>1, <2>3, FirmIsOne
<1>7. answer[r] = plan[d].page
  <2>1. plan[d].page = [i \in DOMAIN plan[d].page |-> plan[d].page[i]]
    BY <1>5, LenProperties
  <2> QED BY <1>0, <1>5, <1>6, <2>1
<1>8. /\ plan'[r].found = plan[d].found /\ plan'[r].chosen = plan[d].chosen
      /\ plan'[r].page = plan[d].page
  BY <1>0, <1>1, <1>3, <1>7 DEF Plan, ShapeInv
<1>9. ASSUME NEW i \in DOMAIN call'[r], call'[r][i] = "in" PROVE OnRecord(r, i)'
  <2>1. DOMAIN answer[r] = DOMAIN call[r] BY <1>0
  <2>2. i \in DOMAIN answer[r] /\ i \notin Judged(r) BY <1>1, <1>9, <2>1
  <2>3. ~HasText(answer[r][i]) /\ answer'[r][i] = "drop" BY <1>1, <2>2 DEF Judged
  <2> QED BY <1>1, <1>7, <1>8, <2>3 DEF OnRecord
<1> QED BY <1>1, <1>2, <1>8, <1>9 DEF Mirrors

LEMMA ValidatedMirrors ==
    ASSUME IInv, HistoryInv, TrailInv, [Next]_vars, NEW r \in Run, NEW d \in Run,
           Replays(r, d), Apart(d), Mirrors(r, d), Validated(r)
    PROVE  Mirrors(r, d)'
<1>0. /\ ShapeInv /\ CallsFit(status[r], stage[r], call[r], answer[r], plan[r])
      /\ PlanFits(status[r], stage[r], plan[r])
      /\ plan[r] \in Plan /\ call[r] \in Seq(CallState) /\ plan[d] \in Plan
      /\ answer[r] = [i \in DOMAIN call[r] |-> answer[r][i]]
  BY DEF IInv, RunsFit, ShapeInv
<1> DEFINE kept == KeptOf(plan[r].found, plan[r].chosen, plan[r].page, answer[r])
<1>1. /\ status[r] = "running" /\ stage[r] = "judge" /\ paid' = paid /\ query' = query
      /\ \A i \in DOMAIN call[r] : call[r][i] = "in"
      /\ plan' = [plan EXCEPT ![r].kept = kept]
      /\ Finish(r) \/ Proceed(r, "summarize", {1})
  BY DEF Validated, Through
<1>2. plan'[d] = plan[d] BY <1>0, <1>1, TheFirstRun DEF ShapeInv
<1>3. /\ plan[r].found = plan[d].found /\ plan[r].chosen = plan[d].chosen
      /\ plan[r].page = plan[d].page
      /\ plan[d].found # <<>> /\ TopK # 0
  BY <1>0, <1>1 DEF PlanFits, Mirrors
<1>4. stage[d] \in {"judge", "summarize"} BY <1>3, PastSearch
<1>5. DOMAIN plan[r].page = DOMAIN call[r]
  <2>1. Len(plan[r].page) = Len(plan[r].chosen) BY <1>0, <1>1 DEF PlanFits
  <2>2. Len(call[r]) = Len(plan[r].chosen) BY <1>0, <1>1 DEF CallsFit
  <2>3. plan[r].page \in Seq(Page) BY <1>0 DEF Plan
  <2> QED BY <1>0, <2>1, <2>2, <2>3, LenProperties
<1>6. kept = plan[d].kept
  <2>1. PICK verdicts :
           /\ verdicts = [i \in DOMAIN plan[d].page |-> verdicts[i]]
           /\ VerdictsOnRecord(query[r], plan[d], verdicts)
           /\ plan[d].kept = KeptOf(plan[d].found, plan[d].chosen, plan[d].page, verdicts)
    BY <1>4, JudgementsOnRecord
  <2>2. ASSUME NEW i \in DOMAIN call[r] PROVE answer[r][i] = verdicts[i]
    <3>1. OnRecord(r, i) BY <1>1 DEF Mirrors
    <3>2. CASE ~HasText(plan[r].page[i])
      BY <1>1, <1>3, <1>5, <2>1, <3>1, <3>2 DEF OnRecord, VerdictsOnRecord
    <3>3. CASE HasText(plan[r].page[i])
      <4>1. Firm(<<"judge", query[r], plan[r].page[i]>>, answer[r][i])
        BY <1>1, <3>1, <3>3 DEF OnRecord, Key
      <4>2. Firm(<<"judge", query[r], plan[r].page[i]>>, verdicts[i])
        BY <1>3, <1>5, <2>1, <3>3 DEF VerdictsOnRecord
      <4> QED BY <4>1, <4>2, FirmIsOne
    <3> QED BY <3>2, <3>3
  <2>3. answer[r] = verdicts BY <1>0, <1>3, <1>5, <2>1, <2>2
  <2> QED BY <1>3, <2>1, <2>3
<1> HIDE DEF kept
<1>7. /\ plan'[r] \in Plan /\ plan'[r].found = plan[d].found
      /\ plan'[r].chosen = plan[d].chosen /\ plan'[r].page = plan[d].page
      /\ plan'[r].kept = plan[d].kept
  BY <1>0, <1>1, <1>3, <1>6 DEF Plan, ShapeInv
<1>8. CASE Finish(r)
  <2>1. /\ status'[r] = "done" /\ stage' = stage /\ call' = call /\ answer' = answer
    BY <1>0, <1>1, <1>8 DEF Finish, ShapeInv
  <2>2. ASSUME NEW i \in DOMAIN call'[r], call'[r][i] = "in" PROVE OnRecord(r, i)'
    <3>1. OnRecord(r, i) BY <2>1, <2>2 DEF Mirrors
    <3>2. plan'[r].page = plan[r].page BY <1>3, <1>7
    <3>3. CASE ~HasText(plan[r].page[i]) BY <1>1, <2>1, <3>1, <3>2, <3>3 DEF OnRecord
    <3>4. CASE HasText(plan[r].page[i])
      <4>1. PICK k, a : k = Key(r, i) /\ a = answer[r][i] OBVIOUS
      <4>2. Firm(k, a)' BY <3>1, <3>4, <4>1, RecordsStay DEF OnRecord
      <4>3. Key(r, i)' = k BY <1>1, <2>1, <3>2, <4>1 DEF Key
      <4>4. Firm(Key(r, i), answer[r][i])' BY <2>1, <4>1, <4>2, <4>3 DEF Firm
      <4> QED BY <3>2, <3>4, <4>4 DEF OnRecord
    <3> QED BY <3>3, <3>4
  <2>3. plan'[r] = plan[d] BY <1>0, <1>7, SamePlan
  <2> QED BY <1>1, <1>2, <1>7, <2>1, <2>2, <2>3 DEF Mirrors
<1>9. CASE Proceed(r, "summarize", {1})
  <2>1. /\ status'[r] = "running" /\ stage'[r] = "summarize"
        /\ \A i \in DOMAIN call'[r] : call'[r][i] = "new"
    BY <1>0, <1>1, <1>9 DEF Proceed, ShapeInv
  <2> QED BY <1>1, <1>2, <1>7, <2>1 DEF Mirrors
<1> QED BY <1>1, <1>8, <1>9

LEMMA SummarizedMirrors ==
    ASSUME IInv, HistoryInv, TrailInv, [Next]_vars, NEW r \in Run, NEW d \in Run,
           Replays(r, d), Apart(d), Mirrors(r, d), Summarized(r)
    PROVE  Mirrors(r, d)'
<1>1. /\ stage[r] = "summarize" /\ query' = query /\ plan' = plan /\ paid' = paid
      /\ stage' = stage /\ call' = call /\ answer' = answer
  BY DEF Summarized, Through, Finish
<1>2. plan[r] = plan[d]
  <2>1. plan[r] \in Plan /\ plan[d] \in Plan BY DEF IInv, ShapeInv
  <2> QED BY <1>1, <2>1, SamePlan DEF Mirrors
<1>3. ASSUME NEW i \in DOMAIN call'[r], call'[r][i] = "in" PROVE OnRecord(r, i)'
  BY <1>1, <1>3, OnRecordStays DEF Mirrors
<1> QED BY <1>1, <1>2, <1>3 DEF Mirrors

LEMMA CancelMirrors ==
    ASSUME IInv, HistoryInv, TrailInv, [Next]_vars, NEW r \in Run, NEW d \in Run,
           Mirrors(r, d), Cancel(r)
    PROVE  Mirrors(r, d)'
<1>0. ShapeInv BY DEF IInv
<1>1. /\ query' = query /\ plan' = plan /\ paid' = paid /\ stage' = stage /\ answer' = answer
      /\ status'[r] = "cancelled"
      /\ call'[r] = [i \in DOMAIN call[r] |-> IF i \in Unsettled(r) THEN "lost" ELSE call[r][i]]
  BY <1>0 DEF Cancel, ShapeInv
<1>2. ASSUME NEW i \in DOMAIN call'[r], call'[r][i] = "in" PROVE OnRecord(r, i)'
  <2>1. i \in DOMAIN call[r] /\ call[r][i] = "in" BY <1>1, <1>2
  <2> QED BY <1>1, <2>1, OnRecordStays DEF Mirrors
<1> QED BY <1>1, <1>2 DEF Mirrors

LEMMA StepKeepsMirror ==
    ASSUME IInv, HistoryInv, TrailInv, MirrorInv, [Next]_vars
    PROVE  MirrorInv'
<1> SUFFICES ASSUME NEW r \in Run, NEW d \in Run, Replays(r, d)', Apart(d)'
             PROVE  Mirrors(r, d)'
  BY DEF MirrorInv
<1>0. ShapeInv BY DEF IInv
\* A step that is not of the first run, nor the start of the second.
<1>1. ASSUME d \in before[r], Same(d), query' = query, alone[d], clean[d]
      PROVE  /\ Replays(r, d) /\ Apart(d) /\ Mirrors(r, d) /\ status[d] = "done"
             /\ plan'[d] = plan[d]
  <2>1. Replays(r, d) BY <1>1 DEF Replays
  <2>2. Apart(d) BY <1>1, ApartOfPlan DEF Same
  <2> QED BY <1>1, <2>1, <2>2 DEF MirrorInv, HistoryInv, Same
<1>2. ASSUME d \in before[r], Same(d), Same(r), query' = query, alone[d], clean[d],
             paid'[r] = paid[r]
      PROVE  Mirrors(r, d)'
  <2>1. Mirrors(r, d) BY <1>1, <1>2
  <2>2. ASSUME NEW i \in DOMAIN call'[r], call'[r][i] = "in" PROVE OnRecord(r, i)'
    BY <1>2, <2>1, <2>2, OnRecordStays DEF Same, Mirrors
  <2> QED BY <1>2, <2>1, <2>2 DEF Same, Mirrors
<1>3. ASSUME NEW x \in Run, Start(x) PROVE Mirrors(r, d)'
  <2>1. /\ status[x] = "idle" /\ status'[x] = "running" /\ query' = query /\ paid' = paid
        /\ stage' = stage /\ call' = call /\ plan' = plan /\ answer' = answer /\ clean' = clean
        /\ \A o \in Run \ {x} : status'[o] = status[o] /\ before'[o] = before[o]
        /\ \A o \in Run \ {x} : alone'[o] = (alone[o] /\ ~Active(o))
        /\ before'[x] = {e \in Run : status[e] = "done"}
    BY <1>0, <1>3 DEF Start, ShapeInv
  <2>2. CASE r = x
    <3>1. stage'[r] = "search" /\ call'[r] = <<"new">> /\ ~paid'[r]
      BY <2>1, <2>2 DEF HistoryInv
    <3>2. \A i \in DOMAIN call'[r] : call'[r][i] = "new" BY <3>1, OneCall
    <3> QED BY <2>1, <2>2, <3>1, <3>2 DEF Mirrors
  <2>3. CASE r # x
    <3>1. d \in before[r] BY <2>1, <2>3 DEF Replays
    <3>2. status[d] = "done" /\ d # x BY <2>1, <3>1 DEF HistoryInv
    <3>3. alone[d] /\ clean[d] BY <2>1, <3>2 DEF Replays
    <3> QED BY <1>2, <2>1, <2>3, <3>1, <3>2, <3>3 DEF Same
  <2> QED BY <2>2, <2>3
<1>4. ASSUME NEW x \in Run, Works(x)
      PROVE  /\ d \in before[r] /\ d # x /\ Same(d) /\ query' = query
             /\ alone[d] /\ clean[d]
             /\ r # x => Same(r) /\ paid'[r] = paid[r]
  <2>1. d \in before[r] BY <1>4 DEF Works, Replays
  <2>2. d # x BY <1>4, <2>1, DoneIsDone DEF Works, HistoryInv
  <2> QED BY <1>4, <2>1, <2>2 DEF Works, Replays
<1>5. ASSUME NEW x \in Run, Calls(x) PROVE Mirrors(r, d)'
  <2>1. Works(x) BY <1>5, CallsWork
  <2>2. CASE r # x BY <1>2, <1>4, <2>1, <2>2
  <2>3. CASE r = x BY <1>1, <1>4, <1>5, <2>1, <2>3, CallsMirror
  <2> QED BY <2>2, <2>3
<1>6. ASSUME NEW x \in Run, Advance(x) \/ Cancel(x) PROVE Mirrors(r, d)'
  <2>1. Works(x) BY <1>6, StagesWork
  <2>2. CASE r # x BY <1>2, <1>4, <2>1, <2>2
  <2>3. CASE r = x
    <3>1. Replays(r, d) /\ Apart(d) /\ Mirrors(r, d) BY <1>1, <1>4, <2>1
    <3> QED BY <1>6, <2>3, <3>1, SearchedMirrors, SelectedMirrors, ScrapedMirrors,
               ValidatedMirrors, SummarizedMirrors, CancelMirrors DEF Advance
  <2> QED BY <2>2, <2>3
<1>7. CASE UNCHANGED vars
  <2>1. d \in before[r] /\ alone[d] /\ clean[d] /\ Same(d) /\ Same(r) /\ query' = query
    BY <1>7 DEF vars, Replays, Same
  <2> QED BY <1>2, <1>7, <2>1 DEF vars
<1> QED BY <1>3, <1>5, <1>6, <1>7 DEF Next

LEMMA StepKeepsHistory ==
    ASSUME IInv, HistoryInv, [Next]_vars
    PROVE  HistoryInv'
<1>1. IInv' BY StepFits
<1>2. ASSUME NEW r \in Run, Start(r) PROVE HistoryInv' BY <1>2, StartKeepsHistory
<1>3. ASSUME NEW r \in Run, Calls(r) PROVE HistoryInv'
  BY <1>1, <1>3, CallsWork, WorkKeepsHistory
<1>4. ASSUME NEW r \in Run, Advance(r) \/ Cancel(r) PROVE HistoryInv'
  BY <1>1, <1>4, StagesWork, WorkKeepsHistory
<1>5. CASE UNCHANGED vars BY <1>5 DEF vars, HistoryInv, Active, Unsettled
<1> QED BY <1>2, <1>3, <1>4, <1>5 DEF Next

\* Every reachable state satisfies the invariant of the second run.
THEOREM TrailsAreKept == Spec => []Replayable
<1>1. Init => Replayable BY InitFits, InitHistory DEF Replayable
<1>2. Replayable /\ [Next]_vars => Replayable'
  BY StepFits, StepKeepsHistory, StepKeepsTrail, StepKeepsMirror DEF Replayable
<1> QED BY <1>1, <1>2, PTL DEF Spec

LEMMA DistinctIsApart ==
    ASSUME IInv, HistoryInv, NEW d \in Run, status[d] = "done", Distinct(d)
    PROVE  Apart(d)
<1>0. /\ PlanFits("done", stage[d], plan[d]) /\ plan[d] \in Plan
      /\ stage[d] \in {"search", "judge", "summarize"}
  BY DEF IInv, RunsFit, ShapeInv, HistoryInv, Stage
<1>1. DOMAIN plan[d].chosen = DOMAIN plan[d].page
  <2>1. plan[d].chosen \in Seq(Nat) /\ plan[d].page \in Seq(Page) BY <1>0 DEF Plan
  <2>2. CASE stage[d] = "search" BY <1>0, <2>2 DEF PlanFits
  <2>3. CASE stage[d] # "search"
    <3>1. Len(plan[d].page) = Len(plan[d].chosen) BY <1>0, <2>3 DEF PlanFits
    <3> QED BY <2>1, <3>1, LenProperties
  <2> QED BY <2>2, <2>3
<1> QED BY <1>1 DEF Distinct, Apart

\* README.md:31: the second run of a query issues no HTTP request and no LLM
\* call, and comes to the same result.  It holds for every number of runs
\* around it, of any queries, that may fail, raise or be cancelled at any
\* point, provided that the first run was alone with the caches and met no
\* failure, and that the pages it chose differed.
THEOREM TheSecondRunIsFree == Spec => []ReplayIsFree
<1>1. ASSUME Replayable, NEW r \in Run, NEW d \in Run, Replays(r, d), Distinct(d)
      PROVE  ~paid[r] /\ (status[r] = "done" => plan[r] = plan[d])
  <2>1. status[d] = "done" BY <1>1 DEF Replays, Replayable, HistoryInv
  <2>2. Apart(d) BY <1>1, <2>1, DistinctIsApart DEF Replayable
  <2> QED BY <1>1, <2>2 DEF Replayable, MirrorInv, Mirrors
<1>2. Replayable => ReplayIsFree BY <1>1 DEF ReplayIsFree
<1> QED BY <1>2, TrailsAreKept, PTL

===============================================================================
