------------------------- MODULE MCResearchPipeline -------------------------
(* Instances of ResearchPipeline: runs of one query over up to two results.   *)
EXTENDS ResearchPipeline

CONSTANTS r1, r2, q1, u1, u2, t1, t2

MCRun == {r1, r2}
OneListing == {<<u1, u2>>}
AnyListing == {<<>>, <<u1>>, <<u1, u2>>}

\* Out of order; doubled and partly out of range; wholly out of range.
Swapped == {<<2, 1>>}
Doubled == <<2, 0, 2, 1>>
Outside == <<0>>
Mixed == {Doubled, Outside}

\* Runs are interchangeable, and so are texts: r1 begins first, t1 comes first.
\* A second text is there for runs that keep two pages, and only as long as
\* everything succeeds.  Of one result the model picks none that there is.
Seen(t) == \E r \in Run : t \in Range(answer[r]) \cup Range(plan[r].page)
PicksOf(r) == IF Len(plan[r].found) = 1 THEN Outside ELSE Doubled
Bounded ==
    /\ status[r2] # "idle" => status[r1] # "idle"
    /\ Seen(t2) => Seen(t1) /\ faults = 0 /\ \A r \in Run : clean[r]
    /\ \A r \in Run : stage[r] = "select" => answer[r][1] \in {None, Error, PicksOf(r)}

MCSpec == Init /\ [][Next /\ Bounded']_vars
=============================================================================
