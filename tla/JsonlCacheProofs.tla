-------------------------- MODULE JsonlCacheProofs --------------------------
(***************************************************************************)
(* Proofs about JsonlCache, for every set of keys and every bound: what a   *)
(* read answers after one more line, the bound on what torn writes destroy,  *)
(* read-your-write, monotonic reads, and the refinement of CacheFile.        *)
(***************************************************************************)
EXTENDS JsonlCache, FiniteSetTheorems, WellFoundedInduction, TLAPS

USE DEF Extended

----------------------------------------------------------------------------
(* The last match, and one more line at the end of a file. *)

\* "Less than" on the naturals, as a well-founded relation.
LEMMA LessThanRelation ==
    \E R : IsWellFoundedOn(R, Nat) /\ \A u, v \in Nat : u < v => <<u, v>> \in R
<1>1. ASSUME NEW u \in Nat, NEW v \in Nat, u < v
      PROVE  <<u, v>> \in OpToRel(<, Nat)
  BY <1>1, Zenon DEF OpToRel
<1> QED BY <1>1, NatLessThanWellFounded, Zenon

\* A non-empty set of line numbers has a largest element.
LEMMA LargestIndex ==
    ASSUME NEW n \in Nat, NEW S \in SUBSET (1..n), S # {}
    PROVE  \E m \in S : \A i \in S : i <= m
<1> DEFINE T == {j \in Nat : \E i \in S : j = n - i}
<1>1. T \subseteq Nat OBVIOUS
<1>2. T # {}
  <2>1. PICK i \in S : TRUE OBVIOUS
  <2>2. n - i \in T OBVIOUS
  <2> QED BY <2>2
<1>3. PICK R : /\ IsWellFoundedOn(R, Nat)
               /\ \A u, v \in Nat : u < v => <<u, v>> \in R
  BY LessThanRelation
<1> HIDE DEF T
<1>4. \E t \in T : \A u \in T : ~(<<u, t>> \in R)
  <2>1. IsWellFoundedOn(R, Nat) BY <1>3
  <2>2. \A S1, T1 : IsWellFoundedOn(R, S1) /\ T1 \subseteq S1 /\ T1 # {}
           => \E x \in T1 : \A y \in T1 : ~(<<y, x>> \in R)
    BY WFMin, Zenon
  <2> QED BY <1>1, <1>2, <2>1, <2>2, Zenon
<1>5. \E t \in T : \A u \in T : ~(u < t) BY <1>1, <1>3, <1>4, Zenon
<1>6. PICK t \in T : \A u \in T : t <= u BY <1>1, <1>5
<1>7. PICK m \in S : t = n - m BY DEF T
<1>8. \A i \in S : i <= m
  <2> SUFFICES ASSUME NEW i \in S PROVE i <= m OBVIOUS
  <2>1. n - i \in T BY DEF T
  <2>2. n - m <= n - i BY <1>6, <1>7, <2>1
  <2> QED BY <2>2
<1> QED BY <1>8

\* If a key has a record at all, Latest is the index of one.
LEMMA LatestMatches ==
    ASSUME NEW c \in Seq(Line), NEW k, Matches(c, k) # {}
    PROVE  /\ Latest(c, k) \in Matches(c, k)
           /\ Latest(c, k) \in DOMAIN c
           /\ c[Latest(c, k)] \in Record
           /\ c[Latest(c, k)].key = k
<1>1. Matches(c, k) \in SUBSET (1..Len(c)) /\ Len(c) \in Nat BY DEF Matches
<1>2. \E m \in Matches(c, k) : \A i \in Matches(c, k) : i <= m
  BY <1>1, LargestIndex
<1>3. Latest(c, k) \in Matches(c, k) BY <1>2 DEF Latest
<1> QED BY <1>3 DEF Matches

\* One more line spoils the decoding of a file if it is undecodable itself.
LEMMA AppendDecodes ==
    ASSUME NEW c \in Seq(Line), NEW x \in Line
    PROVE  HasUndecodable(Append(c, x)) <=> HasUndecodable(c) \/ x = Undecodable
<1> DEFINE d == Append(c, x)
           n == Len(c) + 1
<1>1. /\ DOMAIN d = DOMAIN c \cup {n}
      /\ d[n] = x
      /\ \A i \in DOMAIN c : d[i] = c[i]
  OBVIOUS
<1> QED BY <1>1 DEF HasUndecodable

\* A line that holds no record of k leaves the record of k as it was.
LEMMA RecordOther ==
    ASSUME NEW c \in Seq(Line), NEW x \in Line, NEW k, x \in Record => x.key # k
    PROVE  RecordIn(Append(c, x), k) = RecordIn(c, k)
<1> DEFINE d == Append(c, x)
           n == Len(c) + 1
<1>1. /\ DOMAIN d = DOMAIN c \cup {n}
      /\ n \notin DOMAIN c /\ d[n] = x
      /\ \A i \in DOMAIN c : d[i] = c[i]
  OBVIOUS
<1>2. Matches(d, k) = Matches(c, k) BY <1>1 DEF Matches
<1>3. Latest(d, k) = Latest(c, k) BY <1>2 DEF Latest
<1>4. CASE Matches(c, k) = {} BY <1>2, <1>4 DEF RecordIn
<1>5. CASE Matches(c, k) # {}
  <2>1. Latest(c, k) \in DOMAIN c BY <1>5, LatestMatches
  <2> QED BY <1>1, <1>2, <1>3, <1>5, <2>1 DEF RecordIn
<1> QED BY <1>4, <1>5

\* A record at the end of the lines is the record of its key.
LEMMA RecordLast ==
    ASSUME NEW c \in Seq(Line), NEW r \in Record
    PROVE  RecordIn(Append(c, r), r.key) = r.version
<1> DEFINE d == Append(c, r)
           n == Len(c) + 1
<1>1. /\ DOMAIN d = DOMAIN c \cup {n} /\ d[n] = r
      /\ DOMAIN d = 1..n /\ n \in Nat
      /\ \A i \in DOMAIN c : d[i] = c[i]
  OBVIOUS
<1>2. n \in Matches(d, r.key) BY <1>1 DEF Matches
<1>3. Matches(d, r.key) \subseteq 1..n BY <1>1 DEF Matches
<1>4. \A i \in Matches(d, r.key) :
         (\A j \in Matches(d, r.key) : j <= i) => i = n
  BY <1>1, <1>2, <1>3
<1>5. \A j \in Matches(d, r.key) : j <= n BY <1>1, <1>3
<1>6. Latest(d, r.key) = n BY <1>2, <1>4, <1>5 DEF Latest
<1> QED BY <1>1, <1>2, <1>6 DEF RecordIn

\* A line that holds no record of k leaves the answer for k as it was.
LEMMA AppendOther ==
    ASSUME NEW c \in Seq(Line), NEW x \in Line, NEW k,
           ~HasUndecodable(c), x # Undecodable, x \in Record => x.key # k
    PROVE  GetFrom(Append(c, x), k) = GetFrom(c, k)
BY AppendDecodes, RecordOther DEF GetFrom

\* A record appended to a decodable file is the answer for its key.
LEMMA AppendRecord ==
    ASSUME NEW c \in Seq(Line), NEW r \in Record, ~HasUndecodable(c)
    PROVE  GetFrom(Append(c, r), r.key) = r.version
BY AppendDecodes, RecordLast, MarkersAssumption DEF GetFrom, Line

\* What a file that holds a line of k answers for k is a version on a line.
LEMMA AnswerType ==
    ASSUME NEW c \in Seq(Line), NEW k
    PROVE  /\ GetFrom(c, k) \in Answer
           /\ GetFrom(c, k) \in Version =>
                 \E i \in DOMAIN c : c[i] \in Record /\ c[i].version = GetFrom(c, k)
<1>1. CASE HasUndecodable(c) \/ Matches(c, k) = {}
  BY <1>1, MarkersAssumption DEF GetFrom, RecordIn, Answer
<1>2. CASE ~HasUndecodable(c) /\ Matches(c, k) # {}
  <2>1. Latest(c, k) \in DOMAIN c /\ c[Latest(c, k)] \in Record
    BY <1>2, LatestMatches
  <2>2. GetFrom(c, k) = c[Latest(c, k)].version BY <1>2 DEF GetFrom, RecordIn
  <2> QED BY <2>1, <2>2 DEF Answer, Record
<1> QED BY <1>1, <1>2

----------------------------------------------------------------------------
(* Types. *)

\* Bytes appended to what is left of a line make one line.
LEMMA GlueType ==
    ASSUME NEW left \in Line \cup {Nothing}, NEW right \in Line
    PROVE  Glue(left, right) \in Line
BY DEF Glue, Line, Damage

\* The record a put writes is a record while the bound leaves room for it.
LEMMA NewRecordType ==
    ASSUME TypeOK, puts < MaxPuts, NEW k \in Key
    PROVE  /\ NewRecord(k) \in Record /\ NewRecord(k) \in Line
           /\ NewRecord(k).key = k /\ NewRecord(k).version = puts + 1
           /\ puts + 1 \in 0..MaxPuts
<1>1. puts \in Nat /\ puts + 1 \in 1..MaxPuts
  BY BoundsAssumption DEF TypeOK
<1> QED BY <1>1 DEF NewRecord, Record, Version, Line

LEMMA TypeStep == TypeOK /\ [Next]_vars => TypeOK'
<1> SUFFICES ASSUME TypeOK, [Next]_vars PROVE TypeOK' OBVIOUS
<1> USE BoundsAssumption
<1>1. ASSUME NEW k \in Key, WriteLine(k)
      PROVE  /\ lines' \in Seq(Line) /\ tail' \in Line \cup {Nothing}
             /\ puts' \in 0..MaxPuts /\ NewRecord(k) \in Record
  <2>1. puts < MaxPuts BY <1>1 DEF WriteLine
  <2>2. Glue(tail, NewRecord(k)) \in Line
    BY <2>1, GlueType, NewRecordType DEF TypeOK
  <2> QED BY <1>1, <2>1, <2>2, NewRecordType DEF WriteLine, TypeOK
<1>2. ASSUME NEW k \in Key, Put(k) PROVE TypeOK'
  BY <1>1, <1>2 DEF Put, TypeOK
<1>3. ASSUME NEW k \in Key, UnackedPut(k) PROVE TypeOK'
  BY <1>1, <1>3 DEF UnackedPut, TypeOK
<1>4. ASSUME NEW k \in Key, TornPut(k) PROVE TypeOK'
  <2>1. puts < MaxPuts /\ tears < MaxTears BY <1>4 DEF TornPut
  <2>2. tail' \in Line
    <3>1. PICK prefix \in {NewRecord(k)} \cup Damage : tail' = Glue(tail, prefix)
      BY <1>4 DEF TornPut
    <3>2. prefix \in Line BY <2>1, NewRecordType DEF Line
    <3> QED BY <3>1, <3>2, GlueType DEF TypeOK
  <2>3. puts' \in 0..MaxPuts /\ tears' \in 0..MaxTears
    BY <1>4, <2>1, NewRecordType DEF TornPut, TypeOK
  <2> QED BY <1>4, <2>2, <2>3 DEF TornPut, TypeOK
<1>5. CASE Clear BY <1>5 DEF Clear, TypeOK
<1>6. CASE UNCHANGED vars BY <1>6 DEF vars, TypeOK
<1> QED BY <1>2, <1>3, <1>4, <1>5, <1>6 DEF Next

\* Every state of the file is well formed: a sequence of lines, each a record
\* or damage, and at most one unterminated fragment.
THEOREM TypeCorrect == Spec => []TypeOK
<1>1. Init => TypeOK BY BoundsAssumption DEF Init, TypeOK
<1> QED BY <1>1, TypeStep, PTL DEF Spec

----------------------------------------------------------------------------
(* Torn writes cost at most one acknowledged record each. *)

\* The inductive strengthening: an unterminated tail is a tear that has not
\* cost a record yet.
Wounded == IF tail = Nothing THEN 0 ELSE 1

LossInv ==
    /\ IsFiniteSet(acked)
    /\ Cardinality(Lost) + Wounded <= tears

LEMMA LossStep == TypeOK /\ LossInv /\ [Next]_vars => LossInv'
<1> SUFFICES ASSUME TypeOK, LossInv, [Next]_vars PROVE LossInv' OBVIOUS
<1>1. /\ IsFiniteSet(Lost) /\ Cardinality(Lost) \in Nat
      /\ tears \in Nat /\ Wounded \in {0, 1}
  BY FS_Subset, FS_CardinalityType DEF LossInv, Lost, TypeOK, Wounded
<1>2. ASSUME NEW k \in Key, WriteLine(k)
      PROVE  /\ Terminated \subseteq Terminated'
             /\ tail = Nothing => NewRecord(k) \in Terminated'
             /\ Wounded' = 0
  <2> DEFINE x == Glue(tail, NewRecord(k))
  <2>1. x \in Line
    BY <1>2, GlueType, NewRecordType DEF WriteLine, TypeOK
  <2>2. /\ DOMAIN lines \subseteq DOMAIN lines'
        /\ \A i \in DOMAIN lines : lines'[i] = lines[i]
        /\ Len(lines) + 1 \in DOMAIN lines' /\ lines'[Len(lines) + 1] = x
    BY <1>2, <2>1 DEF WriteLine, TypeOK
  <2>3. tail = Nothing => x = NewRecord(k) BY DEF Glue
  <2> QED BY <1>2, <2>2, <2>3 DEF WriteLine, Wounded, Terminated
<1>3. ASSUME NEW k \in Key, Put(k) PROVE LossInv'
  <2>1. /\ acked' = acked \cup {NewRecord(k)} /\ tears' = tears
        /\ WriteLine(k)
    BY <1>3 DEF Put
  <2>2. IsFiniteSet(acked') BY <2>1, FS_AddElement DEF LossInv
  <2>3. CASE tail = Nothing
    <3>1. Lost' \subseteq Lost BY <1>2, <2>1, <2>3 DEF Lost
    <3>2. Cardinality(Lost') <= Cardinality(Lost) BY <1>1, <3>1, FS_Subset
    <3>3. Cardinality(Lost') \in Nat
      BY <1>1, <3>1, FS_Subset, FS_CardinalityType
    <3> QED BY <1>1, <1>2, <2>1, <2>2, <3>2, <3>3 DEF LossInv
  <2>4. CASE tail # Nothing
    <3> DEFINE S == Lost \cup {NewRecord(k)}
    <3>1. Lost' \subseteq S BY <1>2, <2>1 DEF Lost
    <3>2. IsFiniteSet(S) /\ Cardinality(S) <= Cardinality(Lost) + 1
      BY <1>1, FS_AddElement
    <3>3. /\ Cardinality(Lost') <= Cardinality(S)
          /\ Cardinality(Lost') \in Nat /\ Cardinality(S) \in Nat
      BY <3>1, <3>2, FS_Subset, FS_CardinalityType
    <3>4. Wounded = 1 BY <2>4 DEF Wounded
    <3>5. Cardinality(Lost) + 1 <= tears BY <3>4 DEF LossInv
    <3> HIDE DEF S
    <3> QED BY <1>1, <1>2, <2>1, <2>2, <3>2, <3>3, <3>5 DEF LossInv
  <2> QED BY <2>3, <2>4
<1>4. ASSUME NEW k \in Key, UnackedPut(k) PROVE LossInv'
  <2>1. acked' = acked /\ tears' = tears /\ WriteLine(k)
    BY <1>4 DEF UnackedPut
  <2>2. Lost' \subseteq Lost BY <1>2, <2>1 DEF Lost
  <2>3. Cardinality(Lost') <= Cardinality(Lost) /\ Cardinality(Lost') \in Nat
    BY <1>1, <2>2, FS_Subset, FS_CardinalityType
  <2> QED BY <1>1, <1>2, <2>1, <2>3 DEF LossInv
<1>5. ASSUME NEW k \in Key, TornPut(k) PROVE LossInv'
  <2>1. acked' = acked /\ tears' = tears + 1 /\ lines' = lines
    BY <1>5 DEF TornPut
  <2>2. Lost' = Lost BY <2>1 DEF Lost, Terminated
  <2>3. Wounded' \in {0, 1} BY DEF Wounded
  <2>4. Cardinality(Lost) <= tears BY <1>1 DEF LossInv
  <2>5. Cardinality(Lost) + Wounded' <= tears + 1 BY <1>1, <2>3, <2>4
  <2> QED BY <2>1, <2>2, <2>5 DEF LossInv
<1>6. CASE Clear
  <2>1. Lost' = {} /\ Wounded' = 0 /\ tears' = 0 /\ acked' = {}
    BY <1>6 DEF Clear, Lost, Wounded
  <2> QED BY <2>1, FS_EmptySet DEF LossInv
<1>7. CASE UNCHANGED vars
  BY <1>7 DEF vars, LossInv, Lost, Terminated, Wounded
<1> QED BY <1>3, <1>4, <1>5, <1>6, <1>7 DEF Next

\* The number of acknowledged records that are not on a line of their own is
\* at most the number of torn writes since the last clear.
THEOREM LossIsBounded == Spec => []LossBounded
<1>1. Init => LossInv
  <2> SUFFICES ASSUME Init PROVE LossInv OBVIOUS
  <2>1. Lost = {} /\ Wounded = 0 /\ tears = 0 /\ acked = {}
    BY DEF Init, Lost, Wounded
  <2> QED BY <2>1, FS_EmptySet DEF LossInv
<1>2. TypeOK /\ LossInv => LossBounded
  <2> SUFFICES ASSUME TypeOK, LossInv PROVE LossBounded OBVIOUS
  <2>1. Cardinality(Lost) \in Nat
    BY FS_Subset, FS_CardinalityType DEF LossInv, Lost
  <2> QED BY <2>1 DEF LossInv, LossBounded, Wounded, TypeOK
<1> QED BY <1>1, <1>2, LossStep, TypeCorrect, PTL DEF Spec

----------------------------------------------------------------------------
(* What one write does to the content, when the tail is not a whole record. *)

\* A completed write adds one record to the content of a decodable file, or
\* leaves it as it was when it lands on garbage; it spoils no decoding.
LEMMA WriteContent ==
    ASSUME TypeOK, NEW k \in Key, WriteLine(k), tail \notin Record, ~Outage
    PROVE  /\ Content \in Seq(Line)
           /\ NewRecord(k) \in Record
           /\ tail = Nothing => Content' = Append(Content, NewRecord(k))
           /\ tail # Nothing => Content' = Content
<1>1. NewRecord(k) \in Record BY NewRecordType DEF WriteLine
<1>2. CASE tail = Nothing
  <2>1. Content = lines BY <1>2 DEF Content
  <2>2. Content' = lines' BY DEF WriteLine, Content
  <2>3. lines' = Append(lines, NewRecord(k)) BY <1>2 DEF WriteLine, Glue
  <2> QED BY <1>1, <1>2, <2>1, <2>2, <2>3 DEF TypeOK
<1>3. CASE tail # Nothing
  <2>1. Content = Append(lines, tail) /\ Content \in Seq(Line)
    BY <1>3 DEF Content, TypeOK
  <2>2. tail # Undecodable
    <3>1. /\ Len(lines) + 1 \in DOMAIN Content
          /\ Content[Len(lines) + 1] = tail
      BY <2>1 DEF TypeOK
    <3> QED BY <3>1 DEF Outage, HasUndecodable
  <2>3. tail = Garbage BY <1>3, <2>2 DEF TypeOK, Line, Damage
  <2>4. NewRecord(k) # Undecodable BY <1>1, MarkersAssumption
  <2>5. Glue(tail, NewRecord(k)) = Garbage
    BY <1>3, <2>2, <2>3, <2>4 DEF Glue
  <2>6. Content' = lines' BY DEF WriteLine, Content
  <2>7. lines' = Append(lines, tail) BY <2>3, <2>5 DEF WriteLine
  <2> QED BY <1>1, <1>3, <2>1, <2>6, <2>7
<1> QED BY <1>2, <1>3

\* A put that begins on a newline-terminated, decodable file is what get()
\* serves as soon as it returns.
THEOREM ReadYourWrite == Spec => AckedPutIsServed
<1> DEFINE Served ==
        \A k \in Key :
          /\ acked' = acked \cup {NewRecord(k)}
          /\ acked' # acked
          /\ tail = Nothing
          /\ ~Outage
          => Get(k)' = puts'
<1>1. TypeOK /\ [Next]_vars => [Served]_vars
  <2> SUFFICES ASSUME TypeOK, Next, NEW k \in Key,
                      acked' = acked \cup {NewRecord(k)}, acked' # acked,
                      tail = Nothing, ~Outage
               PROVE  Get(k)' = puts'
    OBVIOUS
  <2>1. PICK j \in Key : Put(j)
    <3>1. ~Clear BY DEF Clear
    <3>2. \A j \in Key : ~UnackedPut(j) /\ ~TornPut(j)
      BY DEF UnackedPut, TornPut
    <3> QED BY <3>1, <3>2 DEF Next
  <2>2. /\ WriteLine(j) /\ acked' = acked \cup {NewRecord(j)}
        /\ puts' = puts + 1
    BY <2>1 DEF Put, WriteLine
  <2>3. tail \notin Record BY MarkersAssumption
  <2>4. /\ Content \in Seq(Line) /\ NewRecord(j) \in Record
        /\ Content' = Append(Content, NewRecord(j))
    BY <2>2, <2>3, WriteContent
  <2>5. NewRecord(j) = NewRecord(k) BY <2>2
  <2>6. GetFrom(Content', NewRecord(j).key) = NewRecord(j).version
    BY <2>4, AppendRecord DEF Outage
  <2>7. NewRecord(j).key = k /\ NewRecord(j).version = puts + 1
    BY <2>5 DEF NewRecord
  <2> QED BY <2>2, <2>6, <2>7 DEF Get
<1> QED BY <1>1, TypeCorrect, PTL DEF Spec, AckedPutIsServed

----------------------------------------------------------------------------
(* Last-write-wins: answers do not go back. *)

\* Only versions of puts already begun are in the file.
KnownInv ==
    /\ \A i \in DOMAIN lines : lines[i] \in Record => lines[i].version <= puts
    /\ tail \in Record => tail.version <= puts

LEMMA KnownStep == TypeOK /\ KnownInv /\ [Next]_vars => KnownInv'
<1> SUFFICES ASSUME TypeOK, KnownInv, [Next]_vars PROVE KnownInv' OBVIOUS
<1> USE BoundsAssumption
<1>0. puts \in Nat /\ \A r \in Record : r.version \in Nat
  BY DEF TypeOK, Record, Version
<1>1. ASSUME NEW k \in Key, NEW x \in Line, puts < MaxPuts,
             x \in Record => x.version <= puts + 1
      PROVE  Glue(tail, x) \in Record => Glue(tail, x).version <= puts + 1
  <2>1. Glue(tail, x) \in {x, Undecodable, Garbage} BY DEF Glue
  <2> QED BY <1>1, <2>1, MarkersAssumption
<1>2. ASSUME NEW k \in Key, WriteLine(k) PROVE KnownInv'
  <2> DEFINE g == Glue(tail, NewRecord(k))
  <2>1. /\ puts < MaxPuts /\ puts' = puts + 1 /\ tail' = Nothing
        /\ lines' = Append(lines, g)
    BY <1>2 DEF WriteLine
  <2>2. /\ NewRecord(k) \in Line /\ NewRecord(k).version = puts + 1
        /\ NewRecord(k).version <= puts + 1 /\ g \in Line
    BY <1>0, <2>1, NewRecordType, GlueType DEF TypeOK
  <2>3. g \in Record => g.version <= puts' BY <1>1, <2>1, <2>2
  <2>4. /\ DOMAIN lines' = DOMAIN lines \cup {Len(lines) + 1}
        /\ lines'[Len(lines) + 1] = g
        /\ \A i \in DOMAIN lines : lines'[i] = lines[i]
    BY <2>1, <2>2 DEF TypeOK
  <2>5. \A i \in DOMAIN lines : lines[i] \in Record => lines[i].version <= puts'
    BY <1>0, <2>1 DEF KnownInv
  <2>6. tail' \notin Record BY <2>1, MarkersAssumption
  <2> HIDE DEF g
  <2> QED BY <2>3, <2>4, <2>5, <2>6 DEF KnownInv
<1>3. ASSUME NEW k \in Key, TornPut(k) PROVE KnownInv'
  <2>1. /\ puts < MaxPuts /\ puts' = puts + 1 /\ lines' = lines
    BY <1>3 DEF TornPut
  <2>2. PICK x \in {NewRecord(k)} \cup Damage : tail' = Glue(tail, x)
    BY <1>3 DEF TornPut
  <2>3. x \in Line /\ (x \in Record => x.version <= puts + 1)
    <3>1. CASE x = NewRecord(k)
      BY <1>0, <2>1, <3>1, NewRecordType
    <3>2. CASE x \in Damage BY <3>2, MarkersAssumption DEF Damage, Line
    <3> QED BY <2>2, <3>1, <3>2
  <2>4. tail' \in Record => tail'.version <= puts' BY <1>1, <2>1, <2>2, <2>3
  <2> QED BY <1>0, <2>1, <2>4 DEF KnownInv
<1>4. CASE Clear
  BY <1>4, MarkersAssumption DEF Clear, KnownInv
<1>5. CASE UNCHANGED vars BY <1>5 DEF vars, KnownInv
<1> QED BY <1>2, <1>3, <1>4, <1>5 DEF Next, Put, UnackedPut

\* While the file is only appended to, and its tail is not a whole record
\* whose newline was cut off, a key's answer never goes back to an older put.
THEOREM MonotonicReads == Spec => ReadsNeverGoBack
<1> DEFINE Forward ==
        \A k \in Key :
          /\ Get(k) \in Version
          /\ tail \notin Record
          /\ lines' # <<>>
          => \/ Get(k)' = Raises
             \/ Get(k)' \in Version /\ Get(k)' >= Get(k)
<1>1. Init => KnownInv BY MarkersAssumption DEF Init, KnownInv
<1>2. TypeOK /\ KnownInv /\ [Next]_vars => [Forward]_vars
  <2> SUFFICES ASSUME TypeOK, KnownInv, Next, NEW k \in Key,
                      Get(k) \in Version, tail \notin Record, lines' # <<>>
               PROVE  \/ Get(k)' = Raises
                      \/ Get(k)' \in Version /\ Get(k)' >= Get(k)
    OBVIOUS
  <2> USE BoundsAssumption
  <2>1. ~Outage /\ Content \in Seq(Line)
    BY MarkersAssumption DEF Get, GetFrom, Outage, Content, TypeOK
  <2>2. Get(k) \in Nat /\ Get(k) <= puts /\ puts \in Nat
    <3>1. PICK i \in DOMAIN Content :
             Content[i] \in Record /\ Content[i].version = Get(k)
      BY <2>1, AnswerType DEF Get
    <3>2. Content[i].version <= puts
      <4>1. CASE tail = Nothing BY <3>1, <4>1 DEF Content, KnownInv
      <4>2. CASE tail # Nothing
        <5>1. Content = Append(lines, tail) BY <4>2 DEF Content
        <5>2. i \in DOMAIN lines
          BY <3>1, <4>2, <5>1 DEF TypeOK
        <5>3. Content[i] = lines[i] BY <4>2, <5>1, <5>2 DEF TypeOK
        <5> QED BY <3>1, <5>2, <5>3 DEF KnownInv
      <4> QED BY <4>1, <4>2
    <3> QED BY <3>1, <3>2 DEF Version, TypeOK
  <2>3. ASSUME NEW c \in Seq(Line), Content' = c, NEW j \in Key,
               puts < MaxPuts,
               \/ c = Content
               \/ c = Append(Content, NewRecord(j))
               \/ c = Append(Content, Garbage)
        PROVE  Get(k)' \in Version /\ Get(k)' >= Get(k)
    <3>1. Get(k)' = GetFrom(c, k) BY <2>3 DEF Get
    <3>2. NewRecord(j) \in Record /\ NewRecord(j).key = j
          /\ NewRecord(j).version = puts + 1 /\ puts + 1 \in Version
      BY <2>3, <2>2, NewRecordType DEF Version
    <3>3. CASE c = Content BY <2>2, <3>1, <3>3 DEF Get
    <3>4. CASE c = Append(Content, NewRecord(j)) /\ j = k
      <4>1. GetFrom(c, k) = puts + 1
        BY <2>1, <3>2, <3>4, AppendRecord DEF Outage
      <4> QED BY <2>2, <3>1, <3>2, <4>1
    <3>5. CASE c = Append(Content, NewRecord(j)) /\ j # k
      <4>1. NewRecord(j) \in Line /\ NewRecord(j) # Undecodable
        BY <3>2, MarkersAssumption DEF Line
      <4>2. GetFrom(c, k) = GetFrom(Content, k)
        BY <2>1, <3>2, <3>5, <4>1, AppendOther DEF Outage
      <4> QED BY <2>2, <3>1, <4>2 DEF Get
    <3>6. CASE c = Append(Content, Garbage)
      <4>1. Garbage \in Line /\ Garbage # Undecodable /\ Garbage \notin Record
        BY MarkersAssumption DEF Line, Damage
      <4>2. GetFrom(c, k) = GetFrom(Content, k)
        BY <2>1, <3>6, <4>1, AppendOther DEF Outage
      <4> QED BY <2>2, <3>1, <4>2 DEF Get
    <3> QED BY <2>3, <3>3, <3>4, <3>5, <3>6
  <2>4. ASSUME NEW j \in Key, WriteLine(j)
        PROVE  Get(k)' \in Version /\ Get(k)' >= Get(k)
    <3>1. /\ NewRecord(j) \in Record
          /\ Content' = Append(Content, NewRecord(j)) \/ Content' = Content
      BY <2>1, <2>4, WriteContent
    <3>2. Content' \in Seq(Line) /\ puts < MaxPuts
      BY <2>1, <2>4, <3>1 DEF Line, WriteLine
    <3> QED BY <2>3, <3>1, <3>2
  <2>5. ASSUME NEW j \in Key, TornPut(j)
        PROVE  \/ Get(k)' = Raises
               \/ Get(k)' \in Version /\ Get(k)' >= Get(k)
    <3>1. lines' = lines /\ puts < MaxPuts BY <2>5 DEF TornPut
    <3>2. PICK x \in {NewRecord(j)} \cup Damage : tail' = Glue(tail, x)
      BY <2>5 DEF TornPut
    <3>3. x \in Line /\ tail' \in Line /\ tail' # Nothing
      <4>1. x \in Line BY <3>1, <3>2, NewRecordType DEF Line
      <4>2. tail' \in Line BY <3>2, <4>1, GlueType DEF TypeOK
      <4> QED BY <4>1, <4>2, MarkersAssumption DEF Line, Damage
    <3>4. Content' = Append(lines, tail') BY <3>1, <3>3 DEF Content
    <3>5. CASE tail' = Undecodable
      <4>1. HasUndecodable(Append(lines, tail'))
        <5>1. /\ Len(lines) + 1 \in DOMAIN Append(lines, tail')
              /\ Append(lines, tail')[Len(lines) + 1] = tail'
          BY <3>3 DEF TypeOK
        <5> QED BY <3>5, <5>1 DEF HasUndecodable
      <4>2. GetFrom(Append(lines, tail'), k) = Raises BY <4>1 DEF GetFrom
      <4> QED BY <3>4, <4>2 DEF Get
    <3>6. CASE tail' # Undecodable /\ tail = Nothing
      <4>1. Content = lines /\ tail' = x BY <3>2, <3>6 DEF Content, Glue
      <4>2. x = NewRecord(j) \/ x = Garbage
        BY <3>2, <3>6, <4>1 DEF Damage
      <4>3. Content' \in Seq(Line) BY <3>3, <3>4 DEF TypeOK
      <4> QED BY <2>3, <3>1, <3>4, <4>1, <4>2, <4>3
    <3>7. CASE tail' # Undecodable /\ tail # Nothing
      <4>1. Content = Append(lines, tail) BY <3>7 DEF Content
      <4>2. tail # Undecodable
        <5>1. /\ Len(lines) + 1 \in DOMAIN Content
              /\ Content[Len(lines) + 1] = tail
          BY <3>7, <4>1 DEF TypeOK
        <5> QED BY <2>1, <5>1 DEF Outage, HasUndecodable
      <4>3. tail = Garbage BY <3>7, <4>2 DEF TypeOK, Line, Damage
      <4>4. tail' = Garbage BY <3>2, <3>7 DEF Glue
      <4>5. Content' = Content BY <3>4, <4>1, <4>3, <4>4
      <4> QED BY <2>1, <2>3, <3>1, <4>5
    <3> QED BY <3>5, <3>6, <3>7
  <2>6. ~Clear BY DEF Clear
  <2> QED BY <2>4, <2>5, <2>6 DEF Next, Put, UnackedPut
<1> QED BY <1>1, <1>2, KnownStep, TypeCorrect, PTL DEF Spec, ReadsNeverGoBack

----------------------------------------------------------------------------
(* Refinement. *)

\* A file in which no line is a record of k has none for k.
LEMMA EmptyFile == ASSUME NEW k PROVE RecordIn(<<>>, k) = Nothing
BY DEF RecordIn, Matches

\* What the views of two contents agree on, key by key, they agree on.
LEMMA SameView ==
    ASSUME NEW c, NEW d, \A j \in Key : RecordIn(d, j) = RecordIn(c, j)
    PROVE  View(d) = View(c)
BY DEF View

\* Appending a record puts it into the view.
LEMMA PutView ==
    ASSUME NEW c \in Seq(Line), NEW r \in Record
    PROVE  View(Append(c, r)) = [View(c) EXCEPT ![r.key] = r.version]
<1>1. r \in Line BY DEF Line
<1>2. \A j \in Key : j # r.key => RecordIn(Append(c, r), j) = RecordIn(c, j)
  BY <1>1, RecordOther
<1>3. RecordIn(Append(c, r), r.key) = r.version BY RecordLast
<1> QED BY <1>2, <1>3 DEF View

\* Damage is not in the view.
LEMMA DamagedView ==
    ASSUME NEW c \in Seq(Line), NEW x \in Damage
    PROVE  View(Append(c, x)) = View(c)
<1>1. x \in Line /\ x \notin Record BY MarkersAssumption DEF Line, Damage
<1>2. \A j \in Key : RecordIn(Append(c, x), j) = RecordIn(c, j)
  BY <1>1, RecordOther
<1> QED BY <1>2, SameView

\* What is glued to an unterminated line is damage, and keeps the file
\* decodable only if both are.
LEMMA GlueDamages ==
    ASSUME NEW left \in Line, NEW right \in Line
    PROVE  /\ Glue(left, right) \in Damage
           /\ Glue(left, right) = Undecodable
                 <=> left = Undecodable \/ right = Undecodable
BY MarkersAssumption DEF Glue, Damage, Line

\* The file is unreadable on account of its lines or of its tail.
LEMMA OutageIs ==
    ASSUME TypeOK
    PROVE  Outage <=> HasUndecodable(lines) \/ tail = Undecodable
<1>1. CASE tail = Nothing
  BY <1>1, MarkersAssumption DEF Outage, Content
<1>2. CASE tail # Nothing
  BY <1>2, AppendDecodes DEF Outage, Content, TypeOK
<1> QED BY <1>1, <1>2

\* A completed write is a Put of the map.
LEMMA WriteRefines ==
    ASSUME TypeOK, NEW k \in Key, WriteLine(k)
    PROVE  File!Put(k, puts + 1)
<1> DEFINE r == NewRecord(k)
           x == Glue(tail, r)
<1>1. /\ r \in Record /\ r \in Line /\ r.key = k /\ r.version = puts + 1
      /\ r # Undecodable
  BY NewRecordType, MarkersAssumption DEF WriteLine
<1>2. x \in Line BY <1>1, GlueType DEF TypeOK
<1>3. /\ lines' = Append(lines, x) /\ tail' = Nothing /\ Content' = lines'
      /\ lines \in Seq(Line)
  BY DEF WriteLine, Content, TypeOK
<1>4. Outage' <=> HasUndecodable(lines) \/ x = Undecodable
  BY <1>2, <1>3, AppendDecodes DEF Outage
<1>5. x = Undecodable <=> tail = Undecodable
  <2>1. CASE tail = Nothing
    BY <2>1, <1>1, MarkersAssumption DEF Glue
  <2>2. CASE tail # Nothing BY <2>2, <1>1, GlueDamages DEF TypeOK
  <2> QED BY <2>1, <2>2
<1>6. (~Outage)' = ~Outage BY <1>4, <1>5, OutageIs
<1> HIDE DEF r, x
<1>7. View(lines)' = IF tail # Nothing THEN View(lines)
                     ELSE [View(lines) EXCEPT ![k] = puts + 1]
  <2>1. CASE tail = Nothing
    <3>1. x = r BY <2>1 DEF x, r, Glue
    <3>2. View(Append(lines, r)) = [View(lines) EXCEPT ![k] = puts + 1]
      BY <1>1, <1>3, PutView
    <3> QED BY <1>3, <2>1, <3>1, <3>2
  <2>2. CASE tail # Nothing
    <3>1. x \in Damage BY <1>1, <2>2, GlueDamages DEF x, TypeOK
    <3> QED BY <1>3, <2>2, <3>1, DamagedView
  <2> QED BY <2>1, <2>2
<1> QED BY <1>3, <1>6, <1>7 DEF File!Put

\* A torn write is a TornPut of the map.
LEMMA TornRefines ==
    ASSUME TypeOK, NEW k \in Key, TornPut(k)
    PROVE  File!TornPut(k, puts + 1)
<1>1. PICK prefix \in {NewRecord(k)} \cup Damage : tail' = Glue(tail, prefix)
  BY DEF TornPut
<1>2. /\ NewRecord(k) \in Record /\ NewRecord(k).key = k
      /\ NewRecord(k).version = puts + 1
      /\ prefix \in Line
  BY NewRecordType DEF TornPut, Line
<1>3. /\ tail' \in Line /\ tail' # Nothing
      /\ lines' = lines /\ lines \in Seq(Line)
      /\ Content' = Append(lines, tail')
  <2>1. tail' \in Line BY <1>1, <1>2, GlueType DEF TypeOK
  <2>2. tail' # Nothing BY <2>1, MarkersAssumption DEF Line, Damage
  <2> QED BY <2>1, <2>2 DEF TornPut, TypeOK, Content
<1>4. Outage' <=> HasUndecodable(lines) \/ tail' = Undecodable
  BY <1>3, AppendDecodes DEF Outage
<1>5. tail = Undecodable => tail' = Undecodable
  BY <1>1, MarkersAssumption DEF Glue
<1>6. (~Outage)' \in {~Outage, FALSE} BY <1>4, <1>5, OutageIs
<1>7. View(Content)' \in IF tail # Nothing THEN {View(lines)}
                         ELSE File!Unterminated(k, puts + 1)
  <2>1. CASE tail = Nothing /\ prefix = NewRecord(k)
    <3>1. tail' = NewRecord(k) BY <1>1, <2>1 DEF Glue
    <3>2. View(Append(lines, NewRecord(k))) = [View(lines) EXCEPT ![k] = puts + 1]
      BY <1>2, <1>3, PutView
    <3> QED BY <1>3, <2>1, <3>1, <3>2 DEF File!Unterminated
  <2>2. CASE tail = Nothing /\ prefix \in Damage
    <3>1. tail' \in Damage BY <1>1, <2>2 DEF Glue
    <3> QED BY <1>3, <2>2, <3>1, DamagedView DEF File!Unterminated
  <2>3. CASE tail # Nothing
    <3>1. tail' \in Damage BY <1>1, <1>2, <2>3, GlueDamages DEF TypeOK
    <3> QED BY <1>3, <2>3, <3>1, DamagedView
  <2> QED BY <2>1, <2>2, <2>3
<1>8. View(lines)' = View(lines) BY <1>3
<1> QED BY <1>3, <1>6, <1>7, <1>8 DEF File!TornPut

\* The file with its append-and-scan protocol implements the map that the
\* cached components use, in every state and after every step, torn writes
\* included: a completed put, whether or not its caller lived to see it
\* return, is a Put of the map, a torn one a TornPut, truncation a Clear.
THEOREM FileIsAMap == Spec => FileSpec
<1>1. Init => File!Init
  <2> SUFFICES ASSUME Init PROVE File!Init OBVIOUS
  <2>1. /\ lines = <<>> /\ Content = <<>> /\ tail = Nothing
    BY DEF Init, Content
  <2>2. View(<<>>) \in [Key -> Version \cup {Nothing}] BY EmptyFile DEF View
  <2> QED BY <2>1, <2>2 DEF File!Init
<1>2. TypeOK /\ [Next]_vars => [File!Next]_(File!file)
  <2> SUFFICES ASSUME TypeOK, [Next]_vars PROVE [File!Next]_(File!file)
    OBVIOUS
  <2>1. ASSUME NEW k \in Key, WriteLine(k) PROVE File!Next
    <3>1. File!Put(k, puts + 1) BY <2>1, WriteRefines
    <3>2. puts + 1 \in Version BY <2>1, BoundsAssumption DEF WriteLine, TypeOK, Version
    <3> QED BY <3>1, <3>2 DEF File!Next
  <2>2. ASSUME NEW k \in Key, TornPut(k) PROVE File!Next
    <3>1. File!TornPut(k, puts + 1) BY <2>2, TornRefines
    <3>2. puts + 1 \in Version BY <2>2, BoundsAssumption DEF TornPut, TypeOK, Version
    <3> QED BY <3>1, <3>2 DEF File!Next
  <2>3. CASE Clear
    <3>1. /\ lines' = <<>> /\ Content' = <<>> /\ tail' = Nothing
      BY <2>3 DEF Clear, Content
    <3>2. View(<<>>) = [k \in Key |-> Nothing] BY EmptyFile DEF View
    <3>3. ~Outage' BY <3>1 DEF Outage, HasUndecodable
    <3> QED BY <3>1, <3>2, <3>3 DEF File!Next, File!Clear
  <2>4. CASE UNCHANGED vars
    BY <2>4 DEF vars, File!file, Content, Outage
  <2> QED BY <2>1, <2>2, <2>3, <2>4 DEF Next, Put, UnackedPut
<1> QED BY <1>1, <1>2, TypeCorrect, PTL DEF Spec, FileSpec, File!Spec
=============================================================================
