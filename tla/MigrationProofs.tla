--------------------------- MODULE MigrationProofs ---------------------------
(***************************************************************************)
(* Theorems about Migration, for any number of faults.                     *)
(***************************************************************************)
EXTENDS Migration, TLAPS

\* The statements one by one.
LEMMA StatementsAre ==
    /\ DOMAIN Statements = 1..11 /\ End = 12
    /\ \A i \in 1..5 : Statements[i].v = 1
    /\ Statements[6].v = 2 /\ Statements[7].v = 3 /\ Statements[8].v = 4
    /\ Statements[9].v = 5 /\ Statements[10].v = 5 /\ Statements[11].v = 6
    /\ Statements[6].makes = TypeColumn
    /\ Statements[11].makes = TokenColumn
<1>1. DOMAIN Statements = 1..11 /\ Len(Statements) = 11
  BY DEF Statements
<1>2. /\ Statements[1].v = 1 /\ Statements[2].v = 1 /\ Statements[3].v = 1
      /\ Statements[4].v = 1 /\ Statements[5].v = 1
  BY DEF Statements
<1>3. /\ Statements[6].v = 2 /\ Statements[7].v = 3 /\ Statements[8].v = 4
      /\ Statements[9].v = 5 /\ Statements[10].v = 5 /\ Statements[11].v = 6
  BY DEF Statements
<1>4. /\ Statements[6].makes = TypeColumn
      /\ Statements[11].makes = TokenColumn
  BY DEF Statements
<1> QED
  BY <1>1, <1>2, <1>3, <1>4 DEF End

\* What may be missing although the version promises it.
Missing == IF ignored THEN {TokenColumn} ELSE {}

\* VersionHonest is not inductive: that Persist tells the truth follows only from
\* what migrate has done by then.  While it works, what the statements before
\* pos make is there, whether this run made it, an earlier one that was
\* interrupted, or the release that wrote the version Start has read.
Progress == at = "migrating" => Made(1..(pos - 1)) \ schema \subseteq Missing

IInv == TypeOK /\ VersionHonest /\ Progress

-----------------------------------------------------------------------------
(* The list of statements.                                                 *)

LEMMA VersionsInRange == \A i \in 1..11 : Statements[i].v \in 1..6
<1> SUFFICES ASSUME NEW i \in 1..11
             PROVE  Statements[i].v \in 1..6
  OBVIOUS
<1>1. i \in 1..5 \/ i = 6 \/ i = 7 \/ i = 8 \/ i = 9 \/ i = 10 \/ i = 11
  OBVIOUS
<1> QED
  BY <1>1, StatementsAre

\* A later version promises at least what an earlier one does.
LEMMA UptoGrows ==
  ASSUME NEW v \in 0..6, NEW w \in 0..6, v <= w
  PROVE  Upto(v) \subseteq Upto(w)
<1>1. \A i \in DOMAIN Statements : Statements[i].v <= v => Statements[i].v <= w
  BY StatementsAre, VersionsInRange
<1> QED
  BY <1>1 DEF Upto, Made

\* All statements together make what the current version promises.
LEMMA MadeAtEnd == Made(1..(End - 1)) = Upto(currentSchemaVersion)
<1>1. {i \in DOMAIN Statements : Statements[i].v <= 6} = 1..11
  BY StatementsAre, VersionsInRange
<1>2. 1..(End - 1) = 1..11
  BY StatementsAre
<1>3. Upto(currentSchemaVersion) = Made({i \in DOMAIN Statements : Statements[i].v <= 6})
  BY DEF Upto, currentSchemaVersion
<1> QED
  BY <1>1, <1>2, <1>3

LEMMA MakesInSchema ==
  ASSUME NEW i \in 1..11
  PROVE  Statements[i].makes \in Upto(currentSchemaVersion)
  BY StatementsAre, VersionsInRange DEF Upto, Made, currentSchemaVersion

\* A statement whose thing is there may be passed.
LEMMA MadeNext ==
  ASSUME NEW p \in 1..11
  PROVE  Made(1..p) = Made(1..(p - 1)) \cup {Statements[p].makes}
<1>1. 1..p = 1..(p - 1) \cup {p}
  OBVIOUS
<1> QED
  BY <1>1 DEF Made

\* Statement p is passed: S was the schema and T is, and M is what may be missing.
LEMMA Passed ==
  ASSUME NEW p \in 1..11, NEW S, NEW T, NEW M,
         S \subseteq T, Made(1..(p - 1)) \ S \subseteq M,
         Statements[p].makes \in T \cup M
  PROVE  Made(1..((p + 1) - 1)) \ T \subseteq M
<1>1. (p + 1) - 1 = p
  OBVIOUS
<1>2. Made(1..p) = Made(1..(p - 1)) \cup {Statements[p].makes}
  BY MadeNext
<1> QED
  BY <1>1, <1>2

\* For every version there is a first statement beyond it.
LEMMA FromExists ==
  ASSUME NEW v \in 0..6
  PROVE  \E i \in 1..End : /\ \A j \in 1..(i - 1) : Statements[j].v <= v
                           /\ i < End => Statements[i].v > v
<1> DEFINE First(i) == /\ \A j \in 1..(i - 1) : Statements[j].v <= v
                       /\ i < 12 => Statements[i].v > v
<1>0. v \in {0, 1, 2, 3, 4, 5, 6}
  OBVIOUS
<1>1. CASE v = 0
  <2>1. First(1)
    BY <1>1, StatementsAre
  <2> QED
    BY <2>1, StatementsAre
<1>2. CASE v = 1
  <2>1. First(6)
    BY <1>2, StatementsAre
  <2> QED
    BY <2>1, StatementsAre
<1>3. CASE v = 2
  <2>1. \A j \in 1..6 : j \in 1..5 \/ j = 6
    OBVIOUS
  <2>2. First(7)
    BY <1>3, <2>1, StatementsAre
  <2> QED
    BY <2>2, StatementsAre
<1>4. CASE v = 3
  <2>1. \A j \in 1..7 : j \in 1..5 \/ j = 6 \/ j = 7
    OBVIOUS
  <2>2. First(8)
    BY <1>4, <2>1, StatementsAre
  <2> QED
    BY <2>2, StatementsAre
<1>5. CASE v = 4
  <2>1. \A j \in 1..8 : j \in 1..5 \/ j = 6 \/ j = 7 \/ j = 8
    OBVIOUS
  <2>2. First(9)
    BY <1>5, <2>1, StatementsAre
  <2> QED
    BY <2>2, StatementsAre
<1>6. CASE v = 5
  <2>1. \A j \in 1..10 : j \in 1..5 \/ j = 6 \/ j = 7 \/ j = 8 \/ j = 9 \/ j = 10
    OBVIOUS
  <2>2. First(11)
    BY <1>6, <2>1, StatementsAre
  <2> QED
    BY <2>2, StatementsAre
<1>7. CASE v = 6
  <2>1. First(12)
    BY <1>7, VersionsInRange
  <2> QED
    BY <2>1, StatementsAre
<1> QED
  BY <1>0, <1>1, <1>2, <1>3, <1>4, <1>5, <1>6, <1>7

\* The statements that Start skips belong to the version it has read.
LEMMA FromSkips ==
  ASSUME NEW v \in 0..6
  PROVE  From(v) \in 1..End /\ Made(1..(From(v) - 1)) \subseteq Upto(v)
<1> DEFINE First(i) == /\ \A j \in 1..(i - 1) : Statements[j].v <= v
                       /\ i < End => Statements[i].v > v
<1>1. \E i \in 1..End : First(i)
  BY FromExists
<1>2. From(v) = CHOOSE i \in 1..End : First(i)
  BY DEF From
<1> HIDE DEF First
<1>3. From(v) \in 1..End /\ First(From(v))
  BY <1>1, <1>2
<1>4. \A j \in 1..(From(v) - 1) : j \in DOMAIN Statements /\ Statements[j].v <= v
  BY <1>3, StatementsAre DEF First
<1> QED
  BY <1>3, <1>4 DEF Made, Upto

-----------------------------------------------------------------------------
(* The invariant.                                                          *)

LEMMA InvInit == Init => IInv
<1> SUFFICES ASSUME Init
             PROVE  IInv
  OBVIOUS
<1>1. persisted \in 0..6 /\ currentSchemaVersion = 6
  BY DEF Init, currentSchemaVersion
<1>2. schema \subseteq Upto(6) /\ Upto(persisted) \subseteq schema
  BY <1>1, UptoGrows DEF Init
<1>3. pos \in 1..End /\ faults \in 0..MaxFaults
  BY StatementsAre, MigrationAssumption DEF Init
<1>4. TypeOK
  BY <1>1, <1>2, <1>3 DEF Init, TypeOK
<1> QED
  BY <1>2, <1>4 DEF Init, IInv, VersionHonest, Progress

\* What a step that only adds to the schema keeps.
LEMMA HonestKept ==
  ASSUME IInv, schema \subseteq schema', persisted' = persisted,
         ignored => ignored', at' = "running" => at = "running"
  PROVE  VersionHonest'
  BY DEF IInv, VersionHonest

LEMMA InvNext == IInv /\ [Next]_vars => IInv'
<1> SUFFICES ASSUME IInv, [Next]_vars
             PROVE  IInv'
  OBVIOUS
<1>t. /\ TypeOK /\ VersionHonest /\ Progress
      /\ pos \in 1..12 /\ End = 12 /\ currentSchemaVersion = 6
      /\ persisted \in 0..6 /\ MaxFaults \in Nat
  BY StatementsAre, MigrationAssumption
  DEF IInv, TypeOK, currentSchemaVersion
<1>f. ASSUME Fault PROVE faults' \in 0..MaxFaults
  BY <1>t, <1>f DEF Fault, TypeOK
<1>1. CASE Start
  <2>1. pos' \in 1..End /\ Made(1..(pos' - 1)) \subseteq Upto(persisted)
    <3>1. CASE pos' = From(persisted)
      BY <1>t, <3>1, FromSkips
    <3>2. CASE pos' = 1
      BY <1>t, <3>2 DEF Made
    <3> QED
      BY <1>1, <3>1, <3>2 DEF Start
  <2>2. TypeOK'
    BY <1>t, <1>f, <1>1, <2>1 DEF Start, TypeOK
  <2>3. VersionHonest'
    BY <1>1, HonestKept DEF Start
  <2>4. Progress'
    BY <1>t, <1>1, <2>1 DEF Start, VersionHonest, Progress, Missing
  <2> QED
    BY <2>2, <2>3, <2>4 DEF IInv
<1>2. CASE at = "migrating" /\ CreateTable /\ UNCHANGED persisted
  <2>1. /\ pos \in 1..11 /\ pos' = pos + 1 /\ pos' \in 1..End
        /\ schema \subseteq schema' /\ Statements[pos].makes \in schema'
        /\ schema' \subseteq schema \cup {Statements[pos].makes, TypeColumn}
    BY <1>t, <1>2 DEF CreateTable
  <2>2. TypeOK'
    <3>1. TypeColumn \in Upto(6) /\ Statements[pos].makes \in Upto(6)
      BY <1>t, <2>1, MakesInSchema, StatementsAre
    <3> QED
      BY <1>t, <1>2, <2>1, <3>1 DEF CreateTable, TypeOK
  <2>3. VersionHonest'
    BY <1>2, <2>1, HonestKept DEF CreateTable
  <2>4. Progress'
    <3>1. Missing' = Missing
      BY <1>2 DEF CreateTable, Missing
    <3>2. Made(1..(pos - 1)) \ schema \subseteq Missing
      BY <1>t, <1>2 DEF Progress
    <3>3. Made(1..((pos + 1) - 1)) \ schema' \subseteq Missing
      BY <2>1, <3>2, Passed
    <3> QED
      BY <2>1, <3>1, <3>3 DEF Progress
  <2> QED
    BY <2>2, <2>3, <2>4 DEF IInv
<1>3. CASE at = "migrating" /\ AddTypeColumn /\ UNCHANGED persisted
  <2>1. /\ pos \in 1..11 /\ pos' = pos + 1 /\ pos' \in 1..End
        /\ schema' = schema \cup {TypeColumn} /\ Statements[pos].v = 2
    BY <1>t, <1>3 DEF AddTypeColumn
  <2>2. pos = 6
    <3>1. pos \in 1..5 \/ pos = 6 \/ pos \in {7, 8, 9, 10, 11}
      BY <2>1
    <3> QED
      BY <2>1, <3>1, StatementsAre
  <2>3. Statements[pos].makes = TypeColumn /\ TypeColumn \in Upto(6)
    BY <1>t, <2>1, <2>2, MakesInSchema, StatementsAre
  <2>4. TypeOK'
    BY <1>t, <1>3, <2>1, <2>3 DEF AddTypeColumn, TypeOK
  <2>5. VersionHonest'
    BY <1>3, <2>1, HonestKept DEF AddTypeColumn
  <2>6. Progress'
    <3>1. Missing' = Missing
      BY <1>3 DEF AddTypeColumn, Missing
    <3>2. Made(1..(pos - 1)) \ schema \subseteq Missing
      BY <1>t, <1>3 DEF Progress
    <3>3. Made(1..((pos + 1) - 1)) \ schema' \subseteq Missing
      BY <2>1, <2>3, <3>2, Passed
    <3> QED
      BY <2>1, <3>1, <3>3 DEF Progress
  <2> QED
    BY <2>4, <2>5, <2>6 DEF IInv
<1>4. CASE at = "migrating" /\ AddTokenColumn /\ UNCHANGED persisted
  <2>0. /\ pos < End /\ Statements[pos].v = 6 /\ pos' = pos + 1
    BY <1>4 DEF AddTokenColumn
  <2>s. /\ schema' = schema \cup {TokenColumn} \/ schema' = schema
        /\ schema \subseteq schema'
    BY <1>4 DEF AddTokenColumn
  <2>i. /\ schema' = schema \cup {TokenColumn} \/ (schema' = schema /\ ignored')
        /\ ignored => ignored'
    <3>0. ignored \in BOOLEAN
      BY <1>t DEF TypeOK
    <3>1. CASE ignored' = ignored /\ schema' = schema \cup {TokenColumn}
      <4>1. ASSUME ignored PROVE ignored'
        <5>1. ignored = TRUE
          BY <3>0, <4>1
        <5> QED
          BY <3>1, <5>1
      <4> QED
        BY <3>1, <4>1
    <3>2. CASE ignored' = TRUE /\ schema' = schema
      BY <3>2
    <3> QED
      BY <1>4, <3>1, <3>2 DEF AddTokenColumn
  <2>b. ignored' \in BOOLEAN
    <3>1. CASE ignored' = ignored
      BY <1>t, <3>1 DEF TypeOK
    <3>2. CASE ignored' = TRUE
      BY <3>2
    <3> QED
      BY <1>4, <3>1, <3>2 DEF AddTokenColumn
  <2>1. pos \in 1..11 /\ pos' \in 1..End
    BY <1>t, <2>0
  <2>2. pos = 11
    <3>1. pos \in 1..5 \/ pos \in {6, 7, 8, 9, 10} \/ pos = 11
      BY <2>1
    <3> QED
      BY <2>0, <3>1, StatementsAre
  <2>3. Statements[pos].makes = TokenColumn /\ TokenColumn \in Upto(6)
    BY <1>t, <2>1, <2>2, MakesInSchema, StatementsAre
  <2>4. TypeOK'
    <3>1. faults' \in 0..MaxFaults
      BY <1>t, <1>f, <1>4 DEF AddTokenColumn, TypeOK
    <3>2. schema' \subseteq Upto(currentSchemaVersion)
      BY <1>t, <2>s, <2>3 DEF TypeOK
    <3>3. persisted' = persisted /\ at' = at
      BY <1>4 DEF AddTokenColumn
    <3> QED
      BY <1>t, <2>1, <2>b, <3>1, <3>2, <3>3 DEF TypeOK
  <2>5. VersionHonest'
    BY <1>4, <2>s, <2>i, HonestKept DEF AddTokenColumn
  <2>6. Progress'
    <3>1. Missing \subseteq Missing'
      BY <2>i DEF Missing
    <3>2. TokenColumn \in schema' \cup Missing'
      BY <2>i DEF Missing
    <3>3. Made(1..(pos - 1)) \ schema \subseteq Missing'
      BY <1>t, <1>4, <3>1 DEF Progress
    <3>4. Made(1..((pos + 1) - 1)) \ schema' \subseteq Missing'
      BY <2>1, <2>s, <2>3, <3>2, <3>3, Passed
    <3> QED
      BY <2>0, <3>4 DEF Progress
  <2> QED
    BY <2>4, <2>5, <2>6 DEF IInv
<1>5. CASE at = "migrating" /\ StatementFails /\ UNCHANGED persisted
  BY <1>t, <1>f, <1>5 DEF StatementFails, IInv, TypeOK, VersionHonest, Progress
<1>6. CASE at = "migrating" /\ Persist
  <2>1. Upto(6) \ schema \subseteq Missing
    BY <1>t, <1>6, MadeAtEnd DEF Persist, Progress
  <2> QED
    BY <1>t, <1>6, <2>1
    DEF Persist, IInv, TypeOK, VersionHonest, Progress, Missing
<1>7. CASE Crash
  BY <1>t, <1>f, <1>7 DEF Crash, IInv, TypeOK, VersionHonest, Progress
<1>8. CASE UNCHANGED vars
  BY <1>t, <1>8 DEF vars, IInv, TypeOK, VersionHonest, Progress, Missing
<1> QED
  BY <1>1, <1>2, <1>3, <1>4, <1>5, <1>6, <1>7, <1>8 DEF Next, Migrate

LEMMA InvCorrect == Spec => []IInv
  BY InvInit, InvNext, PTL DEF Spec

\* Only what the statements make is ever in the schema, and the version and the
\* next statement stay within their ranges.
THEOREM TypeCorrect == Spec => []TypeOK
<1>1. IInv => TypeOK
  BY DEF IInv
<1> QED
  BY <1>1, InvCorrect, PTL

\* The version in the file never promises what the file lacks, and a relay that
\* runs has the whole schema, but for the column of v6, however many failures
\* and crashes came before.
THEOREM VersionHonestCorrect == Spec => []VersionHonest
<1>1. IInv => VersionHonest
  BY DEF IInv
<1> QED
  BY <1>1, InvCorrect, PTL

\* Running a statement again over what an interrupted run left never fails by
\* itself.
THEOREM FailsOnlyByFaultCorrect == Spec => FailsOnlyByFault
<1>1. IInv /\ [Next]_vars =>
        [(at = "migrating" /\ at' = "stopped") => faults' > faults]_vars
  <2> SUFFICES ASSUME IInv, Next, at = "migrating", at' = "stopped"
               PROVE  faults' > faults
    OBVIOUS
  <2>1. faults \in Nat
    BY DEF IInv, TypeOK
  <2>2. Fault
    BY DEF Next, Start, Migrate, Crash, CreateTable, AddTypeColumn,
           AddTokenColumn, StatementFails, Persist
  <2> QED
    BY <2>1, <2>2 DEF Fault
<1> QED
  BY <1>1, InvCorrect, PTL DEF Spec, FailsOnlyByFault

\* The version never falls, not even when it could not be read.
THEOREM VersionNeverFallsCorrect == Spec => VersionNeverFalls
<1>1. IInv /\ [Next]_vars => [persisted' >= persisted]_persisted
  <2> SUFFICES ASSUME IInv, [Next]_vars, persisted' # persisted
               PROVE  persisted' >= persisted
    OBVIOUS
  <2>1. persisted' = 6 /\ persisted \in 0..6
    BY DEF Next, Start, Migrate, Crash, CreateTable, AddTypeColumn, vars,
           AddTokenColumn, StatementFails, Persist, IInv, TypeOK,
           currentSchemaVersion
  <2> QED
    BY <2>1
<1> QED
  BY <1>1, InvCorrect, PTL DEF Spec, VersionNeverFalls
=============================================================================
