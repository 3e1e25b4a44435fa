------------------------ MODULE EvaluatorTaskProofs ------------------------
(***************************************************************************)
(* Proofs about EvaluatorTask: no one who was told that an assessment is   *)
(* canceled is told that it is complete, the conversations with the agent  *)
(* under test are kept apart, and the artifacts add up.                    *)
(***************************************************************************)
EXTENDS EvaluatorTask, FiniteSetTheorems, WellFoundedInduction, TLAPS

Bench == [trial : 0 .. Trials, sent : 0 .. Turns + 1, first : BOOLEAN, context : 0 .. MaxContexts]

Pcs == {"new", "refused", "working", "raised", "entered", "next", "bench", "collect",
        "over", "failing", "handler", "finally", "ended"}

\* The types of all variables.
Kinds ==
  /\ pc \in [Tasks -> Pcs]
  /\ split \in [Tasks -> 0 .. Len(Splits)]
  /\ configured \in [Tasks -> SUBSET ToSet(Splits)]
  /\ active \subseteq Tasks /\ cancelled \subseteq Tasks /\ cancelling \subseteq Tasks
  /\ told \in [Tasks -> Seq(Terminal)]
  /\ strict \in BOOLEAN
  /\ results \in [Tasks -> Seq(ToSet(Splits))]
  /\ artifacts \in [Tasks -> Seq(Nat)]
  /\ bench \in [Tasks -> Bench]

\* Whoever is told of a cancellation is told of one that happened.
Cancelled ==
  /\ cancelling \subseteq cancelled
  /\ \A t \in Tasks : (\E i \in DOMAIN told[t] : told[t][i] = "canceled") => t \in cancelled

\* The contexts of the agent under test are numbered as it opened them, and a remote agent
\* that goes on with a conversation has had it in the trial it plays.
Spoken ==
  /\ \E n \in 0 .. MaxContexts : Contexts = 1 .. n
  /\ \A t \in Tasks : bench[t].sent > 0 /\ ~ bench[t].first =>
       bench[t].context # 0 /\ <<bench[t].context, OpenedBy(t)>> \in spoke

\* The positions in Splits that run_eval is done with.
Reached(t) == IF pc[t] = "bench" THEN split[t] - 1 ELSE split[t]
Done(t) == {i \in 1 .. Reached(t) : Splits[i] \in configured[t]}
Running(t) == pc[t] \in {"new", "working", "entered", "next", "bench", "collect", "over"}

\* The results are those of the splits that are done with.
ResultsFit(t) ==
  /\ pc[t] \in {"new", "working", "entered"} => split[t] = 0
  /\ pc[t] \in {"bench", "collect"} => split[t] # 0 /\ Splits[split[t]] \in configured[t]
  /\ results[t] \in Seq(configured[t])
  /\ \A i \in DOMAIN Splits :
       /\ Cardinality(ResultsOf(t, Splits[i])) \in {0, Trials}
       /\ i > Reached(t) => ResultsOf(t, Splits[i]) = {}
  /\ Running(t) => Len(results[t]) = Trials * Cardinality(Done(t))

\* Nor is anything counted in an artifact that is no result.
ArtifactsFit(t) ==
  /\ \A i \in DOMAIN artifacts[t] : artifacts[t][i] <= Len(results[t])
  /\ \A i, j \in DOMAIN artifacts[t] : i <= j => artifacts[t][i] <= artifacts[t][j]
  /\ pc[t] = "over" => Last(artifacts[t]) = Trials * Cardinality(configured[t])

Assessments ==
  /\ Kinds /\ Cancelled /\ NeverCompletedAfterCancel
  /\ Spoken /\ ConversationsAreSeparate
  /\ \A t \in Tasks : ResultsFit(t) /\ ArtifactsFit(t)

-----------------------------------------------------------------------------
(* The operators.                                                          *)

\* A set of natural numbers that is not empty has a smallest one, which Min finds.
LEMMA MinFound ==
  ASSUME NEW S \in SUBSET Nat, S # {}
  PROVE  Min(S) \in S /\ \A y \in S : Min(S) <= y
<1>1. PICK k \in S : TRUE
    OBVIOUS
<1> DEFINE N == 1 .. k
           T == {1 .. x : x \in S \cap 0 .. k}
<1>2. k \in Nat /\ IsFiniteSet(N)
    <2>1. k \in Int /\ 1 \in Int
        OBVIOUS
    <2>2. IsFiniteSet(1 .. k)
        BY <2>1, FS_Interval
    <2> QED
        BY <2>2
<1>3. T \subseteq SUBSET N /\ T # {}
    BY <1>2
<1>4. SUBSET N = FiniteSubsetsOf(N)
    BY <1>2, FS_FiniteSubsetsOfFinite
<1>5. IsWellFoundedOn(StrictSubsetOrdering(N), FiniteSubsetsOf(N))
    BY FS_StrictSubsetOrderingWellFounded
<1>6. \E X \in T : \A Y \in T : ~ (<<Y, X>> \in StrictSubsetOrdering(N))
    <2> HIDE DEF T, N
    <2> QED
        BY <1>3, <1>4, <1>5, WFMin
<1>7. PICK x \in S \cap 0 .. k : \A Y \in T : ~ (<<Y, 1 .. x>> \in StrictSubsetOrdering(N))
    BY <1>6
<1>8. \A y \in S : x <= y
    <2> SUFFICES ASSUME NEW y \in S, y < x PROVE FALSE
        OBVIOUS
    <2>1. 1 .. y \in T /\ 1 .. x \in SUBSET N /\ 1 .. y \in SUBSET N
        BY <1>2
    <2>2. 1 .. y \subseteq 1 .. x /\ x \in 1 .. x /\ x \notin 1 .. y
        OBVIOUS
    <2>3. <<1 .. y, 1 .. x>> \in StrictSubsetOrdering(N)
        <3> HIDE DEF N
        <3> QED
            BY <2>1, <2>2 DEF StrictSubsetOrdering
    <2> QED
        BY <1>7, <2>1, <2>3
<1>9. \E z \in S : \A y \in S : z <= y
    BY <1>8
<1> QED
    BY <1>9 DEF Min

\* Following finds the next split that was asked for, if there is one.
LEMMA FollowingFound ==
  ASSUME Kinds, NEW t \in Tasks
  PROVE  /\ Following(t) \in 0 .. Len(Splits)
         /\ Following(t) # 0 =>
              /\ Following(t) > split[t] /\ Splits[Following(t)] \in configured[t]
              /\ \A i \in 1 .. Following(t) - 1 : Splits[i] \in configured[t] => i <= split[t]
         /\ Following(t) = 0 => \A i \in DOMAIN Splits : Splits[i] \in configured[t] => i <= split[t]
<1> DEFINE rest == {i \in split[t] + 1 .. Len(Splits) : Splits[i] \in configured[t]}
<1>1. Len(Splits) \in Nat /\ DOMAIN Splits = 1 .. Len(Splits) /\ split[t] \in 0 .. Len(Splits)
    BY EvaluatorAssumption DEF Kinds
<1>2. rest \in SUBSET Nat
    BY <1>1
<1>3. CASE rest = {}
    <2>1. Following(t) = 0
        BY <1>3 DEF Following
    <2> QED
        BY <1>1, <1>3, <2>1
<1>4. CASE rest # {}
    <2>1. Following(t) = Min(rest)
        BY <1>4 DEF Following
    <2>2. Following(t) \in rest /\ \A i \in rest : Following(t) <= i
        BY <1>2, <1>4, <2>1, MinFound
    <2> QED
        BY <1>1, <2>2
<1> QED
    BY <1>3, <1>4

\* A status that is published is appended, unless the updater refuses it.
LEMMA Published ==
  ASSUME Kinds, NEW t \in Tasks, NEW status \in Terminal, Publish(t, status)
  PROVE  /\ told' \in [Tasks -> Seq(Terminal)]
         /\ \A u \in Tasks : told'[u] = told[u] \/ (u = t /\ told'[u] = Append(told[u], status))
BY DEF Publish, Kinds

-----------------------------------------------------------------------------
(* The types.                                                              *)

\* At the start everything has its type.
LEMMA KindsInit == ASSUME Init PROVE Kinds
<1>1. NoBench \in Bench /\ Len(Splits) \in Nat
    BY EvaluatorAssumption DEF NoBench, Bench
<1> QED
    BY <1>1 DEF Init, Kinds, Pcs, Terminal

\* The contexts are as many as the number of the last one.
LEMMA Counted ==
  ASSUME Spoken
  PROVE  \E n \in 0 .. MaxContexts : Contexts = 1 .. n /\ Cardinality(Contexts) = n
<1>1. PICK n \in 0 .. MaxContexts : Contexts = 1 .. n
    BY DEF Spoken
<1>2. n \in Int /\ 1 \in Int /\ n >= 0
    BY EvaluatorAssumption
<1>3. Cardinality(1 .. n) = IF 1 > n THEN 0 ELSE n - 1 + 1
    BY <1>2, FS_Interval
<1>4. Cardinality(1 .. n) = n
    BY <1>2, <1>3
<1> QED
    BY <1>1, <1>4

\* Every step keeps the types.
LEMMA KindsKept ==
  ASSUME Assessments, NEW t \in Tasks,
         Refuse(t) \/ Start(t) \/ Cancel(t) \/ ReportCancel(t) \/ Run(t)
  PROVE  Kinds'
<1>0. Kinds /\ Cardinality(Contexts) \in Nat
    BY Counted DEF Assessments
<1> USE DEF Goto, Proceed
<1>1. CASE Refuse(t) \/ Start(t) \/ Announce(t) \/ Enter(t) \/ Crash(t)
    <2>1. pc' \in [Tasks -> Pcs]
        BY <1>0, <1>1 DEF Refuse, Start, Announce, Enter, Crash, Kinds, Pcs
    <2>2. active' \subseteq Tasks
        BY <1>0, <1>1 DEF Refuse, Start, Announce, Enter, Crash, Kinds
    <2> QED
        BY <1>0, <1>1, <2>1, <2>2 DEF Refuse, Start, Announce, Enter, Crash, Kinds
<1>2. CASE Cancel(t)
    BY <1>0, <1>2 DEF Cancel, Kinds
<1>3. CASE ReportCancel(t)
    <2>1. told' \in [Tasks -> Seq(Terminal)]
        BY <1>0, <1>3, Published DEF ReportCancel, Terminal
    <2> QED
        BY <1>0, <1>3, <2>1 DEF ReportCancel, Kinds
<1>4. CASE Conclude(t) \/ Handle(t) \/ ReportFailure(t)
    <2>1. \E status \in Terminal : Publish(t, status)
        BY <1>4 DEF Conclude, Handle, ReportFailure, Verdict, Terminal
    <2>2. told' \in [Tasks -> Seq(Terminal)]
        BY <1>0, <2>1, Published
    <2>3. pc' \in [Tasks -> Pcs]
        BY <1>0, <1>4 DEF Conclude, Handle, ReportFailure, Kinds, Pcs
    <2> QED
        BY <1>0, <1>4, <2>2, <2>3 DEF Conclude, Handle, ReportFailure, Kinds
<1>5. CASE Finally(t)
    <2>1. pc' \in [Tasks -> Pcs] /\ active' \subseteq Tasks
        BY <1>0, <1>5 DEF Finally, Forgotten, Kinds, Pcs
    <2> QED
        BY <1>0, <1>5, <2>1 DEF Finally, Kinds
<1>6. CASE BeginSplit(t)
    <2>1. NoBench \in Bench
        BY EvaluatorAssumption DEF NoBench, Bench
    <2>2. split' \in [Tasks -> 0 .. Len(Splits)] /\ bench' \in [Tasks -> Bench]
        BY <1>0, <1>6, <2>1, FollowingFound DEF BeginSplit, Kinds
    <2>3. pc' \in [Tasks -> Pcs]
        BY <1>0, <1>6 DEF BeginSplit, Kinds, Pcs
    <2> QED
        BY <1>0, <1>6, <2>2, <2>3 DEF BeginSplit, Kinds
<1>7. ASSUME NEW b \in Bench, bench' = [bench EXCEPT ![t] = b],
             UNCHANGED <<pc, split, configured, active, cancelled, told, strict, cancelling, results,
                         artifacts>>
      PROVE  Kinds'
    <2>1. bench' \in [Tasks -> Bench]
        BY <1>0, <1>7 DEF Kinds
    <2> QED
        BY <1>0, <1>7, <2>1 DEF Kinds
<1>8. bench[t] \in Bench /\ Trials \in Nat /\ Turns \in Nat /\ MaxContexts \in Nat
    BY <1>0, EvaluatorAssumption DEF Kinds
<1>9. CASE BeginTrial(t)
    <2> DEFINE b == [bench[t] EXCEPT !.trial = @ + 1, !.sent = 1, !.first = TRUE]
    <2>1. bench[t].trial + 1 \in 0 .. Trials /\ 1 \in 0 .. Turns + 1
        BY <1>8, <1>9 DEF BeginTrial, Bench
    <2>2. b \in Bench
        BY <1>8, <2>1 DEF Bench
    <2>3. bench' = [bench EXCEPT ![t] = b]
        BY <1>9 DEF BeginTrial
    <2> HIDE DEF b
    <2> QED
        BY <1>7, <1>9, <2>2, <2>3 DEF BeginTrial
<1>10. CASE Talk(t)
    <2>1. PICK c \in IF Addressed(bench[t]) # 0 THEN {Addressed(bench[t])}
                     ELSE {Cardinality(Contexts) + 1} :
            /\ c <= MaxContexts
            /\ bench' = [bench EXCEPT ![t].sent = @ + 1, ![t].first = FALSE, ![t].context = c]
        BY <1>10 DEF Talk
    <2> DEFINE b == [bench[t] EXCEPT !.sent = @ + 1, !.first = FALSE, !.context = c]
    <2>2. c \in 0 .. MaxContexts
        BY <1>8, <2>1, <1>0 DEF Addressed, Bench
    <2>3. b \in Bench
        <3>1. bench[t].sent + 1 \in 0 .. Turns + 1
            BY <1>8, <1>10 DEF Talk
        <3>2. FALSE \in BOOLEAN
            OBVIOUS
        <3> QED
            BY <1>8, <2>2, <3>1, <3>2 DEF Bench
    <2>4. bench' = [bench EXCEPT ![t] = b]
        BY <2>1
    <2> HIDE DEF b
    <2> QED
        BY <1>7, <1>10, <2>3, <2>4 DEF Talk
<1>11. CASE TalkFails(t) \/ EndTrial(t)
    <2>1. PICK f \in BOOLEAN : bench' = [bench EXCEPT ![t] = [bench[t] EXCEPT !.sent = 0, !.first = f]]
        <3>1. bench[t] = [bench[t] EXCEPT !.first = bench[t].first] /\ bench[t].first \in BOOLEAN
            BY <1>8 DEF Bench
        <3>2. CASE TalkFails(t)
            BY <3>2 DEF TalkFails
        <3>3. CASE EndTrial(t)
            <4>1. [bench[t] EXCEPT !.sent = 0] = [bench[t] EXCEPT !.sent = 0, !.first = bench[t].first]
                BY <1>8 DEF Bench
            <4> QED
                BY <3>1, <3>3, <4>1 DEF EndTrial
        <3> QED
            BY <1>11, <3>2, <3>3
    <2> DEFINE b == [bench[t] EXCEPT !.sent = 0, !.first = f]
    <2>2. b \in Bench
        <3>1. 0 \in 0 .. Turns + 1
            BY <1>8
        <3> QED
            BY <1>8, <2>1, <3>1 DEF Bench
    <2>3. bench' = [bench EXCEPT ![t] = b]
        BY <2>1
    <2> HIDE DEF b
    <2> QED
        BY <1>7, <1>11, <2>2, <2>3 DEF TalkFails, EndTrial
<1>12. CASE Collect(t)
    <2> DEFINE more == [i \in 1 .. Trials |-> Splits[split[t]]]
    <2>1. Splits[split[t]] \in ToSet(Splits)
        <3>1. split[t] \in 1 .. Len(Splits) /\ DOMAIN Splits = 1 .. Len(Splits)
            BY <1>0, <1>12, EvaluatorAssumption DEF Assessments, ResultsFit, Kinds, Collect
        <3> QED
            BY <3>1 DEF ToSet
    <2>2. more \in Seq(ToSet(Splits))
        BY <1>8, <2>1
    <2>3. results' = [results EXCEPT ![t] = results[t] \o more]
        BY <1>12 DEF Collect
    <2>4. results[t] \in Seq(ToSet(Splits))
        BY <1>0 DEF Kinds
    <2> HIDE DEF more
    <2>5. results' \in [Tasks -> Seq(ToSet(Splits))]
        BY <1>0, <2>2, <2>3, <2>4 DEF Kinds
    <2>6. pc' \in [Tasks -> Pcs]
        BY <1>0, <1>12 DEF Collect, Kinds, Pcs
    <2> QED
        BY <1>0, <1>12, <2>5, <2>6 DEF Collect, Kinds
<1>13. CASE ReportSplit(t) \/ ReportResult(t)
    <2>1. Scored(t) \in Nat
        BY <1>0 DEF Scored, Kinds
    <2>2. artifacts' \in [Tasks -> Seq(Nat)]
        <3>1. Append(artifacts[t], Scored(t)) \in Seq(Nat)
            BY <1>0, <2>1 DEF Kinds
        <3>2. artifacts' = [artifacts EXCEPT ![t] = Append(artifacts[t], Scored(t))]
            BY <1>13 DEF ReportSplit, ReportResult
        <3> QED
            BY <1>0, <3>1, <3>2 DEF Kinds
    <2>3. pc' \in [Tasks -> Pcs]
        BY <1>0, <1>13 DEF ReportSplit, ReportResult, Kinds, Pcs
    <2> QED
        BY <1>0, <1>13, <2>2, <2>3 DEF ReportSplit, ReportResult, Kinds
<1> QED
    BY <1>1, <1>2, <1>3, <1>4, <1>5, <1>6, <1>9, <1>10, <1>11, <1>12, <1>13 DEF Run

-----------------------------------------------------------------------------
(* Cancellation.                                                           *)

\* The status of a step that publishes one: it is a cancellation only of a task whose
\* event is set, and it is a success only of a task whose event is not.
Sound(t, status) ==
  /\ status \in Terminal
  /\ status = "canceled" => t \in cancelled
  /\ status = "completed" => t \notin cancelled

\* A sound status that is appended leaves it true that no success follows a cancellation.
LEMMA PublishedSoundly ==
  ASSUME Kinds, Cancelled, NeverCompletedAfterCancel,
         NEW t \in Tasks, NEW status, Sound(t, status), Publish(t, status),
         cancelled' = cancelled, cancelling' \subseteq cancelling
  PROVE  Cancelled' /\ NeverCompletedAfterCancel'
<1>1. /\ told' \in [Tasks -> Seq(Terminal)]
      /\ \A u \in Tasks : told'[u] = told[u] \/ (u = t /\ told'[u] = Append(told[u], status))
    BY Published DEF Sound
<1>2. \A u \in Tasks : told[u] \in Seq(Terminal)
    BY DEF Kinds
<1>3. ASSUME NEW u \in Tasks, NEW i \in DOMAIN told'[u], told'[u][i] = "canceled"
      PROVE  u \in cancelled
    <2>1. CASE told'[u] = told[u]
        BY <1>3, <2>1 DEF Cancelled
    <2>2. CASE u = t /\ told'[u] = Append(told[u], status)
        <3>1. DOMAIN told'[u] = 1 .. Len(told[u]) + 1 /\ DOMAIN told[u] = 1 .. Len(told[u])
            BY <1>2, <2>2
        <3>2. told'[u][i] = IF i = Len(told[u]) + 1 THEN status ELSE told[u][i]
            BY <1>2, <1>3, <2>2, <3>1
        <3>3. i = Len(told[u]) + 1 \/ i \in DOMAIN told[u]
            BY <1>2, <1>3, <3>1
        <3> QED
            BY <1>3, <2>2, <3>2, <3>3 DEF Cancelled, Sound
    <2> QED
        BY <1>1, <2>1, <2>2
<1>4. ASSUME NEW u \in Tasks, NEW i \in DOMAIN told'[u], NEW j \in DOMAIN told'[u],
             i < j, told'[u][i] = "canceled", told'[u][j] = "completed"
      PROVE  FALSE
    <2>1. CASE told'[u] = told[u]
        BY <1>4, <2>1 DEF NeverCompletedAfterCancel
    <2>2. CASE u = t /\ told'[u] = Append(told[u], status)
        <3>1. DOMAIN told'[u] = 1 .. Len(told[u]) + 1 /\ DOMAIN told[u] = 1 .. Len(told[u])
              /\ Len(told[u]) \in Nat
            BY <1>2, <2>2
        <3>2. \A k \in DOMAIN told'[u] :
                told'[u][k] = IF k = Len(told[u]) + 1 THEN status ELSE told[u][k]
            BY <1>2, <2>2, <3>1
        <3>3. CASE j = Len(told[u]) + 1
            <4>1. status = "completed"
                BY <1>4, <3>2, <3>3
            <4> QED
                BY <1>3, <1>4, <2>2, <4>1 DEF Sound
        <3>4. CASE j # Len(told[u]) + 1
            <4>1. i \in DOMAIN told[u] /\ j \in DOMAIN told[u] /\ i # Len(told[u]) + 1
                BY <1>4, <3>1, <3>4
            <4> QED
                BY <1>4, <3>2, <3>4, <4>1 DEF NeverCompletedAfterCancel
        <3> QED
            BY <3>3, <3>4
    <2> QED
        BY <1>1, <2>1, <2>2
<1>5. cancelling' \subseteq cancelled'
    BY DEF Cancelled
<1> QED
    BY <1>3, <1>4, <1>5 DEF Cancelled, NeverCompletedAfterCancel

\* No step reports a success of a task that was reported as canceled.
LEMMA CancelledKept ==
  ASSUME Assessments, NEW t \in Tasks,
         Refuse(t) \/ Start(t) \/ Cancel(t) \/ ReportCancel(t) \/ Run(t)
  PROVE  Cancelled' /\ NeverCompletedAfterCancel'
<1>0. Kinds /\ Cancelled /\ NeverCompletedAfterCancel
    BY DEF Assessments
<1>1. CASE UNCHANGED <<told, cancelling>> /\ cancelled \subseteq cancelled'
    BY <1>0, <1>1 DEF Cancelled, NeverCompletedAfterCancel
<1>2. CASE Cancel(t)
    BY <1>0, <1>2 DEF Cancel, Cancelled, NeverCompletedAfterCancel
<1>3. CASE ReportCancel(t)
    <2>1. Sound(t, "canceled")
        BY <1>0, <1>3 DEF ReportCancel, Sound, Cancelled, Terminal
    <2> QED
        BY <1>0, <1>3, <2>1, PublishedSoundly DEF ReportCancel
<1>4. CASE Conclude(t)
    <2>1. Sound(t, Verdict(t))
        BY DEF Verdict, Sound, Terminal
    <2> QED
        BY <1>0, <1>4, <2>1, PublishedSoundly DEF Conclude
<1>5. CASE Handle(t)
    <2>1. Sound(t, IF t \in cancelled THEN "canceled" ELSE "failed")
        BY DEF Sound, Terminal
    <2> QED
        BY <1>0, <1>5, <2>1, PublishedSoundly DEF Handle
<1>6. CASE ReportFailure(t)
    <2>1. Sound(t, "failed")
        BY DEF Sound, Terminal
    <2> QED
        BY <1>0, <1>6, <2>1, PublishedSoundly DEF ReportFailure
<1>7. CASE Refuse(t) \/ Start(t) \/ Announce(t) \/ Enter(t) \/ BeginSplit(t) \/ Collect(t)
           \/ ReportSplit(t) \/ ReportResult(t) \/ Crash(t) \/ Finally(t)
           \/ BeginTrial(t) \/ Talk(t) \/ TalkFails(t) \/ EndTrial(t)
    BY <1>1, <1>7 DEF Refuse, Start, Announce, Enter, BeginSplit, Collect, ReportSplit,
       ReportResult, Crash, Finally, BeginTrial, Talk, TalkFails, EndTrial
<1> QED
    BY <1>2, <1>3, <1>4, <1>5, <1>6, <1>7 DEF Run

-----------------------------------------------------------------------------
(* Conversations.                                                          *)

\* A message opens a context that is new, or it goes on with the one of its trial.
LEMMA TalkSeparate ==
  ASSUME Kinds, Spoken, ConversationsAreSeparate, NEW t \in Tasks, Talk(t)
  PROVE  Spoken' /\ ConversationsAreSeparate'
<1> DEFINE mine == OpenedBy(t)
<1>1. bench[t] \in Bench /\ bench[t].sent > 0 /\ bench[t].sent \in Nat /\ t \in DOMAIN bench
    BY EvaluatorAssumption DEF Kinds, Talk, Bench
<1>2. PICK n \in 0 .. MaxContexts : Contexts = 1 .. n /\ Cardinality(Contexts) = n
    BY Counted
<1>3. PICK c \in IF Addressed(bench[t]) # 0 THEN {Addressed(bench[t])} ELSE {n + 1} :
        /\ c <= MaxContexts
        /\ bench' = [bench EXCEPT ![t].sent = @ + 1, ![t].first = FALSE, ![t].context = c]
        /\ spoke' = spoke \cup {<<c, mine>>}
    BY <1>2 DEF Talk
<1>4. Contexts' = Contexts \cup {c}
    <2> HIDE DEF mine
    <2>1. spoke' = spoke \cup {<<c, mine>>} /\ <<c, mine>>[1] = c
        BY <1>3
    <2>2. Contexts' = {pair[1] : pair \in spoke'}
        BY DEF Contexts
    <2> QED
        BY <2>1, <2>2 DEF Contexts
<1>5. /\ \A u \in Tasks \ {t} : bench'[u] = bench[u]
      /\ bench'[t].trial = bench[t].trial /\ bench'[t].context = c
    BY <1>1, <1>3 DEF Kinds, Bench
<1>6. split' = split
    BY DEF Talk
<1>7. mine = OpenedBy(t)' /\ \A u \in Tasks \ {t} : OpenedBy(u)' = OpenedBy(u)
    BY <1>5, <1>6 DEF OpenedBy
<1> HIDE DEF mine
<1>8. c # 0 /\ \/ c = n + 1
               \/ <<c, mine>> \in spoke
    <2>1. CASE bench[t].first
        BY <1>2, <1>3, <2>1 DEF Addressed
    <2>2. CASE ~ bench[t].first
        <3>1. bench[t].context # 0 /\ <<bench[t].context, mine>> \in spoke
            BY <1>1, <2>2 DEF Spoken, mine
        <3> QED
            BY <1>3, <2>2, <3>1 DEF Addressed
    <2> QED
        BY <1>1, <2>1, <2>2 DEF Bench
<1>9. \E m \in 0 .. MaxContexts : Contexts' = 1 .. m
    <2>1. CASE c = n + 1
        <3>1. n + 1 \in 0 .. MaxContexts /\ Contexts' = 1 .. n + 1
            BY <1>2, <1>3, <1>4, <2>1, EvaluatorAssumption
        <3> QED
            BY <3>1
    <2>2. CASE <<c, mine>> \in spoke
        <3>1. Contexts' = Contexts
            BY <1>4, <2>2 DEF Contexts
        <3> QED
            BY <1>2, <3>1
    <2> QED
        BY <1>8, <2>1, <2>2
<1>10. \A u \in Tasks : bench'[u].sent > 0 /\ ~ bench'[u].first =>
         bench'[u].context # 0 /\ <<bench'[u].context, OpenedBy(u)'>> \in spoke'
    <2>1. ASSUME NEW u \in Tasks \ {t}, bench'[u].sent > 0 /\ ~ bench'[u].first
          PROVE  bench'[u].context # 0 /\ <<bench'[u].context, OpenedBy(u)'>> \in spoke'
        <3>1. bench[u].context # 0 /\ <<bench[u].context, OpenedBy(u)>> \in spoke
            BY <1>5, <2>1 DEF Spoken
        <3>2. spoke \subseteq spoke' /\ bench'[u] = bench[u] /\ OpenedBy(u)' = OpenedBy(u)
            BY <1>3, <1>5, <1>7
        <3> QED
            BY <3>1, <3>2
    <2>2. bench'[t].context # 0 /\ <<bench'[t].context, OpenedBy(t)'>> \in spoke'
        <3>1. <<c, mine>> \in spoke'
            BY <1>3
        <3> QED
            BY <1>5, <1>7, <1>8, <3>1
    <2> QED
        BY <2>1, <2>2
<1>11. Spoken'
    BY <1>9, <1>10 DEF Spoken
<1>12. ASSUME NEW p \in spoke', NEW q \in spoke', p[1] = q[1]
       PROVE  p[2] = q[2]
    <2>1. CASE <<c, mine>> \in spoke
        BY <1>3, <1>12, <2>1 DEF ConversationsAreSeparate
    <2>2. CASE c = n + 1
        <3>1. \A r \in spoke : r[1] # c
            <4>1. c \notin 1 .. n
                BY <1>2, <2>2
            <4> QED
                BY <1>2, <4>1 DEF Contexts
        <3> QED
            BY <1>3, <1>12, <3>1 DEF ConversationsAreSeparate
    <2> QED
        BY <1>8, <2>1, <2>2
<1> QED
    BY <1>11, <1>12 DEF ConversationsAreSeparate

\* Every step keeps the conversations apart.
LEMMA SpokenKept ==
  ASSUME Assessments, NEW t \in Tasks,
         Refuse(t) \/ Start(t) \/ Cancel(t) \/ ReportCancel(t) \/ Run(t)
  PROVE  Spoken' /\ ConversationsAreSeparate'
<1>0. Kinds /\ Spoken /\ ConversationsAreSeparate
    BY DEF Assessments
<1>1. CASE Talk(t)
    BY <1>0, <1>1, TalkSeparate
<1>2. ASSUME spoke' = spoke,
             \A u \in Tasks : (bench'[u].sent > 0 /\ ~ bench'[u].first) =>
               bench'[u] = bench[u] /\ split'[u] = split[u]
      PROVE  Spoken' /\ ConversationsAreSeparate'
    <2>1. Contexts' = Contexts
        BY <1>2 DEF Contexts
    <2>2. \A u \in Tasks : (bench'[u].sent > 0 /\ ~ bench'[u].first) =>
            bench'[u] = bench[u] /\ OpenedBy(u)' = OpenedBy(u)
        BY <1>2 DEF OpenedBy
    <2> QED
        BY <1>0, <1>2, <2>1, <2>2 DEF Spoken, ConversationsAreSeparate
<1>3. CASE UNCHANGED <<spoke, bench, split>>
    BY <1>2, <1>3
<1>4. CASE BeginSplit(t)
    <2>1. bench'[t].sent = 0 /\ \A u \in Tasks \ {t} : bench'[u] = bench[u] /\ split'[u] = split[u]
        BY <1>0, <1>4 DEF BeginSplit, Kinds, NoBench
    <2> QED
        BY <1>2, <1>4, <2>1 DEF BeginSplit
<1>5. CASE BeginTrial(t) \/ TalkFails(t) \/ EndTrial(t)
    <2>1. bench[t] \in Bench /\ t \in DOMAIN bench
        BY <1>0 DEF Kinds
    <2>2. (bench'[t].first \/ bench'[t].sent = 0) /\ \A u \in Tasks \ {t} : bench'[u] = bench[u]
        BY <1>0, <1>5, <2>1 DEF BeginTrial, TalkFails, EndTrial, Kinds, Bench
    <2> QED
        BY <1>2, <1>5, <2>2 DEF BeginTrial, TalkFails, EndTrial
<1>6. CASE Refuse(t) \/ Start(t) \/ Cancel(t) \/ ReportCancel(t) \/ Announce(t) \/ Enter(t)
           \/ Collect(t) \/ ReportSplit(t) \/ ReportResult(t) \/ Crash(t) \/ ReportFailure(t)
           \/ Conclude(t) \/ Handle(t) \/ Finally(t)
    BY <1>3, <1>6 DEF Refuse, Start, Cancel, ReportCancel, Announce, Enter, Collect, ReportSplit,
       ReportResult, Crash, ReportFailure, Conclude, Handle, Finally
<1> QED
    BY <1>1, <1>4, <1>5, <1>6 DEF Run

-----------------------------------------------------------------------------
(* Results.                                                                *)

\* What is known of the constants and of one task.
LEMMA Facts ==
  ASSUME Kinds, NEW t \in Tasks
  PROVE  /\ Len(Splits) \in Nat /\ DOMAIN Splits = 1 .. Len(Splits) /\ Trials \in Nat
         /\ split[t] \in 0 .. Len(Splits) /\ pc[t] \in Pcs
         /\ configured[t] \subseteq ToSet(Splits)
         /\ results[t] \in Seq(ToSet(Splits)) /\ Len(results[t]) \in Nat
         /\ DOMAIN results[t] = 1 .. Len(results[t])
         /\ artifacts[t] \in Seq(Nat) /\ Len(artifacts[t]) \in Nat
         /\ DOMAIN artifacts[t] = 1 .. Len(artifacts[t])
BY EvaluatorAssumption DEF Kinds

\* A set of positions is finite.
LEMMA DoneFinite ==
  ASSUME Kinds, NEW t \in Tasks, NEW S \in SUBSET (1 .. Len(Splits))
  PROVE  IsFiniteSet(S) /\ Cardinality(S) \in Nat
<1>1. 1 \in Int /\ Len(Splits) \in Int
    BY Facts
<1>2. IsFiniteSet(1 .. Len(Splits))
    BY <1>1, FS_Interval
<1> QED
    BY <1>2, FS_Subset, FS_CardinalityType

\* A step that leaves the results alone, and the splits that are done with as long as the
\* assessment runs.
LEMMA ResultsStay ==
  ASSUME Kinds, Kinds', NEW t \in Tasks, ResultsFit(t),
         UNCHANGED <<split[t], configured[t], results[t]>>,
         pc'[t] \in {"new", "working", "entered"} => split[t] = 0,
         pc'[t] \in {"bench", "collect"} => pc'[t] = pc[t],
         pc'[t] # pc[t] /\ Running(t)' => Running(t) /\ pc[t] # "bench"
  PROVE  ResultsFit(t)'
<1>1. Reached(t) \in Int /\ Reached(t)' \in Int /\ Reached(t)' >= Reached(t)
    BY Facts DEF Reached
<1>2. \A i \in DOMAIN Splits : ResultsOf(t, Splits[i])' = ResultsOf(t, Splits[i])
    BY DEF ResultsOf
<1>3. Running(t)' => Running(t) /\ Done(t)' = Done(t)
    <2>1. Running(t)' => Running(t) /\ Reached(t)' = Reached(t)
        BY DEF Running, Reached
    <2>2. configured'[t] = configured[t]
        OBVIOUS
    <2> QED
        BY <2>1, <2>2 DEF Done
<1>4. \A i \in DOMAIN Splits :
        /\ Cardinality(ResultsOf(t, Splits[i])') \in {0, Trials}
        /\ i > Reached(t)' => ResultsOf(t, Splits[i])' = {}
    <2>1. \A i \in DOMAIN Splits : i \in Int
        BY Facts
    <2> QED
        BY <1>1, <1>2, <2>1 DEF ResultsFit
<1>5. Running(t)' => Len(results'[t]) = Trials * Cardinality(Done(t)')
    BY <1>3 DEF ResultsFit
<1>6. /\ pc'[t] \in {"new", "working", "entered"} => split'[t] = 0
      /\ pc'[t] \in {"bench", "collect"} => split'[t] # 0 /\ Splits[split'[t]] \in configured'[t]
      /\ results'[t] \in Seq(configured'[t])
    BY DEF ResultsFit
<1> QED
    BY <1>4, <1>5, <1>6 DEF ResultsFit

\* Beginning a split passes over those that were not asked for.
LEMMA ResultsBegin ==
  ASSUME Kinds, Kinds', NEW t \in Tasks, ResultsFit(t), BeginSplit(t)
  PROVE  ResultsFit(t)'
<1> DEFINE f == Following(t)
<1>1. /\ f \in 0 .. Len(Splits) /\ f # 0
      /\ f > split[t] /\ Splits[f] \in configured[t]
      /\ \A i \in 1 .. f - 1 : Splits[i] \in configured[t] => i <= split[t]
    BY FollowingFound DEF BeginSplit
<1>2. /\ split'[t] = f /\ configured' = configured /\ results' = results
      /\ pc[t] = "next" /\ pc'[t] \in {"bench", "failing"}
    BY DEF BeginSplit, Kinds, Proceed, Goto
<1> HIDE DEF f
<1>3. Reached(t) = split[t] /\ Reached(t)' >= split[t] /\ Reached(t)' \in Int
      /\ (Running(t)' => Reached(t)' = f - 1)
    BY <1>1, <1>2, Facts DEF Reached, Running
<1>4. Running(t)' => Done(t)' = Done(t)
    <2> SUFFICES ASSUME Running(t)' PROVE Done(t)' = Done(t)
        OBVIOUS
    <2>1. Done(t)' = {i \in 1 .. f - 1 : Splits[i] \in configured[t]}
        BY <1>2, <1>3 DEF Done
    <2>2. Done(t) = {i \in 1 .. split[t] : Splits[i] \in configured[t]}
        BY <1>3 DEF Done
    <2>3. split[t] \in 0 .. Len(Splits)
        BY Facts
    <2> QED
        BY <1>1, <2>1, <2>2, <2>3
<1>5. \A i \in DOMAIN Splits : ResultsOf(t, Splits[i])' = ResultsOf(t, Splits[i])
    BY <1>2 DEF ResultsOf
<1>6. \A i \in DOMAIN Splits :
        /\ Cardinality(ResultsOf(t, Splits[i])') \in {0, Trials}
        /\ i > Reached(t)' => ResultsOf(t, Splits[i])' = {}
    <2>1. \A i \in DOMAIN Splits : i \in Int
        BY Facts
    <2>2. split[t] \in Int
        BY Facts
    <2> QED
        BY <1>3, <1>5, <2>1, <2>2 DEF ResultsFit
<1>7. Running(t) /\ (Running(t)' => Len(results'[t]) = Trials * Cardinality(Done(t)'))
    BY <1>2, <1>4 DEF ResultsFit, Running
<1>8. /\ pc'[t] \in {"new", "working", "entered"} => split'[t] = 0
      /\ pc'[t] \in {"bench", "collect"} => split'[t] # 0 /\ Splits[split'[t]] \in configured'[t]
      /\ results'[t] \in Seq(configured'[t])
    BY <1>1, <1>2 DEF ResultsFit
<1> QED
    BY <1>6, <1>7, <1>8 DEF ResultsFit

\* Collecting a split adds a result for each of its trials.
LEMMA ResultsCollected ==
  ASSUME Kinds, Kinds', NEW t \in Tasks, ResultsFit(t), Collect(t)
  PROVE  ResultsFit(t)' /\ Len(results'[t]) >= Len(results[t])
<1> DEFINE s == split[t]
           old == results[t]
           n == Len(old)
           more == [i \in 1 .. Trials |-> Splits[s]]
<1>1. /\ s \in 1 .. Len(Splits) /\ DOMAIN Splits = 1 .. Len(Splits) /\ Splits[s] \in configured[t]
      /\ old \in Seq(configured[t]) /\ n \in Nat /\ Trials \in Nat /\ DOMAIN old = 1 .. n
      /\ Len(Splits) \in Nat
    BY Facts DEF Collect, ResultsFit
<1>2. /\ split' = split /\ configured' = configured /\ pc[t] = "bench" /\ pc'[t] = "collect"
      /\ results'[t] = old \o more
    BY DEF Collect, Kinds, Goto
<1>3. /\ more \in Seq(configured[t]) /\ Len(more) = Trials
      /\ \A i \in 1 .. Trials : more[i] = Splits[s]
    BY <1>1
<1>4. /\ results'[t] \in Seq(configured[t]) /\ Len(results'[t]) = n + Trials
      /\ DOMAIN results'[t] = 1 .. n + Trials
      /\ \A i \in 1 .. n + Trials : results'[t][i] = IF i <= n THEN old[i] ELSE Splits[s]
    <2> HIDE DEF more, old, n, s
    <2>0. n = Len(old)
        BY DEF n
    <2>1. old \o more \in Seq(configured[t]) /\ Len(old \o more) = n + Trials
        BY <1>1, <1>3, <2>0
    <2>2. \A i \in 1 .. n + Trials : (old \o more)[i] = IF i <= n THEN old[i] ELSE more[i - n]
        BY <1>1, <1>3, <2>0
    <2>3. \A i \in 1 .. n + Trials : i > n => i - n \in 1 .. Trials
        BY <1>1
    <2>4. \A i \in 1 .. n + Trials : (old \o more)[i] = IF i <= n THEN old[i] ELSE Splits[s]
        BY <1>1, <1>3, <2>2, <2>3
    <2>5. DOMAIN (old \o more) = 1 .. n + Trials
        BY <1>1, <1>3, <2>0
    <2> QED
        BY <1>2, <2>1, <2>4, <2>5
<1> HIDE DEF more
<1>5. Reached(t) = s - 1 /\ Reached(t)' = s
    BY <1>2 DEF Reached
<1>6. ResultsOf(t, Splits[s]) = {} /\ Cardinality(ResultsOf(t, Splits[s])') = Trials
    <2>1. ResultsOf(t, Splits[s]) = {}
        BY <1>1, <1>5 DEF ResultsFit
    <2>2. \A i \in 1 .. n : old[i] # Splits[s]
        BY <1>1, <2>1 DEF ResultsOf
    <2>3. ResultsOf(t, Splits[s])' = n + 1 .. n + Trials
        <3>1. ResultsOf(t, Splits[s])' = {i \in DOMAIN results'[t] : results'[t][i] = Splits[s]'}
            BY <1>2 DEF ResultsOf
        <3>2. ResultsOf(t, Splits[s])' = {i \in 1 .. n + Trials : results'[t][i] = Splits[s]}
            BY <1>2, <1>4, <3>1
        <3> HIDE DEF n, s, old
        <3> QED
            BY <1>1, <1>4, <2>2, <3>2
    <2>4. Cardinality(n + 1 .. n + Trials) = Trials
        <3> DEFINE a == n + 1
                   b == n + Trials
        <3>1. a \in Int /\ b \in Int
            BY <1>1
        <3> HIDE DEF a, b
        <3>2. Cardinality(a .. b) = IF a > b THEN 0 ELSE b - a + 1
            BY <3>1, FS_Interval
        <3>3. (IF a > b THEN 0 ELSE b - a + 1) = Trials
            BY <1>1 DEF a, b
        <3> QED
            BY <3>2, <3>3 DEF a, b
    <2> QED
        BY <2>1, <2>3, <2>4
<1>7. ASSUME NEW i \in DOMAIN Splits, i # s
      PROVE  ResultsOf(t, Splits[i])' = ResultsOf(t, Splits[i])
    <2>1. Splits[i] # Splits[s]
        BY <1>1, <1>7, EvaluatorAssumption
    <2>2. ResultsOf(t, Splits[i]) = {k \in 1 .. n : old[k] = Splits[i]}
        BY <1>1 DEF ResultsOf
    <2>3. ResultsOf(t, Splits[i])' = {k \in 1 .. n + Trials : results'[t][k] = Splits[i]}
        BY <1>4 DEF ResultsOf
    <2> HIDE DEF n, s, old
    <2> QED
        BY <1>1, <1>4, <2>1, <2>2, <2>3
<1>8. \A i \in DOMAIN Splits :
        /\ Cardinality(ResultsOf(t, Splits[i])') \in {0, Trials}
        /\ i > Reached(t)' => ResultsOf(t, Splits[i])' = {}
    <2>1. \A i \in DOMAIN Splits : i \in Int
        BY <1>1
    <2> QED
        <3>1. ASSUME NEW i \in DOMAIN Splits, i # s
              PROVE  /\ Cardinality(ResultsOf(t, Splits[i])') \in {0, Trials}
                     /\ i > Reached(t)' => ResultsOf(t, Splits[i])' = {}
            BY <1>1, <1>5, <1>7, <2>1, <3>1 DEF ResultsFit
        <3>2. ~ (s > Reached(t)')
            BY <1>1, <1>5
        <3>3. ASSUME NEW i \in DOMAIN Splits, i = s
              PROVE  ResultsOf(t, Splits[i])' = ResultsOf(t, Splits[s])'
            BY <1>2, <3>3 DEF ResultsOf
        <3>4. ASSUME NEW i \in DOMAIN Splits, i = s
              PROVE  Cardinality(ResultsOf(t, Splits[i])') = Trials
            BY <1>6, <3>3, <3>4
        <3> QED
            BY <3>1, <3>2, <3>4
<1>9. Running(t) /\ Len(results'[t]) = Trials * Cardinality(Done(t)')
    <2>1. Running(t) /\ n = Trials * Cardinality(Done(t))
        BY <1>2 DEF ResultsFit, Running
    <2>2. Done(t)' = Done(t) \cup {s} /\ s \notin Done(t) /\ Done(t) \subseteq 1 .. Len(Splits)
        BY <1>1, <1>2, <1>5 DEF Done
    <2>3. IsFiniteSet(Done(t)) /\ Cardinality(Done(t)) \in Nat
        BY <2>2, DoneFinite
    <2>4. Cardinality(Done(t)') = Cardinality(Done(t)) + 1
        BY <2>2, <2>3, FS_AddElement
    <2>5. ASSUME NEW a \in Nat, NEW b \in Nat PROVE a * (b + 1) = a * b + a
        OBVIOUS
    <2>6. Trials * (Cardinality(Done(t)) + 1) = Trials * Cardinality(Done(t)) + Trials
        BY <1>1, <2>3, <2>5
    <2> QED
        BY <1>4, <2>1, <2>4, <2>6
<1>10. /\ pc'[t] \in {"new", "working", "entered"} => split'[t] = 0
       /\ pc'[t] \in {"bench", "collect"} => split'[t] # 0 /\ Splits[split'[t]] \in configured'[t]
       /\ results'[t] \in Seq(configured'[t])
    BY <1>1, <1>2, <1>4
<1>11. Len(results'[t]) >= Len(results[t])
    BY <1>1, <1>4
<1> QED
    BY <1>8, <1>9, <1>10, <1>11 DEF ResultsFit

\* A step of one task leaves what is known of the results of the others.
LEMMA OtherResults ==
  ASSUME NEW u \in Tasks, ResultsFit(u),
         UNCHANGED <<pc[u], split[u], configured[u], results[u]>>
  PROVE  ResultsFit(u)'
<1>1. \A i \in DOMAIN Splits : ResultsOf(u, Splits[i])' = ResultsOf(u, Splits[i])
    BY DEF ResultsOf
<1>2. Reached(u)' = Reached(u) /\ Running(u)' = Running(u)
    BY DEF Reached, Running
<1>3. Done(u)' = Done(u)
    BY <1>2 DEF Done
<1> QED
    BY <1>1, <1>2, <1>3 DEF ResultsFit

\* A step of one task leaves the others where they are.
LEMMA OthersStay ==
  ASSUME Kinds, NEW t \in Tasks, NEW u \in Tasks, u # t,
         Refuse(t) \/ Start(t) \/ Cancel(t) \/ ReportCancel(t) \/ Run(t)
  PROVE  UNCHANGED <<pc[u], split[u], configured[u], results[u], artifacts[u]>>
<1>1. CASE BeginTrial(t) \/ Talk(t) \/ TalkFails(t) \/ EndTrial(t) \/ Cancel(t) \/ ReportCancel(t)
    BY <1>1 DEF BeginTrial, Talk, TalkFails, EndTrial, Cancel, ReportCancel
<1>2. CASE Refuse(t) \/ Start(t) \/ Announce(t) \/ Enter(t) \/ Crash(t) \/ ReportFailure(t)
           \/ Conclude(t) \/ Handle(t) \/ Finally(t)
    BY <1>2 DEF Refuse, Start, Announce, Enter, Crash, ReportFailure, Conclude, Handle, Finally,
       Goto, Kinds
<1>3. CASE BeginSplit(t) \/ Collect(t) \/ ReportSplit(t) \/ ReportResult(t)
    BY <1>3 DEF BeginSplit, Collect, ReportSplit, ReportResult, Proceed, Goto, Kinds
<1> QED
    BY <1>1, <1>2, <1>3 DEF Run

\* Every step keeps the results those of the splits that are done with, and loses none.
LEMMA ResultsKept ==
  ASSUME Assessments, Kinds', NEW t \in Tasks,
         Refuse(t) \/ Start(t) \/ Cancel(t) \/ ReportCancel(t) \/ Run(t)
  PROVE  \A u \in Tasks : ResultsFit(u)' /\ Len(results'[u]) >= Len(results[u])
<1>0. Kinds /\ \A u \in Tasks : ResultsFit(u) /\ Len(results[u]) \in Nat
    BY Facts DEF Assessments
<1>1. ASSUME NEW u \in Tasks, u # t
      PROVE  ResultsFit(u)' /\ Len(results'[u]) >= Len(results[u])
    BY <1>0, <1>1, OthersStay, OtherResults
<1>2. ResultsFit(t)' /\ Len(results'[t]) >= Len(results[t])
    <2> USE <1>0
    <2>1. CASE Collect(t)
        BY <2>1, ResultsCollected
    <2>2. CASE BeginSplit(t)
        <3>1. ResultsFit(t)'
            BY <2>2, ResultsBegin
        <3>2. Len(results[t]) >= Len(results[t])
            BY Facts
        <3> QED
            BY <2>2, <3>1, <3>2 DEF BeginSplit
    <2>3. ASSUME UNCHANGED <<split[t], configured[t], results[t]>>,
                 pc'[t] \in {"new", "working", "entered"} => split[t] = 0,
                 pc'[t] \in {"bench", "collect"} => pc'[t] = pc[t],
                 pc'[t] # pc[t] /\ Running(t)' => Running(t) /\ pc[t] # "bench"
          PROVE  ResultsFit(t)' /\ Len(results'[t]) >= Len(results[t])
        <3>1. ResultsFit(t)'
            BY <2>3, ResultsStay
        <3>2. Len(results[t]) >= Len(results[t])
            BY Facts
        <3> QED
            BY <2>3, <3>1, <3>2
    <2>4. CASE UNCHANGED <<pc, split, configured, results>>
        <3>1. UNCHANGED <<pc[t], split[t], configured[t], results[t]>>
            BY <2>4
        <3>2. ResultsFit(t)'
            BY <3>1, OtherResults
        <3>3. Len(results[t]) >= Len(results[t])
            BY Facts
        <3> QED
            BY <3>1, <3>2, <3>3
    <2>5. pc[t] \in {"new", "working", "entered"} => split[t] = 0
        BY DEF ResultsFit
    <2>6. CASE Refuse(t) \/ Start(t) \/ Announce(t) \/ Enter(t)
        BY <2>3, <2>5, <2>6 DEF Refuse, Start, Announce, Enter, Goto, Kinds, Running
    <2>7. CASE Crash(t) \/ ReportFailure(t) \/ Handle(t) \/ Finally(t)
        BY <2>3, <2>7 DEF Crash, ReportFailure, Handle, Finally, Goto, Kinds, Running
    <2>8. CASE Conclude(t) \/ ReportSplit(t) \/ ReportResult(t)
        BY <2>3, <2>8 DEF Conclude, ReportSplit, ReportResult, Proceed, Goto, Kinds, Running
    <2>9. CASE BeginTrial(t) \/ Talk(t) \/ TalkFails(t) \/ EndTrial(t) \/ Cancel(t) \/ ReportCancel(t)
        BY <2>4, <2>9 DEF BeginTrial, Talk, TalkFails, EndTrial, Cancel, ReportCancel
    <2> QED
        BY <2>1, <2>2, <2>6, <2>7, <2>8, <2>9 DEF Run
<1> QED
    BY <1>1, <1>2

-----------------------------------------------------------------------------
(* Artifacts.                                                              *)

\* When no split is left, the splits that are done with are those that were asked for.
LEMMA AllDone ==
  ASSUME Kinds, NEW t \in Tasks, pc[t] = "next", Following(t) = 0
  PROVE  Cardinality(Done(t)) = Cardinality(configured[t])
<1> DEFINE S == Done(t)
           T == configured[t]
           f == [i \in S |-> Splits[i]]
<1>1. S = {i \in DOMAIN Splits : Splits[i] \in T}
    <2>1. \A i \in DOMAIN Splits : Splits[i] \in T => i <= split[t]
        BY FollowingFound
    <2>2. Reached(t) = split[t] /\ split[t] \in 0 .. Len(Splits) /\ Len(Splits) \in Nat
          /\ DOMAIN Splits = 1 .. Len(Splits)
        BY Facts DEF Reached
    <2> QED
        BY <2>1, <2>2 DEF Done
<1>2. IsFiniteSet(S)
    <2>1. S \in SUBSET (1 .. Len(Splits))
        BY <1>1, Facts
    <2> QED
        BY <2>1, DoneFinite
<1>3. T \subseteq ToSet(Splits)
    BY Facts
<1> HIDE DEF S, T
<1>4. f \in [S -> T]
    BY <1>1
<1>5. \A x \in T : \E i \in S : f[i] = x
    BY <1>1, <1>3 DEF ToSet
<1>6. \A i, j \in S : f[i] = f[j] => i = j
    BY <1>1, EvaluatorAssumption
<1> HIDE DEF f
<1>7. f \in Surjection(S, T)
    BY <1>4, <1>5 DEF Surjection
<1>8. f \in Injection(S, T)
    BY <1>4, <1>6 DEF Injection, IsInjective
<1>9. Cardinality(T) = Cardinality(S)
    BY <1>2, <1>7, <1>8, FS_Surjection
<1> QED
    BY <1>9 DEF S, T

\* Every step keeps the artifacts in order, and the last one complete.
LEMMA ArtifactsKept ==
  ASSUME Assessments, Kinds', NEW t \in Tasks,
         Refuse(t) \/ Start(t) \/ Cancel(t) \/ ReportCancel(t) \/ Run(t)
  PROVE  \A u \in Tasks : ArtifactsFit(u)'
<1>0. /\ Kinds /\ \A u \in Tasks : ResultsFit(u) /\ ArtifactsFit(u)
      /\ \A u \in Tasks : Len(results'[u]) >= Len(results[u])
    BY ResultsKept DEF Assessments
<1>1. ASSUME NEW u \in Tasks, UNCHANGED <<configured[u], artifacts[u]>>,
             pc'[u] = "over" => pc[u] = "over"
      PROVE  ArtifactsFit(u)'
    <2>1. Len(results'[u]) >= Len(results[u]) /\ Len(results'[u]) \in Nat /\ Len(results[u]) \in Nat
          /\ \A i \in DOMAIN artifacts[u] : artifacts[u][i] \in Nat
        <3>1. results'[u] \in Seq(ToSet(Splits)) /\ artifacts[u] \in Seq(Nat)
            BY <1>0 DEF Kinds
        <3>2. Len(results'[u]) \in Nat /\ Len(results[u]) \in Nat
            BY <1>0, <3>1, Facts
        <3> QED
            BY <1>0, <3>1, <3>2
    <2>2. \A i \in DOMAIN artifacts'[u] : artifacts'[u][i] <= Len(results'[u])
        BY <1>0, <1>1, <2>1 DEF ArtifactsFit
    <2> QED
        BY <1>0, <1>1, <2>2 DEF ArtifactsFit
<1>2. CASE ReportSplit(t) \/ ReportResult(t)
    <2> DEFINE a == artifacts[t]
               n == Len(results[t])
    <2>1. /\ artifacts'[t] = Append(a, n) /\ results'[t] = results[t] /\ configured' = configured
          /\ a \in Seq(Nat) /\ n \in Nat /\ Len(a) \in Nat /\ DOMAIN a = 1 .. Len(a)
        BY <1>0, <1>2, Facts DEF ReportSplit, ReportResult, Scored, Kinds
    <2>2. /\ DOMAIN artifacts'[t] = 1 .. Len(a) + 1 /\ Last(artifacts'[t]) = n
          /\ \A i \in 1 .. Len(a) + 1 : artifacts'[t][i] = IF i <= Len(a) THEN a[i] ELSE n
        <3> HIDE DEF a, n
        <3> QED
            BY <2>1 DEF Last
    <2>3. \A i \in DOMAIN a : a[i] <= n /\ a[i] \in Nat
        BY <1>0, <2>1 DEF ArtifactsFit
    <2>4. \A i, j \in DOMAIN a : i <= j => a[i] <= a[j]
        BY <1>0 DEF ArtifactsFit
    <2>5. pc'[t] = "over" => n = Trials * Cardinality(configured[t])
        <3> SUFFICES ASSUME pc'[t] = "over" PROVE n = Trials * Cardinality(configured[t])
            OBVIOUS
        <3>1. pc[t] = "next" /\ Following(t) = 0
            BY <1>0, <1>2 DEF ReportSplit, ReportResult, Goto, Kinds
        <3>2. n = Trials * Cardinality(Done(t))
            BY <1>0, <3>1 DEF ResultsFit, Running
        <3> QED
            BY <1>0, <3>1, <3>2, AllDone
    <2> HIDE DEF a, n
    <2>6. \A i \in DOMAIN artifacts'[t] : artifacts'[t][i] <= n
        BY <2>1, <2>2, <2>3
    <2>7. \A i, j \in DOMAIN artifacts'[t] : i <= j => artifacts'[t][i] <= artifacts'[t][j]
        BY <2>1, <2>2, <2>3, <2>4
    <2>8. n = Len(results'[t])
        BY <2>1 DEF n
    <2>9. ArtifactsFit(t)'
        BY <2>1, <2>2, <2>5, <2>6, <2>7, <2>8 DEF ArtifactsFit
    <2> QED
        BY <1>0, <1>1, <2>9, OthersStay
<1>3. CASE Refuse(t) \/ Start(t) \/ Announce(t) \/ Enter(t) \/ BeginSplit(t) \/ Collect(t)
           \/ Crash(t) \/ ReportFailure(t) \/ Conclude(t) \/ Handle(t) \/ Finally(t)
    <2>1. pc'[t] # "over" /\ configured'[t] = configured[t] /\ artifacts'[t] = artifacts[t]
        BY <1>0, <1>3 DEF Refuse, Start, Announce, Enter, BeginSplit, Collect, Crash, ReportFailure,
           Conclude, Handle, Finally, Goto, Proceed, Kinds
    <2> QED
        BY <1>0, <1>1, <1>3, <2>1, OthersStay DEF Run
<1>4. CASE BeginTrial(t) \/ Talk(t) \/ TalkFails(t) \/ EndTrial(t) \/ Cancel(t) \/ ReportCancel(t)
    BY <1>1, <1>4 DEF BeginTrial, Talk, TalkFails, EndTrial, Cancel, ReportCancel
<1> QED
    BY <1>2, <1>3, <1>4 DEF Run

-----------------------------------------------------------------------------
(* The theorems.                                                           *)

\* At the start nothing has been reported and nothing said.
LEMMA AssessmentsInit == ASSUME Init PROVE Assessments
<1>1. Kinds
    BY KindsInit
<1>2. Cancelled /\ NeverCompletedAfterCancel
    BY DEF Init, Cancelled, NeverCompletedAfterCancel
<1>3. Contexts = 1 .. 0 /\ 0 \in 0 .. MaxContexts
    BY EvaluatorAssumption DEF Init, Contexts
<1>4. Spoken /\ ConversationsAreSeparate
    BY <1>3 DEF Init, Spoken, ConversationsAreSeparate, NoBench
<1>5. ASSUME NEW t \in Tasks PROVE ResultsFit(t) /\ ArtifactsFit(t)
    <2>1. pc[t] = "new" /\ split[t] = 0 /\ results[t] = <<>> /\ artifacts[t] = <<>>
        BY DEF Init
    <2>2. \A i \in DOMAIN Splits : ResultsOf(t, Splits[i]) = {}
        BY <2>1 DEF ResultsOf
    <2>3. Done(t) = {} /\ Trials * 0 = 0 /\ Cardinality({}) = 0
        <3>1. Done(t) = {}
            BY <2>1 DEF Done, Reached
        <3>2. Trials * 0 = 0
            BY EvaluatorAssumption
        <3>3. Cardinality({}) = 0
            BY FS_EmptySet
        <3> QED
            BY <3>1, <3>2, <3>3
    <2>4. Len(results[t]) = Trials * Cardinality(Done(t))
        BY <2>1, <2>3
    <2>5. ResultsFit(t)
        <3>1. results[t] \in Seq(configured[t])
            BY <2>1
        <3>2. pc[t] \notin {"bench", "collect"}
            BY <2>1
        <3>3. \A i \in DOMAIN Splits : Cardinality(ResultsOf(t, Splits[i])) = 0
            BY <2>2, <2>3
        <3> QED
            BY <2>1, <2>2, <2>4, <3>1, <3>2, <3>3 DEF ResultsFit
    <2>6. ArtifactsFit(t)
        BY <2>1 DEF ArtifactsFit
    <2> QED
        BY <2>5, <2>6
<1> QED
    BY <1>1, <1>2, <1>4, <1>5 DEF Assessments

\* Every step keeps the invariant.
LEMMA AssessmentsKept == Assessments /\ [Next]_vars => Assessments'
<1> SUFFICES ASSUME Assessments, [Next]_vars PROVE Assessments'
    OBVIOUS
<1>1. CASE Next
    <2>1. PICK t \in Tasks : Refuse(t) \/ Start(t) \/ Cancel(t) \/ ReportCancel(t) \/ Run(t)
        BY <1>1 DEF Next
    <2>2. Kinds'
        BY <2>1, KindsKept
    <2>3. Cancelled' /\ NeverCompletedAfterCancel'
        BY <2>1, CancelledKept
    <2>4. Spoken' /\ ConversationsAreSeparate'
        BY <2>1, SpokenKept
    <2>5. \A u \in Tasks : ResultsFit(u)' /\ ArtifactsFit(u)'
        BY <2>1, <2>2, ResultsKept, ArtifactsKept
    <2> QED
        BY <2>2, <2>3, <2>4, <2>5 DEF Assessments
<1>2. CASE UNCHANGED vars
    <2>1. Kinds' /\ Cancelled' /\ NeverCompletedAfterCancel' /\ ConversationsAreSeparate'
        BY <1>2 DEF vars, Assessments, Kinds, Cancelled, NeverCompletedAfterCancel,
           ConversationsAreSeparate
    <2>2. Spoken'
        BY <1>2 DEF vars, Assessments, Spoken, Contexts, OpenedBy
    <2>3. \A u \in Tasks : ResultsFit(u)'
        BY <1>2, OtherResults DEF vars, Assessments
    <2>4. \A u \in Tasks : ArtifactsFit(u)'
        BY <1>2 DEF vars, Assessments, ArtifactsFit
    <2> QED
        BY <2>1, <2>2, <2>3, <2>4 DEF Assessments
<1> QED
    BY <1>1, <1>2

\* An assessment is a state machine that keeps its books: every variable has its type, the
\* event of a cancellation is set before anyone is told, the contexts of the agent under test
\* are counted up, and the results are those of the splits that are done with.
THEOREM AssessmentsAlways == Spec => []Assessments
<1>1. Init => Assessments
    BY AssessmentsInit
<1> QED
    BY <1>1, AssessmentsKept, PTL DEF Spec

\* The types that a run of the evaluator checks hold for any tasks, splits, trials and turns.
THEOREM EvaluatorTypes == Spec => []TypeOK
<1>1. Assessments => TypeOK
    <2> SUFFICES ASSUME Assessments PROVE TypeOK
        OBVIOUS
    <2>1. Kinds
        BY DEF Assessments
    <2>2. ASSUME NEW t \in Tasks, NEW s \in configured[t]
          PROVE  Cardinality(ResultsOf(t, s)) \in {0, Trials}
        <3>1. PICK i \in DOMAIN Splits : Splits[i] = s
            BY <2>1, Facts DEF ToSet
        <3> QED
            BY <3>1 DEF Assessments, ResultsFit
    <2>3. \A t \in Tasks : results[t] \in Seq(configured[t])
        BY DEF Assessments, ResultsFit
    <2> QED
        BY <2>1, <2>2, <2>3 DEF TypeOK, Kinds, Pcs, Bench
<1> QED
    BY <1>1, AssessmentsAlways, PTL

\* Whoever was told that an assessment is canceled is never told that it is complete, for any
\* number of tasks, of cancels and of splits, and with either kind of updater (execute, cancel).
THEOREM NeverCompletedAlways == Spec => []NeverCompletedAfterCancel
<1>1. Assessments => NeverCompletedAfterCancel
    BY DEF Assessments
<1> QED
    BY <1>1, AssessmentsAlways, PTL

\* No two trials share a conversation with the agent under test, for any number of
\* assessments, trials and turns (RemoteA2AAgent).
THEOREM SeparateAlways == Spec => []ConversationsAreSeparate
<1>1. Assessments => ConversationsAreSeparate
    BY DEF Assessments
<1> QED
    BY <1>1, AssessmentsAlways, PTL

\* The artifacts of an assessment grow, and the final one holds a result for each trial of
\* each split that was asked for, for any list of splits without repetition (run_eval).
THEOREM ArtifactsAlways == Spec => []ArtifactsAddUp
<1>1. Assessments => ArtifactsAddUp
    BY DEF Assessments, ArtifactsFit, ArtifactsAddUp
<1> QED
    BY <1>1, AssessmentsAlways, PTL
=============================================================================
