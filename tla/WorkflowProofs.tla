--------------------------- MODULE WorkflowProofs ---------------------------
(***************************************************************************)
(* Proofs about Workflow, for any tables of workflows that are well formed *)
(* (Tabled).                                                               *)
(*                                                                         *)
(* The invariant is Walking: a bundle of which no call has been sent is    *)
(* the one that the walk stands at.  The lemmas about the walk say that it *)
(* always has an end, and that every step before the end lets pass.        *)
(***************************************************************************)
EXTENDS Workflow, FiniteSetTheorems, WellFoundedInduction, TLAPS

\* What may be known of a thing, and of all of them.
AnyValue == (UNION {Values[t] : t \in DOMAIN Values}) \cup {None}

Knowledge == {v \in [DOMAIN Values -> AnyValue] :
                \A t \in DOMAIN Values : v[t] \in Values[t] \cup {None}}

\* A sequence of well-formed steps.
Workflows(r, walk) == walk \in Seq({walk[i] : i \in DOMAIN walk}) /\ Table(r, walk)

\* The workflows are such sequences, whatever is known and whatever is done.
Tabled ==
  \A r \in Requests :
    /\ Workflows(r, Closing(r))
    /\ \A v \in Knowledge, d \in SUBSET Goals(r) : Workflows(r, Steps(r, v, d))

-----------------------------------------------------------------------------
(* The smallest of some numbers.                                           *)

\* A set of natural numbers that is not empty has a smallest one.
LEMMA Smallest ==
  ASSUME NEW S \in SUBSET Nat, S # {}
  PROVE  \E x \in S : \A y \in S : x <= y
<1>1. PICK k \in S : TRUE
    OBVIOUS
<1> DEFINE N == 1 .. k
           T == {1 .. x : x \in S \cap 0 .. k}
<1>2. k \in Nat /\ IsFiniteSet(N)
    <2>1. k \in Int /\ 1 \in Int
        OBVIOUS
    <2>2. IsFiniteSet(1 .. k)
        BY <2>1, FS_Interval
    <2> QED
        BY <2>2
<1>3. T \subseteq SUBSET N /\ T # {}
    BY <1>2
<1>4. SUBSET N = FiniteSubsetsOf(N)
    BY <1>2, FS_FiniteSubsetsOfFinite
<1>5. IsWellFoundedOn(StrictSubsetOrdering(N), FiniteSubsetsOf(N))
    BY FS_StrictSubsetOrderingWellFounded
<1>6. \E X \in T : \A Y \in T : ~ (<<Y, X>> \in StrictSubsetOrdering(N))
    <2> HIDE DEF T, N
    <2> QED
        BY <1>3, <1>4, <1>5, WFMin
<1>7. PICK x \in S \cap 0 .. k : \A Y \in T : ~ (<<Y, 1 .. x>> \in StrictSubsetOrdering(N))
    BY <1>6
<1>8. \A y \in S : x <= y
    <2> SUFFICES ASSUME NEW y \in S, y < x PROVE FALSE
        OBVIOUS
    <2>1. 1 .. y \in T /\ 1 .. x \in SUBSET N /\ 1 .. y \in SUBSET N
        BY <1>2
    <2>2. 1 .. y \subseteq 1 .. x /\ x \in 1 .. x /\ x \notin 1 .. y
        OBVIOUS
    <2>3. <<1 .. y, 1 .. x>> \in StrictSubsetOrdering(N)
        <3> HIDE DEF N
        <3> QED
            BY <2>1, <2>2 DEF StrictSubsetOrdering
    <2> QED
        BY <1>7, <2>1, <2>3
<1> QED
    BY <1>8

-----------------------------------------------------------------------------
(* The walk.                                                               *)

\* A walk has its last step at the answer, and all its steps are well formed.
LEMMA WalkEnds ==
  ASSUME Tabled, request \in Requests, DOMAIN done \subseteq Goals(request),
         NEW v \in Knowledge
  PROVE  /\ Walk(v) \in Seq({Walk(v)[i] : i \in DOMAIN Walk(v)})
         /\ Len(Walk(v)) \in Nat \ {0}
         /\ Walk(v)[Len(Walk(v))].kind = "reply"
         /\ \A i \in 1 .. Len(Walk(v)) : WellFormed(request, Walk(v)[i])
<1>1. PICK steps : steps = IF Goals(request) \subseteq DOMAIN done THEN Closing(request)
                           ELSE Steps(request, v, DOMAIN done)
    OBVIOUS
<1> DEFINE last == [kind |-> "reply", of |-> {"done"}]
           S == {steps[i] : i \in DOMAIN steps} \cup {last}
<1>2. Workflows(request, steps)
    BY <1>1 DEF Tabled
<1>3. Walk(v) = steps \o <<last>>
    BY <1>1 DEF Walk, Reply
<1>4. steps \in Seq(S)
    BY <1>2 DEF Workflows
<1>5. WellFormed(request, last)
    BY DEF WellFormed, Answers, Gathers
<1>6. \A i \in DOMAIN steps : WellFormed(request, steps[i])
    BY <1>2 DEF Workflows, Table
<1> HIDE DEF S
<1>7. last \in S
    BY DEF S
<1> HIDE DEF last
<1>8. PICK r : r = Walk(v)
    OBVIOUS
<1>9. r = steps \o <<last>>
    BY <1>3, <1>8
<1>10. r \in Seq(S) /\ Len(r) = Len(steps) + 1 /\ Len(steps) \in Nat
    BY <1>4, <1>7, <1>9
<1>11. r[Len(r)] = last
    BY <1>4, <1>7, <1>9, <1>10
<1>12. \A i \in 1 .. Len(steps) : r[i] = steps[i]
    BY <1>4, <1>7, <1>9
<1>13. DOMAIN steps = 1 .. Len(steps) /\ DOMAIN r = 1 .. Len(r)
    BY <1>4, <1>10
<1>14. \A i \in 1 .. Len(r) : WellFormed(request, r[i])
    BY <1>5, <1>6, <1>10, <1>11, <1>12, <1>13
<1>15. last.kind = "reply"
    BY DEF last
<1>16. r \in Seq({r[i] : i \in DOMAIN r})
    BY <1>10, <1>13
<1> QED
    BY <1>8, <1>10, <1>11, <1>14, <1>15, <1>16

\* A walk ends at the first step that does not let pass: the steps before it let pass,
\* and all of them are well formed.
LEMMA WalkedEnds ==
  ASSUME Tabled, request \in Requests, DOMAIN done \subseteq Goals(request),
         NEW v \in Knowledge, NEW w, w = Walked(v)
  PROVE  /\ DOMAIN w = 1 .. Len(w) /\ Len(w) \in Nat \ {0}
         /\ \A i \in 1 .. Len(w) : WellFormed(request, w[i])
         /\ \A i \in 1 .. Len(w) : i # Len(w) => ~ Blocks(w[i], v)
         /\ Blocks(Here(w), v)
         /\ WellFormed(request, Here(w))
<1>1. PICK r, S : r = Walk(v) /\ S = {r[i] : i \in DOMAIN r}
    OBVIOUS
<1>2. /\ r \in Seq(S) /\ Len(r) \in Nat \ {0} /\ r[Len(r)].kind = "reply"
      /\ \A i \in 1 .. Len(r) : WellFormed(request, r[i])
    BY <1>1, WalkEnds
<1> DEFINE blocking == {i \in DOMAIN r : Blocks(r[i], v)}
<1>3. DOMAIN r = 1 .. Len(r)
    BY <1>2
<1>4. Len(r) \in blocking
    BY <1>2, <1>3 DEF Blocks
<1>5. blocking \in SUBSET Nat
    BY <1>2, <1>3
<1>6. PICK b : b = CHOOSE i \in blocking : \A j \in blocking : i <= j
    OBVIOUS
<1>7. w = SubSeq(r, 1, b)
    BY <1>1, <1>6 DEF Walked
<1>8. b \in blocking /\ \A j \in blocking : b <= j
    <2>1. \E i \in blocking : \A j \in blocking : i <= j
        <3> HIDE DEF blocking
        <3> QED
            BY <1>4, <1>5, Smallest
    <2> HIDE DEF blocking
    <2> QED
        BY <1>6, <2>1
<1>9. b \in 1 .. Len(r) /\ Blocks(r[b], v) /\ \A j \in 1 .. Len(r) : j < b => ~ Blocks(r[j], v)
    BY <1>2, <1>3, <1>8
<1> HIDE DEF blocking
<1>10. b \in Nat /\ 1 <= b /\ b <= Len(r)
    BY <1>2, <1>9
<1>11. w \in Seq(S) /\ Len(w) = b /\ \A i \in 1 .. b : w[i] = r[i]
    BY <1>2, <1>7, <1>10
<1>12. Len(w) \in Nat \ {0} /\ DOMAIN w = 1 .. Len(w)
    BY <1>10, <1>11
<1>13. Here(w) = r[b]
    BY <1>10, <1>11 DEF Here
<1>14. \A i \in 1 .. Len(w) : i \in 1 .. Len(r) /\ w[i] = r[i]
    BY <1>2, <1>10, <1>11
<1>15. \A i \in 1 .. Len(w) : WellFormed(request, w[i])
    BY <1>2, <1>14
<1>16. \A i \in 1 .. Len(w) : i # Len(w) => ~ Blocks(w[i], v)
    BY <1>9, <1>10, <1>11, <1>14
<1> QED
    BY <1>2, <1>9, <1>12, <1>13, <1>15, <1>16

-----------------------------------------------------------------------------
(* The invariant.                                                          *)

\* Evidence is of a thing, has one of its values, and was found at a version that the
\* state has had, with arguments for all that its read depends on.
Evidence(k, last) ==
  \A t \in DOMAIN k : /\ t \in DOMAIN Values /\ k[t].value \in Values[t]
                      /\ k[t].version \in 0 .. last
                      /\ DOMAIN k[t].args = Parents(t)

\* No read was made more often than the budget allows.
Bounded(bag) == \A c \in DOMAIN bag : bag[c] \in 1 .. MaxGets

\* What the session can wait for.
Awaits(r, w) ==
  \/ w = <<>>
  \/ w[1] \in {"reads", "answer"} /\ w[2] \subseteq DOMAIN Values
  \/ /\ w[1] \in {"confirm", "calls", "result"}
     /\ w[3] \in 1 .. Len(w[2]) /\ w[4] \subseteq Goals(r)

Kinds ==
  /\ request \in Requests \cup {None}
  /\ count \in 0 .. MaxRequests /\ version \in Nat
  /\ Evidence(know, version)
  /\ Bounded(gets)
  /\ request # None => DOMAIN done \subseteq Goals(request)
  /\ Awaits(request, wait)
  /\ said \in Answers \cup {None}

\* The session waits for the sake of a request, and not when its turn has ended.
Serving == wait # <<>> => request # None /\ said = None

\* A bundle of which no call was sent.
Unsent == wait # <<>> /\ (wait[1] = "confirm" \/ (wait[1] = "calls" /\ wait[3] = 1))

\* A bundle of which no call was sent is where the walk stands.
AtBundle == Unsent => Here(Walked(Known)).kind = "do"

Walking == Kinds /\ Serving /\ AtBundle

\* What is known of a thing is one of its values, or nothing.
LEMMA KnownIsKnowledge ==
  ASSUME Kinds
  PROVE  Known \in Knowledge
<1>1. \A t \in DOMAIN Values : Current(t) => know[t].value \in Values[t]
    BY DEF Kinds, Evidence, Current
<1>2. \A t \in DOMAIN Values : Known[t] \in Values[t] \cup {None}
    BY <1>1 DEF Known
<1>3. \A t \in DOMAIN Values : Values[t] \cup {None} \subseteq AnyValue
    BY DEF AnyValue
<1>4. \A t \in DOMAIN Values : Known[t] \in AnyValue
    BY <1>2, <1>3
<1>5. Known \in [DOMAIN Values -> AnyValue]
    BY <1>4 DEF Known
<1> QED
    BY <1>2, <1>5 DEF Knowledge

\* The invariant has the types that the runs check.
LEMMA KindsAreTypes ==
  ASSUME Tabled, Kinds, Serving
  PROVE  TypeOK
<1>1. ASSUME request # None PROVE Table(request, Walk(Known))
    <2>1. PICK r : r = Walk(Known)
        OBVIOUS
    <2>2. /\ r \in Seq({r[i] : i \in DOMAIN r})
          /\ \A i \in 1 .. Len(r) : WellFormed(request, r[i])
        BY <1>1, <2>1, KnownIsKnowledge, WalkEnds DEF Kinds
    <2>3. DOMAIN r = 1 .. Len(r)
        BY <2>2
    <2> QED
        BY <2>1, <2>2, <2>3 DEF Table
<1> QED
    BY <1>1 DEF Kinds, Serving, TypeOK, Evidence, Bounded, Awaits

\* The arguments of a read are for the things it depends on.
LEMMA ArgumentsFor == ASSUME NEW t, NEW v PROVE DOMAIN Arguments(t, v) = Parents(t)
BY DEF Arguments

\* What is learnt is evidence.
LEMMA Learns ==
  ASSUME Evidence(know, version), version \in Nat, NEW got, Learn(got),
         \A t \in DOMAIN got : t \in DOMAIN Values /\ got[t] \in Values[t]
  PROVE  Evidence(know', version)
<1>1. PICK v : know' = [t \in DOMAIN know \cup DOMAIN got |->
          IF t \in DOMAIN got
          THEN [value |-> got[t], version |-> version, args |-> Arguments(t, v)]
          ELSE know[t]]
    BY DEF Learn
<1>2. \A t : DOMAIN Arguments(t, v) = Parents(t)
    BY ArgumentsFor
<1> QED
    BY <1>1, <1>2 DEF Evidence

\* At the start everything has its type.
LEMMA WalkingInit == ASSUME Init PROVE Walking
<1>1. Kinds
    BY WorkflowAssumption
       DEF Init, Kinds, Evidence, Bounded, Awaits, Nothing, EmptyBag, SetToBag
<1>2. wait = <<>>
    BY DEF Init
<1> QED
    BY <1>1, <1>2 DEF Walking, Serving, AtBundle, Unsent

-----------------------------------------------------------------------------
(* The steps.                                                              *)

\* Evidence that is taken over, or that stands while the state changes, is evidence.
LEMMA EvidenceKept ==
  ASSUME NEW k, NEW n \in Nat, Evidence(k, n)
  PROVE  /\ Evidence(k, n + 1)
         /\ \A T : Evidence([t \in T \cap DOMAIN k |-> k[t]], n)
<1>1. \A t \in DOMAIN k : k[t].version \in 0 .. n => k[t].version \in 0 .. n + 1
    OBVIOUS
<1> QED
    BY <1>1 DEF Evidence

\* A request that begins keeps the types.
LEMMA BeginKeepsKinds ==
  ASSUME Kinds, NEW r \in Requests, Begin(r)
  PROVE  Kinds'
<1>1. Evidence(know', version')
    BY EvidenceKept DEF Kinds, Begin
<1>2. count' \in 0 .. MaxRequests
    BY WorkflowAssumption DEF Kinds, Begin
<1>3. DOMAIN done' \subseteq Goals(request')
    BY DEF Begin, Nothing
<1> QED
    BY <1>1, <1>2, <1>3 DEF Kinds, Begin, Awaits

\* Counting reads that the budget allows keeps their counts within it.
LEMMA CountedWithinBudget ==
  ASSUME Bounded(gets), NEW calls, WithinBudget(calls), gets' = Counted(calls)
  PROVE  Bounded(gets')
<1>1. MaxGets \in Nat
    BY WorkflowAssumption
<1>2. DOMAIN gets' = DOMAIN gets \cup calls
    BY DEF Counted, SetToBag, (+)
<1>3. \A c \in DOMAIN gets' :
        gets'[c] = (IF c \in DOMAIN gets THEN gets[c] ELSE 0) + (IF c \in calls THEN 1 ELSE 0)
    BY DEF Counted, SetToBag, (+)
<1>4. \A c \in calls : (IF c \in DOMAIN gets THEN gets[c] ELSE 0) < MaxGets
    BY DEF WithinBudget, BagIn, BagToSet
<1>5. \A c \in DOMAIN gets : gets[c] \in 1 .. MaxGets
    BY DEF Bounded
<1>6. ASSUME NEW c \in DOMAIN gets' PROVE gets'[c] \in 1 .. MaxGets
    <2>1. CASE c \in calls
        <3>1. gets'[c] = (IF c \in DOMAIN gets THEN gets[c] ELSE 0) + 1
            BY <1>3, <2>1
        <3> QED
            BY <1>1, <1>4, <1>5, <2>1, <3>1
    <2>2. CASE c \notin calls
        <3>1. c \in DOMAIN gets /\ gets'[c] = gets[c] + 0
            BY <1>2, <1>3, <2>2
        <3> QED
            BY <1>1, <1>5, <3>1
    <2> QED
        BY <2>1, <2>2
<1> QED
    BY <1>6 DEF Bounded

\* Planning keeps the types.
LEMMA PlanKeepsKinds ==
  ASSUME Tabled, Kinds, Plan
  PROVE  Kinds'
<1>1. Known \in Knowledge /\ request \in Requests /\ DOMAIN done \subseteq Goals(request)
    BY KnownIsKnowledge DEF Kinds, Plan, Planning
<1>2. PICK walked : /\ walked = Walked(Known)
                    /\ \/ PlanLimits(walked) \/ PlanFinds(walked) \/ PlanReads(walked)
                       \/ PlanAsks(walked) \/ PlanReplies(walked) \/ PlanCalls(walked)
    BY DEF Plan
<1>3. WellFormed(request, Here(walked))
    BY <1>1, <1>2, WalkedEnds
<1>4. CASE PlanLimits(walked)
    BY <1>4 DEF PlanLimits, Say, Kinds, Awaits, Answers
<1>5. CASE PlanFinds(walked)
    <2>1. PICK t \in Here(walked).of : \E val \in Values[t] : Learn([n \in {t} |-> val])
        BY <1>5 DEF PlanFinds
    <2>2. PICK val \in Values[t] : Learn([n \in {t} |-> val])
        BY <2>1
    <2>3. t \in DOMAIN Values
        BY <1>3, <1>5 DEF PlanFinds, WellFormed, Gathers
    <2>4. Evidence(know', version)
        BY <2>2, <2>3, Learns DEF Kinds
    <2> QED
        BY <1>5, <2>4 DEF PlanFinds, Kinds
<1>6. CASE PlanReads(walked)
    <2>1. Here(walked).of \subseteq DOMAIN Values
        BY <1>3, <1>6 DEF PlanReads, WellFormed, Gathers
    <2>2. Awaits(request, wait')
        BY <1>6, <2>1 DEF PlanReads, Awaits, Missing
    <2>3. Bounded(gets')
        BY <1>6, CountedWithinBudget DEF PlanReads, Kinds
    <2> QED
        BY <1>6, <2>2, <2>3 DEF PlanReads, Kinds
<1>7. CASE PlanAsks(walked)
    BY <1>3, <1>7 DEF PlanAsks, Kinds, Awaits, WellFormed, Gathers
<1>8. CASE PlanReplies(walked)
    BY <1>3, <1>8 DEF PlanReplies, Say, Kinds, Awaits, WellFormed
<1>9. CASE PlanCalls(walked)
    <2>1. Len(Here(walked).of) \in Nat \ {0} /\ Here(walked).goals \subseteq Goals(request)
        BY <1>3, <1>9 DEF PlanCalls, WellFormed
    <2>2. Awaits(request, wait')
        BY <1>9, <2>1 DEF PlanCalls, Awaits
    <2>3. Bounded(gets')
        BY <1>9 DEF PlanCalls, Renewed, Kinds, Bounded
    <2> QED
        BY <1>9, <2>2, <2>3 DEF PlanCalls, Kinds
<1> QED
    BY <1>2, <1>4, <1>5, <1>6, <1>7, <1>8, <1>9

\* The answers keep the types.
LEMMA AnswerKeepsKinds ==
  ASSUME Kinds, Serving, Answer
  PROVE  Kinds'
<1>1. CASE ReadsReturn
    <2>1. wait[2] \subseteq DOMAIN Values
        BY <1>1 DEF ReadsReturn, Waits, Kinds, Awaits
    <2>2. PICK things \in SUBSET wait[2] :
            \E got \in [things -> UNION {Values[t] : t \in things}] :
              (\A t \in things : got[t] \in Values[t]) /\ Learn(got)
        BY <1>1 DEF ReadsReturn
    <2>3. PICK got \in [things -> UNION {Values[t] : t \in things}] :
            (\A t \in things : got[t] \in Values[t]) /\ Learn(got)
        BY <2>2
    <2>4. DOMAIN got = things
        OBVIOUS
    <2>5. Evidence(know', version)
        BY <2>1, <2>3, <2>4, Learns DEF Kinds
    <2> QED
        BY <1>1, <2>5 DEF ReadsReturn, Kinds, Awaits
<1>2. CASE UserAnswers
    <2>1. wait[2] \subseteq DOMAIN Values
        BY <1>2 DEF UserAnswers, Waits, Kinds, Awaits
    <2>2. PICK t \in wait[2] : \E val \in Values[t] : Learn([n \in {t} |-> val])
        BY <1>2 DEF UserAnswers
    <2>3. PICK val \in Values[t] : Learn([n \in {t} |-> val])
        BY <2>2
    <2>4. Evidence(know', version)
        BY <2>1, <2>3, Learns DEF Kinds
    <2> QED
        BY <1>2, <2>4 DEF UserAnswers, Kinds, Awaits
<1>3. CASE UserDeclines
    BY <1>3 DEF UserDeclines, Say, Kinds, Awaits, Answers
<1>4. CASE UserConfirms
    <2>1. wait[3] \in 1 .. Len(wait[2]) /\ wait[4] \subseteq Goals(request)
        BY <1>4 DEF UserConfirms, Waits, Kinds, Awaits
    <2>2. 1 \in 1 .. Len(wait[2])
        BY <2>1
    <2>3. Awaits(request, wait')
        BY <1>4, <2>1, <2>2 DEF UserConfirms, Awaits
    <2> QED
        BY <1>4, <2>3 DEF UserConfirms, Kinds
<1>5. CASE CallSent
    <2>1. wait[3] \in 1 .. Len(wait[2]) /\ wait[4] \subseteq Goals(request)
        BY <1>5 DEF CallSent, Waits, Kinds, Awaits
    <2> QED
        BY <1>5, <2>1 DEF CallSent, Kinds, Awaits
<1>6. CASE CallSucceeds
    <2>1. wait[3] \in 1 .. Len(wait[2]) /\ wait[4] \subseteq Goals(request)
        BY <1>6 DEF CallSucceeds, Waits, Kinds, Awaits
    <2>2. wait[3] < Len(wait[2]) => wait[3] + 1 \in 1 .. Len(wait[2])
        BY <2>1
    <2>3. Awaits(request, wait')
        BY <1>6, <2>1, <2>2 DEF CallSucceeds, Awaits
    <2>4. Evidence(know', version') /\ version' \in Nat
        BY <1>6, EvidenceKept DEF CallSucceeds, Kinds
    <2>5. DOMAIN done' \subseteq Goals(request)
        BY <1>6, <2>1 DEF CallSucceeds, Waits, Serving, Kinds
    <2> QED
        BY <1>6, <2>3, <2>4, <2>5 DEF CallSucceeds, Kinds, Awaits
<1>7. CASE CallFails
    <2>1. Evidence(know', version') /\ version' \in Nat
        BY <1>7, EvidenceKept DEF CallFails, Kinds
    <2> QED
        BY <1>7, <2>1 DEF CallFails, Say, Kinds, Awaits, Answers
<1> QED
    BY <1>1, <1>2, <1>3, <1>4, <1>5, <1>6, <1>7 DEF Answer

\* The walk depends on the request, on what is known and on what is done.
LEMMA SameWalk ==
  ASSUME UNCHANGED <<request, know, version, done>>
  PROVE  Walked(Known)' = Walked(Known)
<1>1. request' = request /\ know' = know /\ version' = version /\ done' = done
    OBVIOUS
<1> QED
    BY <1>1 DEF Walked, Walk, Blocks, Usable, Current, Arguments, Known

\* Every step keeps the types, and waiting for the sake of a request.
LEMMA NextKeepsKinds ==
  ASSUME Tabled, Kinds, Serving, [Next]_vars
  PROVE  Kinds' /\ Serving'
<1>1. CASE Plan
    <2>1. Kinds'
        BY <1>1, PlanKeepsKinds
    <2>2. PICK walked : \/ PlanLimits(walked) \/ PlanFinds(walked) \/ PlanReads(walked)
                        \/ PlanAsks(walked) \/ PlanReplies(walked) \/ PlanCalls(walked)
        BY <1>1 DEF Plan
    <2>3. Serving'
        BY <1>1, <2>2 DEF Serving, Plan, Planning, PlanLimits, PlanFinds, PlanReads, PlanAsks,
                          PlanReplies, PlanCalls, Say
    <2> QED
        BY <2>1, <2>3
<1>2. CASE Answer
    <2>1. Kinds'
        BY <1>2, AnswerKeepsKinds
    <2>2. Serving'
        BY <1>2 DEF Serving, Answer, ReadsReturn, UserAnswers, UserDeclines, UserConfirms,
                    CallSent, CallSucceeds, CallFails, Say, Waits
    <2> QED
        BY <2>1, <2>2
<1>3. CASE OtherChange
    <2>1. Evidence(know', version') /\ version' \in Nat
        BY <1>3, EvidenceKept DEF OtherChange, Kinds
    <2> QED
        BY <1>3, <2>1 DEF OtherChange, Kinds, Serving
<1>4. CASE \E r \in Requests : Begin(r)
    <2>1. PICK r \in Requests : Begin(r)
        BY <1>4
    <2>2. Kinds'
        BY <2>1, BeginKeepsKinds
    <2> QED
        BY <2>1, <2>2 DEF Begin, Serving
<1>5. CASE UNCHANGED vars
    BY <1>5 DEF vars, Kinds, Serving
<1> QED
    BY <1>1, <1>2, <1>3, <1>4, <1>5 DEF Next

\* A bundle comes to wait where the walk stands at it, and until its first call is sent
\* nothing changes that the walk depends on.
LEMMA NextKeepsAtBundle ==
  ASSUME Kinds, Serving, AtBundle, [Next]_vars
  PROVE  AtBundle'
<1> SUFFICES ASSUME Unsent'
             PROVE  (Here(Walked(Known)).kind = "do")'
    BY DEF AtBundle
<1>1. wait' # <<>> /\ (wait'[1] = "confirm" \/ (wait'[1] = "calls" /\ wait'[3] = 1))
    BY DEF Unsent
<1>2. CASE Plan
    <2>1. PICK walked : /\ walked = Walked(Known)
                        /\ \/ PlanLimits(walked) \/ PlanFinds(walked) \/ PlanReads(walked)
                           \/ PlanAsks(walked) \/ PlanReplies(walked) \/ PlanCalls(walked)
        BY <1>2 DEF Plan
    <2>2. PlanCalls(walked)
        BY <1>1, <1>2, <2>1 DEF Plan, Planning, PlanLimits, PlanFinds, PlanReads, PlanAsks,
                                PlanReplies, Say
    <2>3. Walked(Known)' = walked
        BY <2>1, <2>2, SameWalk DEF PlanCalls
    <2>4. Here(walked).kind = "do"
        BY <2>2 DEF PlanCalls
    <2> QED
        BY <2>3, <2>4 DEF Here
<1>3. CASE Answer
    <2>1. UserConfirms
        <3>1. ~ CallSucceeds
            <4> SUFFICES ASSUME CallSucceeds PROVE FALSE
                OBVIOUS
            <4>1. wait[3] \in 1 .. Len(wait[2])
                BY DEF CallSucceeds, Waits, Kinds, Awaits
            <4>2. wait' = <<"calls", wait[2], wait[3] + 1, wait[4]>>
                BY <1>1 DEF CallSucceeds
            <4>3. wait'[1] = "calls" /\ wait'[3] = wait[3] + 1
                BY <4>2
            <4> QED
                BY <1>1, <4>1, <4>3
        <3>2. ~ ReadsReturn /\ ~ UserAnswers /\ ~ UserDeclines /\ ~ CallFails
            BY <1>1 DEF ReadsReturn, UserAnswers, UserDeclines, CallFails, Say
        <3>3. ~ CallSent
            BY <1>1 DEF CallSent
        <3> QED
            BY <1>3, <3>1, <3>2, <3>3 DEF Answer
    <2>2. Unsent
        BY <2>1 DEF UserConfirms, Waits, Unsent
    <2>3. Walked(Known)' = Walked(Known)
        BY <2>1, SameWalk DEF UserConfirms
    <2> QED
        BY <2>2, <2>3 DEF AtBundle, Here
<1>4. CASE OtherChange
    BY <1>1, <1>4 DEF OtherChange, Serving
<1>5. CASE \E r \in Requests : Begin(r)
    BY <1>1, <1>5 DEF Begin
<1>6. CASE UNCHANGED vars
    <2>1. Walked(Known)' = Walked(Known) /\ wait' = wait /\ Unsent
        BY <1>6, SameWalk DEF vars, Unsent
    <2> QED
        BY <2>1 DEF AtBundle, Here
<1> QED
    BY <1>2, <1>3, <1>4, <1>5, <1>6 DEF Next

-----------------------------------------------------------------------------
(* The theorems.                                                           *)

\* The invariant holds always, whatever the workflows are.
THEOREM WalkingAlways == ASSUME Tabled PROVE Spec => []Walking
<1>1. Init => Walking
    BY WalkingInit
<1>2. Walking /\ [Next]_vars => Walking'
    BY NextKeepsKinds, NextKeepsAtBundle DEF Walking
<1> QED
    BY <1>1, <1>2, PTL DEF Spec

\* Everything has its type: requests, evidence, counts, what waits and what is said.
THEOREM WorkflowTypes == ASSUME Tabled PROVE Spec => []TypeOK
<1>1. Walking => TypeOK
    BY KindsAreTypes DEF Walking
<1> QED
    BY <1>1, WalkingAlways, PTL

\* A bundle of which a call is about to be sent has passed every reading of its walk.
LEMMA SendsAtBundle ==
  ASSUME Tabled, Walking, FirstCallSent
  PROVE  LET walked == Walked(Known)
         IN \A i \in DOMAIN walked : walked[i].kind = "fetch" =>
              WellFormed(request, walked[i]) /\ ~ Blocks(walked[i], Known)
<1>1. PICK w : w = Walked(Known)
    OBVIOUS
<1>2. Unsent
    BY DEF FirstCallSent, CallSent, Waits, Unsent
<1>3. Here(w).kind = "do"
    BY <1>1, <1>2 DEF Walking, AtBundle
<1>4. Known \in Knowledge /\ request \in Requests /\ DOMAIN done \subseteq Goals(request)
    BY <1>2, KnownIsKnowledge DEF Walking, Kinds, Serving, Unsent
<1>5. /\ DOMAIN w = 1 .. Len(w)
      /\ \A i \in 1 .. Len(w) : WellFormed(request, w[i])
      /\ \A i \in 1 .. Len(w) : i # Len(w) => ~ Blocks(w[i], Known)
    BY <1>1, <1>4, WalkedEnds
<1>6. w[Len(w)].kind = "do"
    BY <1>3 DEF Here
<1>7. \A i \in DOMAIN w : w[i].kind = "fetch" =>
        WellFormed(request, w[i]) /\ ~ Blocks(w[i], Known)
    BY <1>5, <1>6
<1> QED
    BY <1>1, <1>7

\* A bundle is sent on readings of the state that the car is in, made with the arguments
\* that the question has by now, for any workflows in which nothing is read that the user
\* says.
THEOREM PresentReadings == ASSUME Tabled PROVE Spec => SentOnPresentReadings
<1> DEFINE walked == Walked(Known)
           present == \A i \in DOMAIN walked : walked[i].kind = "fetch" =>
                        \A t \in walked[i].of :
                          /\ t \in DOMAIN know /\ know[t].version = version
                          /\ know[t].args = Arguments(t, Known)
<1>1. ASSUME Walking, FirstCallSent PROVE present
    <2>1. \A i \in DOMAIN walked : walked[i].kind = "fetch" =>
            WellFormed(request, walked[i]) /\ ~ Blocks(walked[i], Known)
        BY <1>1, SendsAtBundle
    <2> SUFFICES ASSUME NEW i \in DOMAIN walked, walked[i].kind = "fetch",
                        NEW t \in walked[i].of
                 PROVE  /\ t \in DOMAIN know /\ know[t].version = version
                        /\ know[t].args = Arguments(t, Known)
        OBVIOUS
    <2>2. PICK s : s = walked[i]
        OBVIOUS
    <2> HIDE DEF walked
    <2>3. s.kind = "fetch" /\ t \in s.of /\ WellFormed(request, s) /\ ~ Blocks(s, Known)
        BY <2>1, <2>2
    <2>4. t \notin Choices /\ Usable(t, Known)
        BY <2>3 DEF WellFormed, Blocks
    <2> QED
        BY <2>4 DEF Usable, Current
<1>2. Walking => (FirstCallSent => present)
    BY <1>1
<1> QED
    BY <1>2, WalkingAlways, PTL DEF SentOnPresentReadings
=============================================================================
