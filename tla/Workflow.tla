------------------------------ MODULE Workflow ------------------------------
(***************************************************************************)
(* How a session serves a request by walking the steps of its workflow:    *)
(* _plan_next with the reads, questions and bundles that the planning      *)
(* functions build, and the events that answer them.                       *)
(*                                                                         *)
(* The workflows themselves are tables, given as constants.  Of a bundle   *)
(* only the confirmation, the calls in order and their results are kept;   *)
(* AgentSession models them in detail.                                     *)
(***************************************************************************)
EXTENDS Integers, Bags, FiniteSets, WorkflowSteps

CONSTANTS
  Requests,        \* the kinds of request
  First,           \* those a conversation can begin with
  Follows(_),      \* the requests that can come after one
  Kept(_),         \* the things a request takes over from the one before
  Goals(_),        \* the goals of a request
  Steps(_, _, _),  \* Steps(r, v, d): the steps of request r when v is known and d are done
  Closing(_),      \* the steps of a request when all of its goals are done
  Values,          \* for each thing that is read or said, the values it can have
  Choices,         \* the things the user says
  Parents(_),      \* the things and derived values that its read depends on
  Key(_),          \* the read that fetches it: a tool with its fixed arguments
  Derived(_),      \* values computed from those of things
  MaxGets,         \* max_identical_gets
  MaxRepeats,      \* bound on the reads that are made again, after which none fails
  MaxVersion,      \* bound on the changes between requests
  MaxRequests      \* bound on the requests of a conversation

ASSUME WorkflowAssumption ==
  /\ First \subseteq Requests
  /\ \A r \in Requests : Follows(r) \subseteq Requests
  /\ \A t \in DOMAIN Values : None \notin Values[t]
  /\ {MaxGets, MaxRepeats} \subseteq Nat /\ MaxVersion \in Nat /\ MaxRequests \in Nat

VARIABLES
  request,   \* the request being served
  count,     \* how many requests there were
  know,      \* the evidence for the things of this request, as far as there is some
  version,   \* current_state_version
  gets,      \* budget.get_counts: a bag of reads with their arguments
  done,      \* completed_action_calls_by_goal: the calls of each goal that is done
  wait,      \* what the session waits for, <<>> when it plans
  said,      \* how the turn ended, None before
  offered    \* history: what was known when the user was last asked

vars == <<request, count, know, version, gets, done, wait, said, offered>>

Nothing == [t \in {} |-> None]

-----------------------------------------------------------------------------
(* What is known.                                                          *)

\* Mutant of Current: evidence of an earlier state of the car counts.
CurrentOnce(t) == t \in DOMAIN know

\* Evidence of the car counts only for the state version it was read at; what the
\* user said stands.
Current(t) == t \in DOMAIN know /\ (t \in Choices \/ know[t].version = version)

Known == [t \in DOMAIN Values |-> IF Current(t) THEN know[t].value ELSE None]

\* The arguments with which a thing is read when v is known.
Arguments(t, v) ==
  LET d == Derived(v)
  IN [n \in Parents(t) |-> IF n \in DOMAIN d THEN d[n] ELSE v[n]]

\* Mutant of Usable: the arguments of the read are not compared.
UsableForAny(t, v) == Current(t)

\* A read answers the question only when it was made with the arguments that the
\* question has now.
Usable(t, v) == Current(t) /\ know[t].args = Arguments(t, v)

\* The arguments of a read as the budget counts them.
Call(t, v) == <<Key(t), Arguments(t, v)>>

-----------------------------------------------------------------------------
(* The walk.                                                               *)

Blocks(s, v) ==
  \/ s.kind \in {"reply", "do"}
  \/ s.kind = "fetch" /\ \E t \in s.of : ~ Usable(t, v)
  \/ s.kind \in {"ask", "given"} /\ \E t \in s.of : ~ Current(t)

\* The planner starts from the top after every event.  It goes through the workflow as
\* long as a goal is left to do, and then answers what was done.
Walk(v) ==
  (IF Goals(request) \subseteq DOMAIN done THEN Closing(request)
   ELSE Steps(request, v, DOMAIN done))
  \o Reply("done")

\* The steps that are walked, up to the first one that does not let pass.
Walked(v) ==
  LET walk == Walk(v)
      blocking == {i \in DOMAIN walk : Blocks(walk[i], v)}
  IN SubSeq(walk, 1, CHOOSE i \in blocking : \A j \in blocking : i <= j)

Here(walked) == walked[Len(walked)]

Planning == request # None /\ wait = <<>> /\ said = None

Init ==
  /\ request = None /\ count = 0
  /\ know = Nothing
  /\ version = 0
  /\ gets = EmptyBag
  /\ done = Nothing /\ wait = <<>> /\ said = None
  /\ offered = Nothing

\* Mutant of Learn: the version of the state is not noted with what is learnt.
LearnOnce(got) ==
  know' = [t \in DOMAIN know \cup DOMAIN got |->
    IF t \in DOMAIN got THEN [value |-> got[t], version |-> MaxVersion, args |-> <<>>]
    ELSE know[t]]

\* What is learnt about some things, from reads with the arguments they have when v is
\* known.
Learn(got) ==
  \E v \in {Known} : know' = [t \in DOMAIN know \cup DOMAIN got |->
    IF t \in DOMAIN got
    THEN [value |-> got[t], version |-> version, args |-> Arguments(t, v)]
    ELSE know[t]]

\* A turn ends with an answer to the user.
Say(answer) == said' = answer /\ wait' = <<>>

\* A request, the first one or one that comes after another.
Begin(r) ==
  /\ count < MaxRequests
  /\ \/ count = 0 /\ r \in First
     \/ request # None /\ said # None /\ r \in Follows(request)
  /\ request' = r /\ count' = count + 1
  /\ know' = [t \in Kept(r) \cap DOMAIN know |-> know[t]]
  /\ done' = Nothing /\ wait' = <<>> /\ said' = None /\ offered' = Nothing
  /\ UNCHANGED <<version, gets>>

\* Something else the user asks for changes the car.
OtherChange ==
  /\ said # None
  /\ version < MaxVersion
  /\ version' = version + 1
  /\ UNCHANGED <<request, count, know, gets, done, wait, said, offered>>

-----------------------------------------------------------------------------
(* Planning.                                                               *)

Missing(s) == LET v == Known IN {t \in s.of : ~ Usable(t, v)}

\* The budget allows each read with the same arguments only so often.
WithinBudget(calls) ==
  \A c \in calls : (IF BagIn(c, gets) THEN gets[c] ELSE 0) < MaxGets

\* A required tool is missing, a schema does not fit, or the gate refuses.
PlanLimits(walked) ==
  /\ \/ \E i \in DOMAIN walked : walked[i].kind = "tools"
     \/ Here(walked).kind \in {"fetch", "do"}
  /\ Say(Limit)
  /\ UNCHANGED <<request, count, know, version, gets, done, offered>>

\* What the request and the schemas settle is found out without asking.
PlanFinds(walked) ==
  /\ Here(walked).kind = "given"
  /\ \E t \in Here(walked).of :
       /\ ~ Current(t)
       /\ \E val \in Values[t] : Learn([n \in {t} |-> val])
  /\ UNCHANGED <<request, count, version, gets, done, wait, said, offered>>

\* Mutant of Counted: reads are not counted.
Uncounted(calls) == gets

Counted(calls) == gets (+) SetToBag(calls)

PlanReads(walked) ==
  /\ Here(walked).kind = "fetch"
  /\ LET missing == Missing(Here(walked))
         calls == {Call(t, Known) : t \in missing}
     IN /\ WithinBudget(calls)
        /\ wait' = <<"reads", missing>>
        /\ gets' = Counted(calls)
  /\ UNCHANGED <<request, count, know, version, done, said, offered>>

PlanAsks(walked) ==
  /\ Here(walked).kind = "ask"
  /\ wait' = <<"answer", Here(walked).of>>
  /\ offered' = [t \in {n \in DOMAIN know : Current(n)} |-> know[t].value]
  /\ UNCHANGED <<request, count, know, version, gets, done, said>>

PlanReplies(walked) ==
  /\ Here(walked).kind = "reply"
  /\ \E answer \in Here(walked).of : Say(answer)
  /\ UNCHANGED <<request, count, know, version, gets, done, offered>>

\* The reads whose count starts anew before a bundle is sent.
Renewed(walked) ==
  LET things == UNION {walked[i].of : i \in {j \in DOMAIN walked : walked[j].kind = "renew"}}
      calls == {Call(t, Known) : t \in things}
  IN [c \in DOMAIN gets \ calls |-> gets[c]]

\* The bundle is frozen, and sent at once or after the user has confirmed it.
PlanCalls(walked) ==
  /\ Here(walked).kind = "do"
  /\ \E kind \in {"confirm", "calls"} : wait' = <<kind, Here(walked).of, 1, Here(walked).goals>>
  /\ gets' = Renewed(walked)
  /\ UNCHANGED <<request, count, know, version, done, said, offered>>

-----------------------------------------------------------------------------
(* Answers.                                                                *)

Waits(kind) == wait # <<>> /\ wait[1] = kind

\* The results of a request for reads: each is evidence for its thing, or failed.
ReadsReturn ==
  /\ Waits("reads")
  /\ \E things \in SUBSET wait[2] :
     /\ things = wait[2] \/ BagCardinality(gets) < Cardinality(DOMAIN gets) + MaxRepeats
     /\ \E got \in [things -> UNION {Values[t] : t \in things}] :
          /\ \A t \in things : got[t] \in Values[t]
          /\ Learn(got)
  /\ wait' = <<>>
  /\ UNCHANGED <<request, count, version, gets, done, said, offered>>

\* The user chooses one of the values that were offered.
UserAnswers ==
  /\ Waits("answer")
  /\ \E t \in wait[2] : \E val \in Values[t] : Learn([n \in {t} |-> val])
  /\ wait' = <<>>
  /\ UNCHANGED <<request, count, version, gets, done, said, offered>>

\* The user wants something else, or refuses what is to be confirmed.
UserDeclines ==
  /\ Waits("answer") \/ Waits("confirm")
  /\ Say("declined")
  /\ UNCHANGED <<request, count, know, version, gets, done, offered>>

UserConfirms ==
  /\ Waits("confirm")
  /\ wait' = <<"calls", wait[2], 1, wait[4]>>
  /\ UNCHANGED <<request, count, know, version, gets, done, said, offered>>

\* The next call of the bundle is sent.
CallSent ==
  /\ Waits("calls")
  /\ wait' = <<"result", wait[2], wait[3], wait[4]>>
  /\ UNCHANGED <<request, count, know, version, gets, done, said, offered>>

\* After the last call of a bundle has succeeded the evidence is of an earlier state,
\* its goals are done, and the planner starts anew.
CallSucceeds ==
  /\ Waits("result")
  /\ IF wait[3] < Len(wait[2])
     THEN /\ wait' = <<"calls", wait[2], wait[3] + 1, wait[4]>>
          /\ UNCHANGED <<version, done>>
     ELSE /\ wait' = <<>>
          /\ version' = version + 1
          /\ done' = [g \in DOMAIN done \cup wait[4] |->
                        IF g \in wait[4] THEN wait[2] ELSE done[g]]
  /\ UNCHANGED <<request, count, know, gets, said, offered>>

\* A call that is not verified ends the bundle; the car may have changed.
CallFails ==
  /\ Waits("result")
  /\ version' = version + 1
  /\ Say("failed")
  /\ UNCHANGED <<request, count, know, gets, done, offered>>

Plan ==
  /\ Planning
  /\ \E v \in {Known} : \E walked \in {Walked(v)} :
        \/ PlanLimits(walked) \/ PlanFinds(walked) \/ PlanReads(walked)
        \/ PlanAsks(walked) \/ PlanReplies(walked) \/ PlanCalls(walked)

Answer == \/ ReadsReturn \/ UserAnswers \/ UserDeclines \/ UserConfirms
          \/ CallSent \/ CallSucceeds \/ CallFails

Next == Plan \/ Answer \/ OtherChange \/ \E r \in Requests : Begin(r)

Spec == Init /\ [][Next]_vars

\* The agent plans, and the car and the user answer.
FairSpec == Spec /\ WF_vars(Plan \/ Answer)

-----------------------------------------------------------------------------
(* Properties.                                                             *)

Answers == {Limit, Conflict, Again, Info, Shown, "done", "declined", "failed", "partial"}

Gathers == {"fetch", "ask", "given"}

\* A step of a request names things, answers, or calls and the goals they serve, and
\* what is read is not said by the user.
WellFormed(r, s) ==
  /\ s.kind \in {"tools", "renew", "do", "reply"} \cup Gathers
  /\ s.kind \in Gathers => s.of \subseteq DOMAIN Values
  /\ s.kind = "fetch" => s.of \cap Choices = {}
  /\ s.kind = "do" => Len(s.of) \in Nat \ {0} /\ s.goals \subseteq Goals(r)
  /\ s.kind = "reply" => s.of \subseteq Answers

Table(r, walk) == \A i \in DOMAIN walk : WellFormed(r, walk[i])

\* The type of the state: the steps of the request are well formed, what is done are
\* goals of the request, and what waits is a set of things, or a bundle with the position
\* of its next call and the goals it serves.
TypeOK ==
  /\ request \in Requests \cup {None}
  /\ request # None => DOMAIN done \subseteq Goals(request) /\ Table(request, Walk(Known))
  /\ count \in 0 .. MaxRequests /\ version \in Nat
  /\ \A t \in DOMAIN know : /\ t \in DOMAIN Values /\ know[t].value \in Values[t]
                            /\ know[t].version \in 0 .. version
                            /\ DOMAIN know[t].args = Parents(t)
  /\ \A c \in DOMAIN gets : gets[c] \in 1 .. MaxGets
  /\ \/ wait = <<>>
     \/ wait[1] \in {"reads", "answer"} /\ wait[2] \subseteq DOMAIN Values
     \/ /\ wait[1] \in {"confirm", "calls", "result"}
        /\ wait[3] \in 1 .. Len(wait[2]) /\ wait[4] \subseteq Goals(request)
  /\ said \in Answers \cup {None}
  /\ said # None => wait = <<>>

FirstCallSent == CallSent /\ wait[3] = 1

\* A bundle is sent on readings of the state that the car is in, each made with the
\* arguments that the question has by now: whatever the user said in between, and
\* whatever earlier requests and bundles have changed.
SentOnPresentReadings ==
  [][FirstCallSent =>
       LET walked == Walked(Known)
       IN \A i \in DOMAIN walked : walked[i].kind = "fetch" =>
            \A t \in walked[i].of :
              /\ t \in DOMAIN know /\ know[t].version = version
              /\ know[t].args = Arguments(t, Known)]_vars

\* The planner starts from the top after every event, and yet no bundle repeats a call
\* with which a goal of the request was completed: every workflow looks at the status of
\* its goals before it acts for them.
NothingTwice ==
  [][FirstCallSent =>
       \A g \in DOMAIN done : {done[g][i] : i \in DOMAIN done[g]}
                               \cap {wait[2][i] : i \in DOMAIN wait[2]} = {}]_vars

\* Every request is answered when the car and the user answer, although failed reads are
\* made again.
EveryRequestEnds == (request # None /\ said = None) ~> (said # None)

\* A value the user has chosen is sent with what it was chosen from: nothing that was
\* known when the user was asked has another value when the call is sent.
ChoiceStillHolds ==
  [][FirstCallSent =>
       \A t \in DOMAIN offered : offered[t] = Known[t]]_vars
=============================================================================
