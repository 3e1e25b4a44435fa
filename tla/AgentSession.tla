---------------------------- MODULE AgentSession ----------------------------
(***************************************************************************)
(* One conversation of the CAR-Guard agent: what handle_event does to a    *)
(* SessionState while it holds the session lock.                           *)
(*                                                                         *)
(* Each inbound event is parsed, processed, planned, checked by the        *)
(* pre-commit gate and recorded; these stages are the phases below.  The   *)
(* lock keeps any other event out until the answer is recorded, so only    *)
(* the event itself, and what the language model, the evidence and the     *)
(* policy make of it, is chosen freely.                                    *)
(*                                                                         *)
(* A goal, a tool call and a read are model values: a call stands for the  *)
(* fingerprint of a tool name with its arguments.  What the planners and   *)
(* the recipes can freeze for execution is the constant Plan.              *)
(***************************************************************************)
EXTENDS Integers, FiniteSets, Sequences

CONSTANTS
    Goal,          \* goal identifiers; a new request brings unused ones
    Deps,          \* Deps[g]: depends_on of goal g
    ReadGoal,      \* goals that evidence alone can finish: they only ask for
                   \* information, or for what already is the case
    Call,          \* state-changing calls
    Readable,      \* calls whose effect may have to be read back (set_reading_light)
    Read,          \* read-only calls
    Readback,      \* the read that verifies a Readable call
    Plan,          \* bundles the planners can freeze
    MaxSteps,      \* soft_max_steps
    MaxUserTurns,  \* max_user_turns
    MaxGets,       \* max_identical_gets
    MaxResults,    \* bound: results delivered in one event
    None

Turn == 0..MaxUserTurns
Step == [call : Call, goal : Goal]

ASSUME SessionAssumption ==
    /\ ReadGoal \subseteq Goal
    /\ Deps \in [Goal -> SUBSET Goal]
    /\ Readable \subseteq Call
    /\ Readback \in Read
    /\ None \notin Plan
    /\ MaxSteps \in Nat /\ MaxUserTurns \in Nat /\ MaxGets \in Nat /\ MaxResults \in Nat

\* ExecutionBundle: an ordered list of calls with the goal each is for, the
\* reads its policy needs, whether policy asks the user first, and whether the
\* last call ends the session.  No call appears in it twice.
ASSUME PlanAssumption ==
    \A p \in Plan :
        /\ p.steps \in Seq(Step) /\ p.steps # <<>>
        /\ \A i, j \in DOMAIN p.steps : p.steps[i].call = p.steps[j].call => i = j
        /\ p.reads \subseteq Read \ {Readback}
        /\ p.confirm \in BOOLEAN /\ p.terminal \in BOOLEAN

VARIABLES
    phase,        \* stage of the event in hand, "idle" between events
    out,          \* the PlannedOutbound
    review,       \* the model's proposal is under review: "no", "first", "replanned"
    status,       \* goal_dag: status of every goal
    authorized,   \* authorized_action_goal_ids
    completed,    \* completed_action_calls_by_goal: goals with an entry
    bundle,       \* execution_bundle
    latch,        \* confirmation_latch: status of every confirmation
    readback,     \* pending_set_readback
    pendingSets,  \* pending_calls that change state
    pendingReads, \* pending_calls that read
    batch,        \* the tool results of the event in hand
    version,      \* evidence.current_state_version
    readAt,       \* state version of the last good result of each read
    steps,        \* budget.steps
    userTurns,    \* budget.user_turns
    gets,         \* budget.get_counts
    attempted,    \* budget.attempted_sets
    succeeded,    \* budget.successful_sets: calls whose effect was verified
    \* History of what happened, no part of the program's state.
    sent,         \* how often each call was sent
    agreed,       \* <<p, t>>: the user agreed to plan p in user turn t
    tainted,      \* reads last answered before the latest state-changing call
    reported      \* goals reported to the user as complete

control == <<phase, out, review>>
dag == <<status, authorized, completed>>
frozen == <<bundle, latch, readback>>
pending == <<pendingSets, pendingReads>>
evidence == <<version, readAt>>
counts == <<steps, userTurns, gets, attempted, succeeded>>
history == <<sent, agreed, tainted, reported>>
vars == <<phase, out, review, status, authorized, completed, bundle, latch, readback,
          pendingSets, pendingReads, batch, version, readAt, steps, userTurns, gets,
          attempted, succeeded, sent, agreed, tainted, reported>>
-----------------------------------------------------------------------------
(* Values.                                                                 *)
Absent == {"unused", "dropped"}
GoalStatus == {"pending", "done", "blocked", "failed"}
LatchStatus == {"unused", "pending", "confirmed", "closed"}
NoTurn == -1
NoBundle == [plan |-> None, next |-> 0, conf |-> NoTurn]
Bundle == [plan : Plan, next : Nat, conf : Turn \cup {NoTurn}] \cup {NoBundle}
PendingSet == [call : Call, goal : Goal, index : Nat]
ASSUME NoneAssumption == None \notin PendingSet
NoReadback == [of |-> None, seen |-> FALSE]
NoBatch == [sets |-> {}, reads |-> {}, doneSets |-> {}, doneReads |-> {}, left |-> 0,
            issue |-> FALSE]
Envelope(kind, reads, goals, terminal) ==
    [kind |-> kind, reads |-> reads, goals |-> goals, terminal |-> terminal]
Text == Envelope("text", {}, {}, FALSE)

Calls(p) == {p.steps[i].call : i \in DOMAIN p.steps}
Goals(p) == {p.steps[i].goal : i \in DOMAIN p.steps}
Present == {g \in Goal : status[g] \notin Absent}

Active == bundle # NoBundle
Complete(b) == b.next >= Len(b.plan.steps)
Current(b) == b.plan.steps[b.next + 1]
Remaining(p) == Calls(p) \ succeeded

Init ==
    /\ phase = "idle" /\ out = Text /\ review = "no"
    /\ status = [g \in Goal |-> "unused"] /\ authorized = {} /\ completed = {}
    /\ bundle = NoBundle /\ readback = NoReadback
    /\ latch = [c \in Plan \X Turn |-> "unused"]
    /\ pendingSets = {} /\ pendingReads = {} /\ batch = NoBatch
    /\ version = 0 /\ readAt = [r \in Read |-> -1]
    /\ steps = 0 /\ userTurns = 0 /\ gets = [r \in Read |-> 0] /\ attempted = {}
    /\ succeeded = {}
    /\ sent = [c \in Call |-> 0] /\ agreed = {} /\ tainted = {}
    /\ reported = {}
-----------------------------------------------------------------------------
(* Goals.                                                                  *)

\* ready_goals: pending goals all of whose dependencies are done.
Ready == {g \in Goal : /\ status[g] = "pending"
                       /\ \A d \in Deps[g] \cap Present : status[d] = "done"}

\* Goals that reach a member of F along dependencies.
Dependents(F) ==
    {g \in Goal : \A S \in SUBSET Present :
        (/\ \A h \in Present : Deps[h] \cap F # {} => h \in S
         /\ \A h \in Present : Deps[h] \cap S # {} => h \in S) => g \in S}

\* _fail_goals: F fails, whatever its status, and its unfinished dependents
\* are blocked.
Failed(F) ==
    [g \in Goal |->
        IF g \in F \cap Present THEN "failed"
        ELSE IF g \in Dependents(F \cap Present) /\ status[g] \notin {"done", "failed"}
        THEN "blocked" ELSE status[g]]
-----------------------------------------------------------------------------
(* The confirmation latch.                                                 *)
IsActive(s) == s \in {"pending", "confirmed"}

CancelAll == [c \in DOMAIN latch |-> IF IsActive(latch[c]) THEN "closed" ELSE latch[c]]

\* Mutant of Expired: a confirmation never expires.
NeverExpired == latch

\* expire: a confirmation asked for in turn t is good until turn t + 1.
Expired == [c \in DOMAIN latch |->
    IF IsActive(latch[c]) /\ userTurns > c[2] + 1 THEN "closed" ELSE latch[c]]

Confirmed == {c \in DOMAIN latch : Expired[c] = "confirmed"}

\* authorized_confirmation: exactly one unexpired confirmation of this plan ...
Authorizes(p) == \E t \in Turn : {c \in Confirmed : c[1] = p} = {<<p, t>>}

\* ... and, as a side effect of asking, none of any kind unless it is the one.
Consulted(p) ==
    [c \in DOMAIN latch |->
        IF c \in Confirmed /\ ~Authorizes(p) THEN "closed" ELSE Expired[c]]

\* consume_authorization: the authorization is used up, if it still holds.
Consumed(p) ==
    [c \in DOMAIN latch |->
        IF Authorizes(p) /\ c \in Confirmed /\ c[1] = p THEN "unused" ELSE Consulted(p)[c]]
-----------------------------------------------------------------------------
(* Aborting and answering.                                                 *)

\* Mutant of MayHaveChanged: only the caller's word counts.
CallerSays(changed) == changed

\* What _abort_execution_bundle takes as a sign that the car has changed.
MayHaveChanged(changed) ==
    \/ changed
    \/ (Active /\ bundle.next > 0 /\ ~Complete(bundle))
    \/ pendingSets # {}

Affected == (IF Active THEN Goals(bundle.plan) ELSE {}) \cup {s.goal : s \in pendingSets}

\* Mutant of SetsAfterAbort: state-changing calls stay outstanding.
StillPending == pendingSets

\* An abort gives up on outstanding state changes, and only on those.
SetsAfterAbort == {}

\* _abort_execution_bundle
Abort(changed) ==
    /\ version' = IF MayHaveChanged(changed) THEN version + 1 ELSE version
    /\ latch' = CancelAll
    /\ pendingSets' = SetsAfterAbort
    /\ readback' = NoReadback
    /\ bundle' = NoBundle
    /\ status' = Failed(Affected)
    /\ UNCHANGED <<completed, pendingReads, readAt>>

\* _text_plan
Say == phase' = "record" /\ out' = Text /\ review' = "no"
Send(envelope) == phase' = "record" /\ out' = envelope /\ review' = "no"
Report(goals) == Send(Envelope("complete", {}, goals, FALSE))
Continue(next) == phase' = next /\ UNCHANGED <<out, review>>
-----------------------------------------------------------------------------
(* Inbound events.                                                         *)

\* The bundle waits for the user's answer.
AwaitsAnswer ==
    Active /\ bundle.conf # NoTurn /\ latch[<<bundle.plan, bundle.conf>>] = "pending"

\* Tool calls whose results have not come.
Outstanding == pendingSets # {} \/ pendingReads # {}

\* consume_user_turn
UserTurn ==
    /\ phase = "idle"
    /\ userTurns < MaxUserTurns /\ userTurns' = userTurns + 1
    /\ UNCHANGED <<steps, gets, attempted, succeeded>>

\* The user has no turn left: BudgetExceeded.
UserTurnRefused ==
    /\ phase = "idle" /\ userTurns = MaxUserTurns
    /\ Abort(FALSE) /\ Say
    /\ UNCHANGED <<authorized, batch, counts, history>>

\* The user speaks while calls are outstanding, or asks about the limitation
\* just explained: a text, and nothing else happens.
UserAside ==
    /\ UserTurn /\ (AwaitsAnswer => Outstanding)
    /\ Say
    /\ UNCHANGED <<dag, frozen, pending, batch, evidence, history>>

\* A reply to the question whether to go ahead.
UserReplies == UserTurn /\ ~Outstanding /\ AwaitsAnswer

\* arm: an active confirmation of the same scope is kept.
Armed(l, p, t) == [l EXCEPT ![<<p, t>>] = IF IsActive(@) THEN @ ELSE "pending"]

\* A positive reply, in time.
UserAgrees ==
    /\ UserReplies /\ userTurns' <= bundle.conf + 1
    /\ latch' = [c \in DOMAIN latch |->
                    IF c = <<bundle.plan, bundle.conf>> THEN "confirmed"
                    ELSE IF IsActive(latch[c]) /\ userTurns' > c[2] + 1 THEN "closed"
                    ELSE latch[c]]
    /\ agreed' = agreed \cup {<<bundle.plan, userTurns'>>}
    /\ Continue("plan")
    /\ UNCHANGED <<dag, bundle, readback, pending, batch, evidence, sent, tainted, reported>>

\* A negative reply: every confirmation is closed and the bundle is dropped.
UserRefuses ==
    /\ UserReplies
    /\ latch' = CancelAll /\ bundle' = NoBundle
    /\ Say
    /\ UNCHANGED <<dag, readback, pending, batch, evidence, history>>

\* Any other reply, or a late one: the question is asked again under a new
\* confirmation (_refresh_confirmation_plan).
UserUnclear ==
    /\ UserReplies
    /\ latch' = Armed(CancelAll, bundle.plan, userTurns')
    /\ bundle' = [bundle EXCEPT !.conf = userTurns']
    /\ Say
    /\ UNCHANGED <<dag, readback, pending, batch, evidence, history>>

\* A reply that names another destination or route.
UserConflicts ==
    /\ UserReplies
    /\ Abort(FALSE) /\ Say
    /\ UNCHANGED <<authorized, batch, history>>

\* Anything else is a request; it supersedes the active bundle.
UserRequests ==
    /\ UserTurn /\ ~Outstanding /\ ~AwaitsAnswer
    /\ IF Active THEN Abort(FALSE)
       ELSE UNCHANGED <<status, completed, frozen, pending, evidence>>
    /\ Continue("request")
    /\ UNCHANGED <<authorized, batch, history>>

\* GoalPlanner.update: goals G replace all others.  Their ids hold the id of the
\* turn or of the goal they come from, so none was used before.
Unused(G) == \A g \in G : status[g] = "unused" /\ Deps[g] \subseteq G
Replaced(G) ==
    [g \in Goal |-> IF g \in G THEN "pending"
                    ELSE IF status[g] = "unused" THEN "unused" ELSE "dropped"]

\* The request brings goals G, of which the user authorized A; some handlers
\* supersede what was asked before, and some answer at once.
NewGoals(G, A) ==
    /\ phase = "request" /\ Unused(G)
    /\ status' = Replaced(G) /\ authorized' = A
    /\ bundle' = NoBundle /\ latch' \in {latch, CancelAll}
    /\ Continue("plan") \/ Say
    /\ UNCHANGED <<completed, readback, pending, batch, evidence, counts, history>>

\* The request completes goals that are there, and authorizes A of them.
RequestAuthorizes(A) ==
    /\ phase = "request" /\ A \subseteq Present
    /\ authorized' \in {A, authorized \cup A}
    /\ bundle' = NoBundle
    /\ Continue("plan")
    /\ UNCHANGED <<status, completed, latch, readback, pending, batch, evidence, counts,
                   history>>

Unfinished == {g \in Present : status[g] \notin {"done", "failed"}}

\* A kept goal depends on one that is left out: GoalDAG refuses the graph.
Dangling == \E g \in Unfinished : ~(Deps[g] \cap Present \subseteq Unfinished)

\* A follow-up without goals keeps the unfinished ones and authorizes nothing;
\* when GoalDAG refuses what is left, the exception aborts the event.
FollowUp ==
    /\ phase = "request" /\ authorized' = {}
    /\ IF Dangling THEN Abort(FALSE) /\ Say
       ELSE /\ status' = [g \in Goal |-> IF g \in Present \ Unfinished THEN "dropped"
                                         ELSE status[g]]
            /\ bundle' = NoBundle
            /\ Continue("plan")
            /\ UNCHANGED <<completed, latch, readback, pending, evidence>>
    /\ UNCHANGED <<batch, counts, history>>

\* The user gives up on a goal that still waits for an answer of theirs.
RequestWithdraws(g) ==
    /\ phase = "request" /\ g \in Unfinished
    /\ status' = Failed({g}) /\ authorized' = authorized \ {g}
    /\ bundle' = NoBundle /\ latch' = CancelAll
    /\ Say
    /\ UNCHANGED <<completed, readback, pending, batch, evidence, counts, history>>

\* A request that changes no goal: it answers a clarification, or it is
\* answered by a text.
OtherRequest ==
    /\ phase = "request"
    /\ Say \/ Continue("plan")
    /\ UNCHANGED <<dag, frozen, pending, batch, evidence, counts, history>>

\* An event without user text or results: a text, or, when it repeats the
\* system policy, another round of planning.
EmptyEvent ==
    /\ phase = "idle"
    /\ Say \/ Continue("plan")
    /\ UNCHANGED <<dag, frozen, pending, batch, evidence, counts, history>>

\* Malformed parts: an outstanding state change can no longer be verified.
MalformedEvent ==
    /\ phase = "idle"
    /\ IF pendingSets # {} THEN Abort(TRUE)
       ELSE UNCHANGED <<status, completed, frozen, pending, evidence>>
    /\ Say
    /\ UNCHANGED <<authorized, batch, counts, history>>

\* A cancellation or a terminal event closes the session.
CloseEvent ==
    /\ phase = "idle" /\ phase' = "closed"
    /\ UNCHANGED <<out, review, dag, frozen, pending, batch, evidence, counts, history>>

\* Tool results for this task, or for another one (a text).
ResultsEvent(n) ==
    /\ phase = "idle" /\ Outstanding
    /\ batch' = [NoBatch EXCEPT !.sets = pendingSets, !.reads = pendingReads, !.left = n]
    /\ Continue("results")
    /\ UNCHANGED <<dag, frozen, pending, evidence, counts, history>>

StrayResultsEvent ==
    /\ phase = "idle" /\ Say
    /\ UNCHANGED <<dag, frozen, pending, batch, evidence, counts, history>>
-----------------------------------------------------------------------------
(* _process_tool_results takes the results of an event one by one.  They   *)
(* were matched to the calls pending at its start, each to at most one     *)
(* result; a matched call stays in pending_calls until the last result.    *)
Results == phase = "results" /\ batch.left > 0

\* The next result is dealt with; bad: it is an issue to report.
Next1(bad) == [batch EXCEPT !.left = @ - 1, !.issue = @ \/ bad]

TakeSet(s) == Results /\ s \in batch.sets \ batch.doneSets
TookSet(s, bad) == batch' = [Next1(bad) EXCEPT !.doneSets = @ \cup {s}]
TakeRead(r) == Results /\ r \in batch.reads \ batch.doneReads
TookRead(r, bad) == batch' = [Next1(bad) EXCEPT !.doneReads = @ \cup {r}]

\* Mutant of Advanced: the next call counts as done as well.
AdvancedTwice(b) == [b EXCEPT !.next = @ + 2]

\* bundle.advance
Advanced(b) == [b EXCEPT !.next = @ + 1]

\* A verified call of the bundle advances it; the last one uses up the
\* authorization, makes all evidence stale and finishes the goals.
Advance ==
    LET p == bundle.plan IN
    /\ bundle' = Advanced(bundle)
    /\ IF Complete(Advanced(bundle))
       THEN /\ latch' = IF bundle.conf = NoTurn THEN latch ELSE Consumed(p)
            /\ completed' = completed \cup Goals(p)
            /\ version' = version + 1
            /\ status' = [g \in Goal |-> IF g \in Goals(p) \cap Present THEN "done"
                                         ELSE status[g]]
       ELSE UNCHANGED <<latch, completed, version, status>>

\* The result verifies the call, in or out of the bundle's order.
SetVerified(s) ==
    /\ TakeSet(s)
    /\ succeeded' = succeeded \cup {s.call}
    /\ attempted' = attempted \cup {s.call}
    /\ IF Active /\ s.index = bundle.next
       THEN Advance /\ TookSet(s, FALSE) /\ UNCHANGED <<readback, pending, readAt>>
       ELSE Abort(TRUE) /\ TookSet(s, TRUE)
    /\ UNCHANGED <<control, authorized, steps, userTurns, gets, history>>

\* The result does not verify the call.
SetNotVerified(s) ==
    /\ TakeSet(s) /\ TookSet(s, TRUE)
    /\ Abort(TRUE)
    /\ UNCHANGED <<control, authorized, counts, history>>

\* The result reports success but not the state asked for: it is to be read back.
SetToReadBack(s) ==
    /\ TakeSet(s) /\ TookSet(s, FALSE)
    /\ s.call \in Readable /\ Active /\ s.index = bundle.next /\ readback = NoReadback
    /\ readback' = [of |-> s, seen |-> FALSE]
    /\ gets' = [gets EXCEPT ![Readback] = 0]
    /\ UNCHANGED <<control, dag, bundle, latch, pending, evidence, steps, userTurns,
                   attempted, succeeded, history>>

\* A read succeeds: its value holds at the current state version.
ReadSucceeds(r) ==
    /\ TakeRead(r) /\ TookRead(r, FALSE)
    /\ readAt' = [readAt EXCEPT ![r] = version]
    /\ tainted' = tainted \ {r}
    /\ readback' = IF r = Readback /\ readback # NoReadback
                   THEN [readback EXCEPT !.seen = TRUE] ELSE readback
    /\ UNCHANGED <<control, dag, bundle, latch, pending, version, counts, sent, agreed,
                   reported>>

\* A read yields no usable value.  A missing preference is no issue; a missing
\* readback leaves the state change unverified.
ReadFails(r, bad) ==
    /\ TakeRead(r) /\ TookRead(r, bad)
    /\ IF bad /\ r = Readback /\ readback # NoReadback THEN Abort(TRUE)
       ELSE UNCHANGED <<status, completed, frozen, pending, evidence>>
    /\ UNCHANGED <<control, authorized, counts, history>>

\* A result that was already delivered is skipped.
ResultRepeated ==
    /\ Results /\ batch' = Next1(FALSE)
    /\ UNCHANGED <<control, dag, frozen, pending, evidence, counts, history>>

\* A result that matches no call: when a state change was pending, it may be
\* its result, so the change is unverified and the other results are dropped.
ResultUnmatched ==
    /\ Results
    /\ IF batch.sets # {}
       THEN Abort(TRUE) /\ batch' = [Next1(TRUE) EXCEPT !.left = 0]
       ELSE /\ batch' = Next1(TRUE)
            /\ UNCHANGED <<status, completed, frozen, pending, evidence>>
    /\ UNCHANGED <<control, authorized, counts, history>>

\* After the last result the matched calls are pending no more.  An issue is
\* reported; it fails the goal it is about when other goals were done
\* (_transparent_limitation_plan).
Limits(g) == g \in Ready /\ \E h \in completed : status[h] = "done"

ResultsDone(F) ==
    /\ phase = "results" /\ batch.left = 0
    /\ pendingSets' = pendingSets \ batch.doneSets
    /\ pendingReads' = pendingReads \ batch.doneReads
    /\ batch' = NoBatch
    /\ F # {} => batch.issue /\ \A g \in F : Limits(g)
    /\ status' = Failed(F)
    /\ IF batch.issue THEN Say ELSE Continue("plan")
    /\ UNCHANGED <<authorized, completed, frozen, evidence, counts, history>>
-----------------------------------------------------------------------------
(* _plan_next.  Outstanding calls come first, then a readback, then the    *)
(* frozen bundle, and only then the goals that are ready.                  *)
Planning == phase = "plan" /\ ~Outstanding

PlanWaits ==
    /\ phase = "plan" /\ Outstanding
    /\ Say
    /\ UNCHANGED <<dag, frozen, pending, batch, evidence, counts, history>>

\* The gate's conditions for reads: retries left, and a step for each and for
\* the final answer.
CanRead(R) ==
    /\ \A r \in R : gets[r] < MaxGets
    /\ steps + Cardinality(R) + 1 <= MaxSteps

Reads(R) == Envelope("reads", R, {}, FALSE)

\* Nothing read back yet: read, or explain why not.
ReadBack ==
    /\ Planning /\ readback # NoReadback /\ ~readback.seen
    /\ IF CanRead({Readback}) THEN Send(Reads({Readback})) ELSE Say
    /\ UNCHANGED <<dag, frozen, pending, batch, evidence, counts, history>>

\* The state read back is the one asked for.
ReadBackMatches ==
    /\ Planning /\ readback # NoReadback /\ readback.seen
    /\ Active /\ readback.of.index = bundle.next
    /\ succeeded' = succeeded \cup {readback.of.call}
    /\ attempted' = attempted \cup {readback.of.call}
    /\ Advance
    /\ readback' = NoReadback
    /\ Continue("plan")
    /\ UNCHANGED <<authorized, pending, batch, readAt, steps, userTurns, gets, history>>

\* It is another state, or it cannot be read at all.
ReadBackFails ==
    /\ Planning /\ readback # NoReadback
    /\ Abort(TRUE) /\ Say
    /\ UNCHANGED <<authorized, batch, counts, history>>

Free == Planning /\ readback = NoReadback

\* Mutant of Cleared: a complete bundle is kept.
StillThere == bundle

\* What is left of a complete bundle.
Cleared == NoBundle

\* A complete bundle goes; what is ready is planned, or completion is reported
\* (of a meeting's navigation at once, whatever else is ready).
PlanCompleted ==
    /\ Free /\ Active /\ Complete(bundle)
    /\ bundle' = Cleared
    /\ \/ Ready # {} /\ Continue("plan")
       \/ Ready = {} /\ Report({g \in Goal : status[g] = "done"})
       \/ Report(Goals(bundle.plan))
    /\ UNCHANGED <<dag, latch, readback, pending, batch, evidence, counts, history>>

PlanNextCall ==
    /\ Free /\ Active /\ ~Complete(bundle)
    /\ Continue("check")
    /\ UNCHANGED <<dag, frozen, pending, batch, evidence, counts, history>>

Choosing == Free /\ ~Active

\* Nothing is ready, or all the planners have is a question or a limitation.
PlanText ==
    /\ Choosing /\ Say
    /\ UNCHANGED <<dag, frozen, pending, batch, evidence, counts, history>>

\* A limitation that fails its goal because other goals were done, or a goal
\* given up on for lack of evidence or of a control, which leaves its dependents.
PlanLimits(g) ==
    /\ Choosing /\ g \in Ready
    /\ \/ Limits(g) /\ status' = Failed({g}) /\ Say
       \/ /\ \E s \in {"failed", "blocked"} : status' = [status EXCEPT ![g] = s]
          /\ Say \/ Continue("plan")
    /\ UNCHANGED <<authorized, completed, frozen, pending, batch, evidence, counts, history>>

\* A goal is done for good when the evidence answers it, or shows that what it
\* asks for already is the case.
PlanFinishes(g) ==
    /\ Choosing /\ g \in Ready \cap ReadGoal
    /\ status' = [status EXCEPT ![g] = "done"]
    /\ Say \/ Report({g})
    /\ UNCHANGED <<authorized, completed, frozen, pending, batch, evidence, counts, history>>

\* The evidence shows what a goal comes down to: authorized goals G replace it.
PlanExpands(g, G) ==
    /\ Choosing /\ g \in Ready /\ G # {} /\ Unused(G)
    /\ status' = Replaced(G) /\ authorized' = G
    /\ Continue("plan")
    /\ UNCHANGED <<completed, frozen, pending, batch, evidence, counts, history>>

\* Navigation has changed under a request to replace its destination: the
\* request is to be stated anew.
PlanForgets(g) ==
    /\ Choosing /\ g \in Ready
    /\ status' = Replaced({}) /\ authorized' = authorized \ {g}
    /\ latch' = CancelAll
    /\ Say
    /\ UNCHANGED <<completed, bundle, readback, pending, batch, evidence, counts, history>>

\* Independent reads for ready goals, sent in parallel.
PlanReads(R) ==
    /\ Choosing /\ Ready # {} /\ R # {} /\ Readback \notin R /\ CanRead(R)
    /\ Send(Reads(R))
    /\ UNCHANGED <<dag, frozen, pending, batch, evidence, counts, history>>

\* The goals G only ask, and their answer is known: they are reported complete.
PlanComplete(G) ==
    /\ Choosing /\ G # {} /\ G \subseteq Ready /\ Ready \subseteq ReadGoal
    /\ Report(G)
    /\ UNCHANGED <<dag, frozen, pending, batch, evidence, counts, history>>

\* Mutant of CanFreeze: dependencies are not looked at.
FreezesAnyGoal(p) == \A g \in Goals(p) : status[g] = "pending"

\* _freeze_execution_bundle: only for goals that are ready.
CanFreeze(p) == Goals(p) \subseteq Ready

\* Deterministic planners freeze without review; the language model's proposal
\* is reviewed by the critic.
Freeze(p, byModel) ==
    /\ Choosing /\ CanFreeze(p)
    /\ bundle' = [plan |-> p, next |-> 0, conf |-> NoTurn]
    /\ phase' = "check" /\ out' = out
    /\ review' = IF byModel \/ review = "replanned"
                 THEN IF review = "no" THEN "first" ELSE review ELSE "no"
    /\ UNCHANGED <<dag, latch, readback, pending, batch, evidence, counts, history>>
-----------------------------------------------------------------------------
(* _validate_bundle_step and PreCommitGate.validate for the current call.  *)
Check == phase = "check"
P == bundle.plan

\* The answer goes to the critic when the model proposed the bundle.
Answer(envelope) ==
    /\ out' = envelope /\ review' = review
    /\ phase' = IF review = "no" THEN "record" ELSE "review"

Fresh == \A r \in P.reads : readAt[r] = version

\* Neither the call nor any other that is left, not having succeeded, was ever
\* attempted.
Untried == ({Current(bundle).call} \cup Remaining(P)) \cap attempted = {}

\* The calls that are left and a final answer fit in the step budget.
Fits == steps + Cardinality(Remaining(P)) + 1 <= MaxSteps

\* Authorized by the request or by the exact confirmation; evidence current;
\* confirmed where policy asks for it; not a repetition; within the budget.
Allowed ==
    /\ Current(bundle).goal \in authorized \/ Authorizes(P)
    /\ Fresh
    /\ P.confirm => Authorizes(P)
    /\ Untried
    /\ Fits

\* ALLOW: the call is to be sent; the last one carries the terminal flag.
CheckAllows ==
    /\ Check /\ Allowed
    /\ latch' = Consulted(P)
    /\ Answer(Envelope("set", {}, {}, P.terminal /\ bundle.next = Len(P.steps) - 1))
    /\ UNCHANGED <<dag, bundle, readback, pending, batch, evidence, counts, history>>

\* Refused before the first call: the bundle stays, a text explains.  The gate
\* refuses for many more reasons than Allowed names.
CheckRefuses ==
    /\ Check /\ bundle.next = 0
    /\ latch' = Consulted(P)
    /\ Answer(Text)
    /\ UNCHANGED <<dag, bundle, readback, pending, batch, evidence, counts, history>>

\* Anything but ALLOW after the first call.
CheckRefusesMidway ==
    /\ Check /\ bundle.next > 0
    /\ Abort(TRUE) /\ Answer(Text)
    /\ UNCHANGED <<authorized, batch, counts, history>>

\* NEED_READ: the reads that policy asks for, one at a time.
CheckReads(r) ==
    /\ Check /\ bundle.next = 0 /\ r \in P.reads /\ readAt[r] # version
    /\ latch' = Consulted(P)
    /\ CanRead({r}) /\ Answer(Reads({r}))
    /\ UNCHANGED <<dag, bundle, readback, pending, batch, evidence, counts, history>>

\* NEED_CONFIRMATION: the user is asked.  (A closed confirmation of the same
\* scope would be a conflict, an exception.)
CheckAsks ==
    /\ Check /\ bundle.next = 0 /\ Fresh /\ P.confirm /\ ~Authorizes(P)
    /\ Current(bundle).goal \in authorized
    /\ Consulted(P)[<<P, userTurns>>] # "closed"
    /\ latch' = Armed(Consulted(P), P, userTurns)
    /\ bundle' = [bundle EXCEPT !.conf = userTurns]
    /\ Answer(Text)
    /\ UNCHANGED <<dag, readback, pending, batch, evidence, counts, history>>

\* A frozen navigation, email or phone call no longer matches the evidence;
\* only a navigation may have changed the car.
CheckStale(changed) ==
    /\ Check
    /\ Abort(changed) /\ Answer(Text)
    /\ UNCHANGED <<authorized, batch, counts, history>>
-----------------------------------------------------------------------------
(* _validate_planner_proposal: the general critic.                         *)
ReviewAccepts ==
    /\ phase = "review" /\ Send(out)
    /\ UNCHANGED <<dag, frozen, pending, batch, evidence, counts, history>>

\* A veto: the bundle is dropped and a text explains.
ReviewVetoes ==
    /\ phase = "review" /\ bundle' = NoBundle
    /\ Say
    /\ UNCHANGED <<dag, latch, readback, pending, batch, evidence, counts, history>>

\* Mutant of MayReplan: the critic may ask for one more proposal every time.
ReplansAgain == review # "no"

\* Only the first proposal of an event can be replaced.
MayReplan == review = "first"

\* REPLAN_ONCE: the bundle is dropped for one more proposal.
ReviewReplans ==
    /\ phase = "review" /\ MayReplan /\ bundle' = NoBundle
    /\ phase' = "plan" /\ review' = "replanned" /\ UNCHANGED out
    /\ UNCHANGED <<dag, latch, readback, pending, batch, evidence, counts, history>>

\* Any exception while the event is handled.
Fault ==
    /\ phase \in {"request", "results", "plan", "check", "review"}
    /\ Abort(FALSE) /\ Say
    /\ batch' = NoBatch
    /\ UNCHANGED <<authorized, counts, history>>
-----------------------------------------------------------------------------
(* _record_outbound: the answer takes a step of the budget, and what it    *)
(* sends becomes outstanding.                                              *)
Answered == phase' = "idle" /\ out' = Text /\ review' = "no"
Record(kind) == phase = "record" /\ out.kind = kind /\ steps < MaxSteps /\ steps' = steps + 1

\* No step is left: nothing is sent, the user is told.
RecordExhausted ==
    /\ phase = "record" /\ steps = MaxSteps
    /\ Abort(FALSE) /\ Answered
    /\ UNCHANGED <<authorized, batch, counts, history>>

RecordText ==
    /\ Record("text") /\ Answered
    /\ UNCHANGED <<dag, frozen, pending, batch, evidence, userTurns, gets, attempted,
                   succeeded, history>>

RecordComplete ==
    /\ Record("complete") /\ Answered
    /\ status' = [g \in Goal |-> IF g \in out.goals \cap Present THEN "done" ELSE status[g]]
    /\ reported' = reported \cup out.goals
    /\ UNCHANGED <<authorized, completed, frozen, pending, batch, evidence, userTurns,
                   gets, attempted, succeeded, sent, agreed, tainted>>

RecordReads ==
    /\ Record("reads") /\ Answered
    /\ gets' = [r \in Read |-> IF r \in out.reads THEN gets[r] + 1 ELSE gets[r]]
    /\ pendingReads' = pendingReads \cup out.reads
    /\ UNCHANGED <<dag, frozen, pendingSets, batch, evidence, userTurns, attempted,
                   succeeded, history>>

\* Mutant of Attempts: the attempt is not remembered.
Forgets(c) == attempted

\* record_outbound of a state-changing call.
Attempts(c) == attempted \cup {c}

RecordSet ==
    /\ Record("set")
    /\ phase' = IF out.terminal THEN "closed" ELSE "idle"
    /\ out' = Text /\ review' = "no"
    /\ attempted' = Attempts(Current(bundle).call)
    /\ pendingSets' = pendingSets \cup
           {[call |-> Current(bundle).call, goal |-> Current(bundle).goal,
             index |-> bundle.next]}
    /\ sent' = [sent EXCEPT ![Current(bundle).call] = @ + 1]
    /\ tainted' = Read
    /\ UNCHANGED <<dag, frozen, pendingReads, batch, evidence, userTurns, gets, succeeded,
                   agreed, reported>>
-----------------------------------------------------------------------------
UserEvent ==
    UserTurnRefused \/ UserAside \/ UserAgrees \/ UserRefuses \/ UserUnclear
    \/ UserConflicts \/ UserRequests

Event ==
    \/ UserEvent \/ EmptyEvent \/ MalformedEvent \/ CloseEvent \/ StrayResultsEvent
    \/ \E n \in 1..MaxResults : ResultsEvent(n)

Request ==
    \/ \E G \in SUBSET Goal : \E A \in SUBSET G : NewGoals(G, A)
    \/ \E A \in SUBSET Goal : RequestAuthorizes(A)
    \/ \E g \in Goal : RequestWithdraws(g)
    \/ FollowUp \/ OtherRequest

ProcessResults ==
    \/ \E s \in batch.sets : SetVerified(s) \/ SetNotVerified(s) \/ SetToReadBack(s)
    \/ \E r \in batch.reads : ReadSucceeds(r) \/ \E bad \in BOOLEAN : ReadFails(r, bad)
    \/ ResultRepeated \/ ResultUnmatched
    \/ \E F \in {{}} \cup {{g} : g \in Goal} : ResultsDone(F)

PlanStep ==
    \/ PlanWaits \/ ReadBack \/ ReadBackMatches \/ ReadBackFails
    \/ PlanCompleted \/ PlanNextCall \/ PlanText
    \/ \E g \in Goal : PlanLimits(g) \/ PlanFinishes(g) \/ PlanForgets(g)
    \/ \E g \in Goal, G \in SUBSET Goal : PlanExpands(g, G)
    \/ \E R \in SUBSET Read : PlanReads(R)
    \/ \E G \in SUBSET Goal : PlanComplete(G)
    \/ \E p \in Plan, byModel \in BOOLEAN : Freeze(p, byModel)

CheckStep ==
    \/ CheckAllows \/ CheckRefuses \/ CheckRefusesMidway \/ CheckAsks
    \/ \E r \in Read : CheckReads(r)
    \/ \E changed \in BOOLEAN : CheckStale(changed)

Review == ReviewAccepts \/ ReviewVetoes \/ ReviewReplans

Answering ==
    RecordExhausted \/ RecordText \/ RecordComplete \/ RecordReads \/ RecordSet

\* What handle_event does once it has accepted an event.
Handle == Request \/ ProcessResults \/ PlanStep \/ CheckStep \/ Review \/ Answering

Next == Event \/ Handle \/ Fault

Spec == Init /\ [][Next]_vars

\* The thread that handles an event keeps running; users and the evaluator
\* owe nothing, and no exception comes to the rescue.
FairSpec == Spec /\ WF_vars(Handle)
-----------------------------------------------------------------------------
(* Properties.                                                             *)

\* Every variable keeps its type: in particular a bundle in execution never
\* runs past its last call, and budgets stay within their limits.
TypeOK ==
    /\ phase \in {"idle", "request", "results", "plan", "check", "review", "record", "closed"}
    /\ out \in [kind : {"text", "reads", "set", "complete"}, reads : SUBSET Read,
                goals : SUBSET Goal, terminal : BOOLEAN]
    /\ review \in {"no", "first", "replanned"}
    /\ status \in [Goal -> Absent \cup GoalStatus]
    /\ authorized \subseteq Goal /\ completed \subseteq Goal
    /\ bundle \in Bundle /\ (Active => bundle.next <= Len(P.steps))
    /\ latch \in [Plan \X Turn -> LatchStatus]
    /\ readback \in [of : PendingSet, seen : BOOLEAN] \cup {NoReadback}
    /\ pendingSets \subseteq PendingSet /\ pendingReads \subseteq Read
    /\ batch \in [sets : SUBSET PendingSet, reads : SUBSET Read,
                  doneSets : SUBSET PendingSet, doneReads : SUBSET Read,
                  left : Nat, issue : BOOLEAN]
    /\ version \in Nat /\ readAt \in [Read -> Nat \cup {-1}]
    /\ steps \in 0..MaxSteps /\ userTurns \in Turn
    /\ gets \in [Read -> 0..MaxGets]
    /\ attempted \subseteq Call /\ succeeded \subseteq attempted
    /\ sent \in [Call -> Nat] /\ agreed \subseteq Plan \X Turn
    /\ tainted \subseteq Read /\ reported \subseteq Goal

\* State changes are serial (docs/architecture.md): between events at most one
\* state-changing call is outstanding, it is the current call of the frozen
\* bundle, and no read and no readback is outstanding with it.
OneOutstandingSet ==
    phase = "idle" /\ pendingSets # {} =>
        /\ Active /\ ~Complete(bundle)
        /\ pendingSets = {[call |-> Current(bundle).call, goal |-> Current(bundle).goal,
                           index |-> bundle.next]}
        /\ pendingReads = {} /\ readback = NoReadback

\* A state-changing call is sent at most once in a session, whatever the user,
\* the planners, lost results, aborts and repeated requests do.
AtMostOnce == \A c \in Call : sent[c] <= 1

\* A goal counts as done by an action only when every call of some bundle for
\* it was verified; a goal that asks for an action is done in no other way.
DoneMeansVerified ==
    /\ \A g \in completed : \E p \in Plan : g \in Goals(p) /\ Calls(p) \subseteq succeeded
    /\ \A g \in Goal \ ReadGoal : status[g] = "done" => g \in completed

\* A read that the planners take for current was answered after the latest
\* state-changing call was sent, unless a bundle is still in execution.
NoStaleEvidence ==
    ~Active /\ ~Outstanding /\ phase \in {"plan", "idle"} =>
        \A r \in tainted : readAt[r] # version

SetSent == sent' # sent

\* What is sent was wanted: the goal of the call was authorized by the current
\* request or the user agreed to the exact bundle; and where policy asks for a
\* confirmation, the user agreed to that bundle in this very user turn.
SentOnlyWithConsent ==
    [][SetSent =>
        /\ Current(bundle).goal \in authorized \/ <<P, userTurns>> \in agreed
        /\ P.confirm => <<P, userTurns>> \in agreed]_vars

\* Dependencies are honoured: a call is sent only when every goal that its
\* goals depend on is done.
SentInGoalOrder ==
    [][SetSent => \A g \in Goals(P) : \A d \in Deps[g] \cap Present : status[d] = "done"]_vars

\* A call of the bundle was sent and not all of its calls are verified: one was
\* verified before, or the first is outstanding or waits to be read back.
Halfway ==
    /\ Active /\ ~Complete(bundle)
    /\ bundle.next > 0 \/ pendingSets # {} \/ readback # NoReadback

\* The first call was acknowledged and its effect is still to be read back.
FirstToReadBack == readback # NoReadback /\ bundle.next = 0 /\ pendingSets = {}

\* No silent half-execution: a bundle that goes away halfway, for whatever reason,
\* fails its goals; and the evidence is declared stale, with one exception: a bundle
\* whose first call only waits for its readback can be given up without
\* (NoStaleEvidence fails in that case).
NoSilentHalfway ==
    [][Halfway /\ bundle' # bundle /\ bundle' = NoBundle =>
        /\ \A g \in Goals(P) \cap Present : status'[g] = "failed"
        /\ version' > version \/ FirstToReadBack]_vars

\* What was reported complete stays so until a later request replaces it: no
\* late, repeated or malformed result turns it into a failure.
ReportedStaysDone ==
    \A g \in reported : status[g] \in {"done", "dropped"}

\* Every event is answered: planning, readbacks, replanning and result
\* processing always end.
EveryEventAnswered == phase \notin {"idle", "closed"} ~> phase \in {"idle", "closed"}

-----------------------------------------------------------------------------
(* What the conversation does to the car, as CarActions sees it.           *)

\* The calls of the frozen bundle, and how many of them were verified.
Chosen == IF Active THEN [i \in DOMAIN P.steps |-> P.steps[i].call] ELSE <<>>
Advances == IF Active THEN bundle.next ELSE 0

\* The call under way is the one whose result has not been dealt with, or the one that
\* waits to be read back.
Unsettled == IF phase = "results" THEN pendingSets \ batch.doneSets ELSE pendingSets
Flight == {s.call : s \in Unsettled}
          \cup (IF readback = NoReadback THEN {} ELSE {readback.of.call})

Spent == {c \in Call : sent[c] > 0}

Car == INSTANCE CarActions WITH
    Bundles <- {[i \in DOMAIN p.steps |-> p.steps[i].call] : p \in Plan},
    chosen <- Chosen, next <- Advances, flight <- Flight, spent <- Spent,
    verified <- succeeded

\* Whatever goals, evidence, budgets, confirmations and repeated or lost results do, the
\* conversation does no more to the car than work through one frozen bundle after the
\* other, call by call, or give it up.
ImplementsCarActions == Car!Spec
=============================================================================
