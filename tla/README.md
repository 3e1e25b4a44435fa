# Specifications of the CAR-Guard agent

TLA+ models of the agent in `src/`, their model-checking configurations and
machine-checked proofs.

Paths below are relative to `src/src/track_1_agent_under_test/` unless they say
otherwise.

## 1. The system

The repository holds an in-car assistant that is driven by an evaluator over the
A2A protocol. The evaluator sends user turns and tool results; the agent answers
each with either text or tool calls, and never executes a tool itself.

| Component | State it keeps | Operations | Interacts by |
|---|---|---|---|
| Executor `car_bench_agent.py` | cancellation marks and emission locks per context | `execute`, `cancel` | runs `handle_event` in a worker thread per message |
| Session store `car_guard/a2a/session_store.py` | sessions, tombstones, one store lock, one re-entrant lock per session | `replay_for`, `get_or_create`, `locked`, `cancel`, `mark_terminal`, `get`, `remove`, `reopen` | called by executor and orchestrator threads |
| Orchestrator `car_guard/runtime/orchestrator.py` | none of its own; everything is in `SessionState` | `handle_event`: parse, process the user text or the tool results, plan, check, review, record | calls every component below |
| Goal DAG `car_guard/domain/goals.py`, `planning/goal_planner.py` | goals, dependencies, statuses | `ready_goals`, `set_status`, `block_dependents`, `update` | by the orchestrator |
| Confirmation latch `car_guard/policy/confirmation_latch.py` | confirmations by scope | `arm`, `expire`, `resolve`, `authorized_confirmation`, `consume_authorization`, `cancel_all` | user turns resolve, gate and policy preview consult |
| Budget `car_guard/runtime/budget.py` | steps, user turns, identical reads, attempted and successful state changes | `consume_*`, `allow_call`, `record_*` | by gate (read) and recording (write) |
| Pre-commit gate `car_guard/policy/precommit_gate.py` | none | `validate` | reads goals, evidence, latch, budget |
| Evidence store `car_guard/domain/evidence.py` | facts, needs, a state version | `register`, `invalidate_tool_state` | written by result processing, read by planners and gate |
| Result matching `car_guard/a2a/result_matching.py` | ids seen per task | `match_tool_results` | by result processing |
| Workflow planners (in the orchestrator) | marks in goals, displayed candidates | `_next_*`, `_handle_*` | freeze bundles, ask, read |
| Intent grounding and parsing, policy compiler and rules, capability checks, disambiguation, recipes, composer | mostly pure | | by the orchestrator |
| General critic `car_guard/validation/` | none | one verdict per proposal | by the orchestrator |
| Track 2 agents `src/src/track_2_agent_under_test_cerebras/` | a chat history, a private plan and turn metrics per context | `execute`, `cancel` | an alternative to all of the above, driven by the same evaluator |
| Cerebras client `src/src/track_2_agent_under_test_cerebras/cerebras_client.py` | request lock, quota accounting, reports | `generate` with waits and retries | by the Track 2 agents |
| Evaluator `src/src/agentbeats/evaluator_executor.py`, `src/src/evaluator/` | active tasks, cancellation events, one conversation per trial | `execute`, `cancel`, `run_eval` | drives the agents |

### What is hard

* Threads of one context share a session through two levels of locks, and every
  operation of the store looks something up under one lock and uses it under
  another.
* A conversation is a long protocol: a request becomes a frozen bundle, which may
  need reads, then the user's word for exactly this bundle in the next turn, then
  serial execution with one verified result after another; meanwhile the user may
  ask for something else, results may be late, repeated, malformed or missing,
  budgets run out, and any exception gives the bundle up.
* Some sixty workflow planners inside the orchestrator keep no program counter: after
  every event each walks from its top and finds out from the evidence how far it had
  come. What it takes for known must be of the present car, made with the arguments
  the question has by now, and what is done must not be begun again.
* The policy rules put calls in front of an order, which have rules of their own.
* A state change that was sent cannot be taken back. All that protects the user
  is that it is sent once, with consent, on current evidence, and that giving up
  is honest about what may have changed.

`PROJECT.json` lists these hazards with the lines where they bite.

## 2. Modules

| Module | Models |
|---|---|
| `SessionStore` | the store, its locks, and the skeleton of `handle_event` that uses them |
| `AgentSession` | one conversation: everything `handle_event` does inside the session lock |
| `CarActions` | what a conversation promises about the car, which `AgentSession` implements |
| `AgentExecutor` | the A2A executor around both: concurrent `execute` and `cancel` |
| `WorkflowSteps`, `Workflow` | the vocabulary of the workflow planners, and the engine that walks them |
| `Navigation`, `Places`, `ConditionalNavigation`, `Messages`, `Charging`, `Cabin` | the workflows, as tables for the engine |
| `PolicyRules`, `PolicyBundle` | the policy rules and their decisions; how what they want first joins a bundle |
| `Completion`, `RouteEdits` | how the answer to a state change is judged; the edits of a navigation that such answers are compared with |
| `Track2Agent` | the baseline agents of track 2 with their completion client |
| `EvaluatorTask` | assessments on the evaluator's side: tasks, splits, trials, conversations |
| `AgentSessionProofs` | theorems about `AgentSession`, about `CarActions`, and that the one implements the other |
| `AgentExecutorProofs` | theorems about `AgentExecutor` |
| `PolicyRulesProofs` | theorems about `PolicyRules` and `PolicyBundle` |
| `RouteEditsProofs` | theorems about `RouteEdits` and `Completion` |
| `SessionStoreProofs` | theorems about `SessionStore` |
| `EvaluatorTaskProofs` | theorems about `EvaluatorTask` |
| `Track2AgentProofs` | theorems about `Track2Agent` |
| `WorkflowProofs` | theorems about `Workflow`, for any tables |
| `MCSessionStore`, `MCAgentSession`, `MCAgentExecutor`, `MCWorkflow`, `MCTrack2Agent`, `MCEvaluatorTask` | instances for TLC |
| `MCRouteEdits` | the edits of every small navigation; part of `MCWorkflow` |

How they meet. `SessionStore` interleaves threads and treats the handling of an
accepted message as one step (`Work`, `Fail`), which is right exactly because the
session lock is held around it; `AgentSession` opens that step up and needs no
threads, for the same reason. `AgentExecutor` sees both only through what a worker
thread brings back. `AgentSession` lets the planners decide freely what is read,
asked and frozen; `Workflow` is the other way round, with the planners in detail and
of a bundle only the confirmation, the calls in order and their results. The rules
of `PolicyRules` decide what a bundle holds before it is frozen. That a call is done, which
`AgentSession` and `Workflow` take as an outcome of its result, is `validate` of
`Completion`.

### SessionStore

One action per critical section. A thread that runs an operation has a program
counter `pc` whose values are the points between two critical sections; every
other thread may run there. The store lock is never held across actions; the
session lock is `owner` (re-entrant: `CanLock`).

| Action | Code |
|---|---|
| `Start` | a message handed to a worker, an executor cancel, a reopen |
| `ReplayLookup`, `ReplayRead` | `SessionStore.replay_for`: store lock, then session lock |
| `GetOrCreate` | `get_or_create`: purge, refusal by a tombstone, popping a closed session, reuse, creation with eviction |
| `Enter` | `synchronized` and `accept_or_replay` |
| `Work`, `Fail` | handling and `cache_outbound`, or an exception |
| `CloseRead`, `CloseMark`, `CloseCommit`, `CloseBlind` | the critical sections of `_close`, with and without a session |
| `GetSession`, `RemoveContext`, `Reopen` | `get`, `remove`, `reopen` |
| `Tick` | the monotonic clock |

Session objects are numbered as they are created, so that an object evicted from
the store lives on in the threads that hold it. A message is abstracted to its
kind, an answer to what the store tells apart: text, tool calls, or tool calls
that end the session.

### AgentSession

One event at a time. `phase` is the stage reached in handling it; between events
it is `idle`.

| Phase | Actions | Code |
|---|---|---|
| `idle` | `UserAside` ... `UserRequests`, `EmptyEvent`, `MalformedEvent`, `CloseEvent`, `ResultsEvent`, `StrayResultsEvent` | `_handle_active_event`, the head of `_process_user_text` and `_process_tool_results` |
| `request` | `NewGoals`, `RequestAuthorizes`, `RequestWithdraws`, `FollowUp`, `OtherRequest` | the request handlers, grounding and `GoalPlanner.update` |
| `results` | `SetVerified`, `SetNotVerified`, `SetToReadBack`, `ReadSucceeds`, `ReadFails`, `ResultRepeated`, `ResultUnmatched`, `ResultsDone` | `_process_tool_results` |
| `plan` | `PlanWaits`, `ReadBack*`, `PlanCompleted`, `PlanNextCall`, `PlanText`, `PlanLimits`, `PlanFinishes`, `PlanExpands`, `PlanForgets`, `PlanReads`, `PlanComplete`, `Freeze` | `_plan_next` and the workflow planners |
| `check` | `CheckAllows`, `CheckRefuses`, `CheckRefusesMidway`, `CheckReads`, `CheckAsks`, `CheckStale` | `_validate_bundle_step` and the gate |
| `review` | `ReviewAccepts`, `ReviewVetoes`, `ReviewReplans` | `_validate_planner_proposal` |
| `record` | `RecordText`, `RecordComplete`, `RecordReads`, `RecordSet`, `RecordExhausted` | `_record_outbound` |
| any but `idle`, `record` | `Fault` | the exception handlers of `_handle_active_event` |

What is abstract: a call is a model value that stands for the fingerprint of a
tool name with its arguments; the wording and classification of replies is a free
choice among agreeing, refusing, conflicting and unclear; which plan is frozen,
which reads are sent and which goals a request brings is a free choice; the gate
may refuse for reasons that are not modelled (schema, provenance, closure), but
allows only under `Allowed`. `sent`, `agreed`, `tainted` and `reported` are
history variables that no guard reads.

The confirmation latch keeps one entry per plan and turn in which it was armed:
the scope fingerprint stands for the plan. `authorized_confirmation` is not pure
in the code, and `Consulted` keeps its side effects.

`CarActions` says the same without goals, evidence, budgets, confirmations or the
language model: a bundle is chosen, its calls are sent one at a time, each after the
one before was verified, none ever again, and it may be given up at any time. The
refinement mapping is at the end of `AgentSession`: `Chosen` and `Advances` are the
frozen bundle and its position, `Flight` the pending call whose result has not been
dealt with or the one that waits to be read back.

### AgentExecutor

`car_bench_agent.py`. Every call of `execute` or `cancel` is a coroutine of one
event loop, so the code between two awaits is one action; `pc[x]` is the await at
which call `x` is suspended. Each call is made once.

| Action | Code |
|---|---|
| `Submit`, `Answer` | `execute` up to and after `asyncio.to_thread(handle_message)`: the sanitized answer or the failure text, and the context's lock |
| `Decide`, `Send` | the locked section: `_is_cancelled` with the removal of an expired mark and of the lock, then `enqueue_event` |
| `AskToCancel`, `SetMark` | `cancel` up to `asyncio.to_thread(sessions.cancel)` |
| `Closed`, `CloseFails`, `Publish` | the store cancelled or raised; the canceled status is published |
| `Tick` | the monotonic clock |

A lock object is named after the call that created it, so that one that has left
the dictionary is still told apart from the next. The lock is given to any call
that waits for it, which includes the order in which asyncio gives it. `execute`
and `cancel` use the orchestrator and the store only through a thread's result, so
these are free choices here: any answer, any failure. `at` is a history variable.
A coroutine that its caller abandons is not modelled.

### Workflow and its tables

`_plan_next` calls each `_next_*_workflow` after every event, and each walks from its
top: a thing it needs is known by now, or it is asked of the car or of the user and
the function returns. A workflow is therefore a sequence of steps that depends on
what is known and which goals are done (`WorkflowSteps`): tools and schemas that must
be there, things the words settle, reads made together, a question, a bundle, an
answer. `Workflow` walks the steps from the top, up to the first that does not let pass; nothing remembers how
far it came before. When all goals are done the planner takes no workflow up again and
answers what was done (`Walk`). A request with several goals, warming the driver or
setting a zone, looks at their status in its own steps (`WarmDriver`, `SyncZone`), and
that alone keeps it from doing twice what it has done.

| Action | Code |
|---|---|
| `Begin` | a request activates a workflow, with what it may take over from the one before |
| `PlanLimits`, `PlanFinds`, `PlanReads`, `PlanAsks`, `PlanReplies`, `PlanCalls` | the outcomes of one walk; `PlanLimits` includes a read that the budget or the gate refuses |
| `ReadsReturn` | results become evidence with the state version and the arguments of the read, or fail |
| `UserAnswers`, `UserConfirms`, `UserDeclines` | the reply to a question or to the confirmation |
| `CallSent`, `CallSucceeds`, `CallFails` | execution of the frozen bundle; every outcome but success ends it |
| `OtherChange` | between requests another one has changed the car |

A reading has a value out of a small set that names the cases the code tells apart
(`"several"` routes, a `"stopped"` navigation), `"bad"` when it is malformed or not
what was asked for. `Parents` says what the arguments of a read depend on: evidence
answers a question only while these have the values they had then. `Key` tells which
things are fetched by the same tool, for the count of identical reads.

`ConditionalNavigation` has the one workflow in which a reply moves readings other
than the ones it was asked about; `choice_moves` shows it.

### PolicyRules and PolicyBundle

`policy/rules.py`, one operator per rule. A decision is a record of sets: what must be
read, which calls come first, which rules ask for consent, what forbids the call, what
the answer must say. `evaluate_rules` merges the general decisions with those of the
active rules. Facts that are not known are no fields of the record of facts, so that
reading before judging is part of the model. `PolicyBundle` holds
`_add_policy_prerequisites`, three rounds that put in front what the rules want first,
and, external, what the calls do to the car (`Parts`, `Value`, `Carried`) and how it
must be for each order (`Fit`).

Which rules are active is a parameter. Recognising them in the system text and the
aliases of facts and operations are not modelled.

### Completion and RouteEdits

The contracts of `runtime/completion.py` are a record of rules per tool (`Specs`), each of
which compares a field of the answer with an argument of the call; `validate` looks at
the status first and then at the rules in order. For the four edits of a navigation the
orchestrator adds what it expects the car to show to these arguments
(`CompletionArguments`), and `RouteEdits` models where that comes from: the navigation
that was read, the options the car gave for the new legs and the choice among them
(`Options`, `Chosen`, `Matching`, `Joining`), and the lists spliced from both (`AfterAdding`,
`AfterReplacing`, `AfterDeleting`, `AfterReplacingDestination`, `AfterRecentAdd`). What the
user is told of tolls and of the next stop is computed from the same readings
(`TollAfterReplacingDestination`, `TollAfterAdding`, `DeletionTold`). Waypoints and routes are
opaque; the car is external: `Leads` says which places a route joins, `Tolled` which
routes have a toll, `Truly` that an answer of the car agrees with both. How JSON is found
in a text is abstracted to `raw.readable`.

### Track2Agent

One variable `loop` stands for the execution in progress: `execute` calls the model
synchronously inside a coroutine, so from the moment a message is taken until its
answer is enqueued the event loop serves nobody else, and no `cancel` either.

| Action | Code |
|---|---|
| `UserSpeaks`, `ToolsReturn`, `UserCancels` | what the evaluator may send |
| `Begin` | `_append_inbound_to_history` and the choice of the plan |
| `Refuse`, `Wake`, `Break` | `generate`: a rate limit with its headers, the wait it leads to, another failure |
| `ReplyPlan`, `ReplyAction`, `ReplyMalformed` | the model's text parsed, or the correction loop, which JSON that is not an object leaves at once |
| `Deliver`, `DeliverFails`, `Apologise` | the answer enqueued; the exception handler of `execute` |
| `Cancel` | all that is kept for the context is dropped |

The content of plans and answers is abstract, tool results are bound by tool name as
in the code, seconds are small numbers.

### EvaluatorTask

A task is a coroutine of the event loop and every await is a place where `cancel` may
run; the benchmark of a split runs in a thread that does not know of the
cancellation. `Refuse` ... `Finally` are `execute`, `Enter` ... `ReportFailure` are
`run_eval`, `BeginTrial` ... `EndTrial` the thread with the remote agent through which
it talks. The library's updater is external; whether it refuses a status after a
terminal one is a free choice (`strict`), as the code works with either; artifacts it
accepts at any time.

## 3. Runs

| Run | Properties | What it shows |
|---|---|---|
| `store_reliable` | `OneOpenSession`, `OneWorkerPerContext`, `OneAnswerPerMessage`, `TombstonesAreSafe`, `NoToolReplayAfterClose` | While nothing is evicted, three racing workers share one session, take turns, and a redelivered message has one answer; tombstones keep text only, that of a cancelled context only the cancelling answer; the tool calls of a closed session reach only a redelivery that had fetched the session before. |
| `store_pressure` | `TypeOK`, `LocksAreReleased`, `ClosedSessionIsFrozen` | Under eviction and expiry locks are released, dictionaries stay bounded, closed sessions stay as they were. |
| `store_live` | `EveryOperationReturns` | No deadlock and no lock left behind, also with `get`, `remove` and `reopen` called at any time. |
| `session_shared` | `TypeOK`, `OneOutstandingSet`, `AtMostOnce`, `DoneMeansVerified`, `NoStaleEvidence`, `SentOnlyWithConsent` | Plans that share calls: state changes are serial, sent at most once, wanted; goals are done only when verified; evidence gathered before a change is never current after it (no call here needs a readback). |
| `session_chain` | `ReportedStaysDone`, `SentInGoalOrder`, `NoSilentHalfway`, `ImplementsCarActions`, `EveryEventAnswered` | A confirmed plan with reads and a readback, and a dependent plan that ends the session: goals in order; a bundle given up after a call of it was sent fails its goals and declares the evidence stale, unless its first call only waits to be read back; the refinement of `CarActions`; an answer to every event. |
| `exec_cancel` | `TypeOK`, `SerialEmission`, `CancelLinearizes`, `EveryCallReturns` | Two requests and a cancellation of a context, and calls without one: responses are sent one at a time until a mark has expired; once the mark is set every response says "cancelled" until it expires; every call ends. |
| `workflows` | `TypeOK`, `SentOnPresentReadings`, `NothingTwice`, `EveryRequestEnds`, `NavigationFits` | Conversations of up to five requests over all workflows: whatever was said, changed, declined or failed in between, a bundle is sent on readings of the present car made with the present arguments, nothing is done again for a goal that is done, and every request is answered; what changes a navigation fits the one the car follows. |
| `track2` | `TypeOK`, `NoDanglingCalls`, `FollowsPresentPlan`, `AccountsAddUp`, `HintsAreFollowed`, `EveryMessageAnswered` | A provider that limits, fails and babbles, deliveries that fail, cancels: the model never sees a transcript with an unanswered call, never works along the plan of an earlier turn, metrics lose nothing, the clients keep account of their reports, and every message is answered. |
| `evaluator` | `TypeOK`, `NeverCompletedAfterCancel`, `ConversationsAreSeparate`, `ArtifactsAddUp`, `EveryTaskIsForgotten` | An assessment cancelled at any await and failing anywhere: it is never complete after a cancel, its trials never share a conversation, its artifacts cover each other, and it leaves the table of active tasks. |

The session runs also evaluate the assumption `BundlesAreComplete` of
`MCAgentSession`: for each of five orders and every car of a small instance the
rounds of `_add_policy_prerequisites` leave nothing to add, and at each call of the
bundle the car is as the rules want it for that call. The run `workflows` evaluates
three of `MCRouteEdits`: `EditsAreRoutes`, every edit of every navigation of two to four of
four places is a connected route, which can be read again just when it has no more
waypoints than a navigation may have and none twice; `AnswersAreJudged`, of all answers
that show a navigation just the one with the edited one is taken for a success;
`TollsAreTold`, the toll that is told of a new destination is that of the whole route.

`EditsAreRoutes` has the two limits as a condition because the code does not ask for
them everywhere: a place is added to a route of any length, and a stop may be replaced by
a place that is on the route already. Such an edit is sent and judged like any other,
but `_navigation_state_signature` refuses the navigation afterwards, so later requests
about it find none.

Runs that show a disagreement between the code and what it says of itself:

| Run | Property | What the code does |
|---|---|---|
| `session_readback` | `NoStaleEvidence` | An abort while a first state change waits for its readback does not declare the evidence stale: the call is not pending any more and the bundle has not moved on. It is the exception that `NoSilentHalfway` makes. |
| `exec_twice` | `CancelLinearizes` | A second cancellation that the store refuses withdraws the mark of the first, and a tool response held back by the first is sent. |
| `choice_moves` | `ChoiceStillHolds` | A conditional navigation keeps one route choice for three sets of routes, so the reply to the question about one is applied to the others and may move the destination that was asked about. |

In the instance of `exec_twice` the property also fails in a second way: `_is_cancelled`
removes an expired mark together with the lock its caller holds, so a new
cancellation finds no lock, does not wait, and is accepted while that caller's
response is still being enqueued.

Disagreements that show in traces of the models and have no run of their own:

* `replay_for` looks a session up, releases the store lock and then reads its cache,
  so a redelivery may be answered with cached tool calls of a session closed in
  between, although `mark_terminal` says they never are (`session_store.py:643`).
  `NoToolReplayAfterClose` states what does hold.
* A session in use by a worker may be evicted, and the next message of its context
  gets another session and another lock (`session_store.py:345` promises one worker
  per context); `OneWorkerPerContext` is therefore checked without eviction.
* `_close` without a session writes its tombstone without looking again, so a session
  created in between stays in the store beside the tombstone, which hides it until the
  tombstone expires.
* A bundle that repeats a call done earlier in the session is started and given up at
  that call, where `architecture.md:18` has a bundle refused before its first change.
* `PlanLimits` of `Workflow`: identical reads are counted over the whole session, so
  the third request that reads the navigation is refused although nothing is wrong;
  it is answered with a limitation.
* All calls of a bundle are judged by the facts known before the first of them. Two
  orders of which the first changes what the second rests on are judged apart from
  each other until the gate asks the rules again before each call.

### Bounds, and why they are enough

* `SessionStore`: two or three threads, one or two contexts, one or two
  messages, four to six session objects, `MaxSessions` of one, a clock of at most
  one tick, which is the TTL. Every hazard of the store is a race of two operations on
  one context, with a third object needed only to push the first out.
* `AgentSession`: two goals, three calls, one evidence read and the readback, plans
  of one and two calls, two results per event, three user turns and six to
  eight steps. A plan is asked for, confirmed, sent, verified and reported in two
  turns and five steps, so there is room for a whole plan and for a second one that
  meets what the first left behind. Where the budgets do end, `UserTurnRefused` and
  `RecordExhausted` are part of the behaviour. `MaxResults` lets one event carry a
  result and a repetition.
* `BundlesAreComplete`: five orders, one for each rule that puts something first; each
  part of the car on both sides of the limit its rules compare with, the windows are one at
  either side of 20 percent, one above it, one shut, one open. The theorems have no such bounds, but
  are about an order by itself.
* `MCRouteEdits`: four places, so that a navigation of four is as long as `Most` allows
  and has two stops between; two routes each way, one with a toll and fastest, the other
  shortest, so that the names a choice may have come apart.
* `AgentExecutor`: two requests and one cancellation of the same context (two in
  `exec_twice`), a TTL of two ticks and a clock of three, so that marks are young,
  old and expired while others wait; one request and one cancellation without a
  context. The theorems cover every number of calls and contexts.
  `CHECK_DEADLOCK FALSE` because all calls end.
* `Workflow`: `MaxGets` of two is the code's default; one change of the car between
  requests and two repeated reads (`MaxRepeats`) meet every walk of a request once
  with stale and once with failed evidence. `Follows` names the requests that use what
  an earlier one read or showed; the longest such chain has five (`MaxRequests`).
* `Track2Agent`: one context, as executions do not overlap, so that of what holds up
  others only its own cancels are checked; two tools, up to two calls at once with results
  in either order, so that binding by name meets both a name that occurs twice and results
  in another order than the calls; one correction; headers that are
  absent or zero, which is the edge of the wait. Counters are kept up to two in a turn
  and one in a client's reports (`Cap`, `ClientCap`).
* `EvaluatorTask`: one task, two splits, two trials of two messages, four conversations
  (`MaxContexts`), and no cancel of a task that has ended twice (`MaxTold`): tasks share
  nothing but the tables.
* `CHECK_DEADLOCK FALSE` is set where the system may stop: all calls made, all requests
  served, a session closed, a task ended, budgets of messages used up.

### Fairness

* `SessionStore`: weak fairness of each thread's steps. The interpreter schedules
  every runnable thread, the locks are released by `with` blocks, and no step waits
  for anything but a lock.
* `AgentSession`: weak fairness of `Handle`, the work of the thread that handles an
  event. Users and the evaluator owe nothing, and `Fault` is not fair: answering
  does not rely on an exception.
* `AgentExecutor`: weak fairness of each call after it was made. The event loop
  resumes what can run; that worker threads come back is what `store_live` and
  `session_chain` show of the code they run; a lock is released by `async with` on
  every exit. With finitely many calls none can be overtaken for ever.
* `Workflow`: weak fairness of planning and answering together. That a request ends
  relies on the car and the user to answer, well or badly; no particular answer is
  owed, and neither is a next request.
* `Track2Agent`: the event loop serves what is ready, in order of arrival, which is
  strong fairness of `Begin` and `Cancel` as the loop is taken again and again; a sleep
  ends; the provider does not answer every request with another rate limit (strong
  fairness of its other outcomes), as the code waits for that without bound.
* `EvaluatorTask`: weak fairness of `Run`, coroutines and threads that can go on, and of
  the report of a cancel. Nobody has to cancel.

## 4. Proofs

Every safety invariant and every action property of the runs is a theorem, but for
`NavigationFits` and `NothingTwice`, which are about the particular tables. Each theorem rests on an inductive
invariant that TLC checked before it was proved.

### AgentSession and CarActions

`AgentSessionProofs` proves, for any set of goals with any dependencies, any calls,
any plans without repeated calls, and any budgets (`SessionAssumption`,
`PlanAssumption`, and `NoneAssumption`: None is no pending call):

| Theorem | Statement |
|---|---|
| `AlwaysInductive` | the inductive invariant holds |
| `TypeCorrect` | `Spec => []TypeOK` |
| `SetsAreSerial` | `Spec => []OneOutstandingSet` |
| `SetsAreSentOnce` | `Spec => []AtMostOnce` |
| `ConsentComesFirst` | `Spec => SentOnlyWithConsent` |

None of these properties is inductive by itself. `Inductive` is the conjunction of

* `TypeOK`;
* `Serial`: what may be outstanding in which phase. In particular, while results
  are processed a set without a result yet is still the current call of the bundle
  (`BatchOK`), and an answer that carries a state change was prepared with nothing
  else outstanding and with a call never attempted;
* `Consent`: a confirmation that can still authorize belongs to the bundle in hand
  and was agreed to after the question of that bundle, and once a call of a bundle
  is under way its question is settled;
* `Once`: a call that was sent counts as attempted.

The proof that `Next` keeps `Inductive` has a lemma per stage (`EventKeeps`,
`RequestKeeps`, `ProcessResultsKeeps`, `PlanStepKeeps`, `CheckStepKeeps`,
`ReviewKeeps`, `AnsweringKeeps`) with a case per action. Lemmas that carry most of
it: `AbortEffect` and `AbortAndSay` (what giving up does, wherever it happens),
`NothingLeft` (without a bundle little is left to show), `FrozenKept`,
`AdvanceEffect`, `AuthorizedIsAgreed`. `ConsentComesFirst` follows from `Consent`
and the lemma that `RecordSet` is the only action that sends a state change.

Its second part proves the refinement from `Inductive`: the initial states map to
initial states, and each action to a step of `CarActions` or to a stutter.

| Theorem | Statement |
|---|---|
| `SessionImplementsCarActions` | `Spec => ImplementsCarActions` |
| `AlwaysInOrder` | `Car!Spec => []Car!InOrder`, of the abstract specification |
| `CarSeesOrder` | `Spec => []Car!InOrder`, carried over by the refinement |

Its third part proves what becomes of goals and evidence:

| Theorem | Statement |
|---|---|
| `DoneIsVerified` | `Spec => []DoneMeansVerified` |
| `ReportsStand` | `Spec => []ReportedStaysDone` |
| `GoalsInOrder` | `Spec => SentInGoalOrder` |
| `HalfwayIsHonest` | `Spec => NoSilentHalfway` |
| `EvidenceIsFresh` | `Readable = {} => (Spec => []NoStaleEvidence)` |

They rest on a second invariant, `Ledger`: the goals of the bundle in hand are of the
present request, not reported yet, and what they depend on is done (`BundleOK`); an
outstanding call is for one of them (`PendingOK`), an answer about to report completion reports what is done (`ReportOK`), and
a critic may replan only the first proposal (`FirstProposal`). `Ledger` is kept with the
help of `Inductive` and of `Car!InOrder`, which comes from the refinement.
`EvidenceIsFresh` adds `Timely`, when readings were made and when a bundle without a
verified call still waits for one; `session_readback` shows that its condition, no call is
read back, cannot be dropped.

### AgentExecutor

`AgentExecutorProofs` proves, for any calls, contexts, TTL and clock
(`ExecutorAssumption`):

| Theorem | Statement |
|---|---|
| `ExecutorTypeCorrect` | `Spec => []TypeOK` |
| `EmissionIsSerial` | `Spec => []SerialEmission` |
| `CancelIsLinear` | `CancelledOnce => (Spec => []CancelLinearizes)` |

The invariant `IInv` says that a call inside the section holds the lock it refers
to (`Owned`), that the calls of a context refer to one lock until a mark of it has
expired (`SameLock`), and that every mark was set by a cancellation of its context
(`MarksHaveSource`, `NotYet`). `CancelIsLinear` adds that the mark of an accepted
cancellation stays in place until it expires (`MarkStands`); this is where
`CancelledOnce`, no context is cancelled by two calls, is needed, and `exec_twice`
shows that it cannot be dropped.

### The rules, and the edits of routes

`PolicyRulesProofs` proves, for any request, facts and set of active rules:

| Theorem | Statement |
|---|---|
| `OneRoundOfReads` | when everything the rules wanted to read is known, they want to read nothing more |
| `FirstsAreEnough` | when the calls they want first were carried out, in any order, they want no more of them, and the car is as the order needs it (`Fit`) |
| `FirstsNeedNoConsent` | these calls are themselves neither forbidden nor subject to consent |

The last two are about a fully known car (`IsCar`) and an order by itself (`Alone`): no
other call of the bundle turns the fan on or closes a window. The lemmas say, for each
rule, which calls it wants first and what these do to the car (`WhoWantsFirst`,
`WhatCallsDo`).

`RouteEditsProofs` proves, for any places, routes and navigations of any length, and any
answers of the car:

| Theorem | Statement |
|---|---|
| `EditsStayConnected` | each edit of a connected route leaves one, from the same start, when the car describes its routes truly |
| `EditsStayReadable` | and one the agent can read again, when there is room for a new place that is not on the route yet |
| `CompletedEditIsShown` | an edit is judged a success only when the answer shows just the waypoints and routes that were expected |
| `CompletedEditIsConnected` | so the car, by its own answer, is on a connected route from where the old one began |
| `TollOfNewDestinationIsTrue` | what is told of tolls after a new destination is true of the whole new route |
| `DeletionIsToldOfFirstStop` | the message with the next stop is given only when the first stop was deleted |

All edits are one operation, `Spliced`: the lists up to a waypoint and from a later one
on stay, others come between (`EditIsSplice`). `SpliceOfSequence` says what the elements of
such a list are, from which `SplicedIsConnected` follows leg by leg, given that the new legs
lead from stop to stop (`LeadOver`, by `TakenLeads` because the options were checked against
the places they were asked for). `SplicedIsNavigation` adds that no place occurs twice;
no route does then either, since a route leads to one place only (`RoutesAreDistinct`).

### SessionStore

`SessionStoreProofs` proves, for any contexts, messages, threads, objects, limits and
clocks (`StoreAssumption`):

| Theorem | Statement |
|---|---|
| `StoreAlways` | the inductive invariant holds |
| `StoreTypes` | `Spec => []TypeOK` |
| `LocksReleasedAlways` | `Spec => []LocksAreReleased` |
| `TombstonesSafeAlways` | `Spec => []TombstonesAreSafe` |
| `OneAnswerAlways` | `Spec => []OneAnswerPerMessage` |
| `ClosedIsFrozen` | `Spec => ClosedSessionIsFrozen` |
| `NoToolReplayAlways` | `Spec => NoToolReplayAfterClose` |
| `OneOpenAlways` | `NothingEvicted => (Spec => []OneOpenSession)` |
| `OneWorkerAlways` | `NothingEvicted => (Spec => []OneWorkerPerContext)` |

The invariant `Store` adds to the types what a thread is at (`CallOK`), who holds which
session lock (`LockOK`: the thread inside, on the object it obtained, and the closing
thread, on the object it found), that an object not created yet is blank (`BlankOK`),
when an answer is cached (`AnswersOK`: not before the message was accepted, not twice, and
only by a thread for which the session is open), and what was returned from a session
(`ResultsOK`). `OneAnswerPerMessage` needs `AnswersOK` because a thread that read the
cache may return long after another has written it; `ClosedSessionIsFrozen` needs
`LockOK` because the close and the writer exclude each other only by the session lock.

`NothingEvicted` is the hypothesis of the run `store_reliable`: no `remove` and `reopen`,
a clock that does not reach the TTL, room for every context. Under it `Mapped` is
invariant too: the store maps a context to at most one object and misses no open one, so
two threads that work for one context would hold the same lock. Without it both
properties fail, which is the disagreement about eviction in section 3.

### EvaluatorTask

`EvaluatorTaskProofs` proves, for any tasks, splits, trials, turns and contexts
(`EvaluatorAssumption`), with an updater of either kind:

| Theorem | Statement |
|---|---|
| `AssessmentsAlways` | the inductive invariant holds |
| `EvaluatorTypes` | `Spec => []TypeOK` |
| `NeverCompletedAlways` | `Spec => []NeverCompletedAfterCancel` |
| `SeparateAlways` | `Spec => []ConversationsAreSeparate` |
| `ArtifactsAlways` | `Spec => []ArtifactsAddUp` |

The invariant `Assessments` says who was told of a cancellation (`Cancelled`), that the
contexts are numbered as they were opened and a conversation that goes on was had by the
present trial (`Spoken`), and that results are those of the splits that are done with
(`ResultsFit`, `ArtifactsFit`); the last artifact is complete because a task that runs has
all results of each split it has passed. That the loop over the splits skips none, and
ends when none is left, is `FollowingFound` and `AllDone`.

### Track2Agent

`Track2AgentProofs` proves, for both variants, any contexts, tools, limits and signals
(`Track2Assumption`):

| Theorem | Statement |
|---|---|
| `ServesAlways` | the inductive invariant holds |
| `Track2Types` | `Spec => []TypeOK` |
| `NoDanglingAlways` | `Spec => []NoDanglingCalls` |
| `PresentPlanAlways` | `Spec => []FollowsPresentPlan` |
| `AccountsAlways` | `Spec => []AccountsAddUp` |
| `HintsAlways` | `Buffer > 0 => (Spec => []HintsAreFollowed)` |

The invariant `Serves` follows a message on its way: it is in one place only
(`OnePlace`), and while the history ends in calls, what is on the wire or comes back is
just these calls, in some order (`CallsFit`). Then binding by name takes each call once,
whatever tools occur twice: that nothing is left over is `AllAnswered`. `PlanFits` says
when there is a plan, `BooksFit` where the cost of a turn is kept. `Buffer > 0` is
needed where a provider asks to wait no time at all: a wait of zero seconds counts as
none.

### Workflow

`WorkflowProofs` proves, for any requests, things, values, dependences and derived values
(`WorkflowAssumption`) and any tables of well-formed steps (`Tabled`):

| Theorem | Statement |
|---|---|
| `WalkingAlways` | the inductive invariant holds |
| `WorkflowTypes` | `Spec => []TypeOK` |
| `PresentReadings` | `Spec => SentOnPresentReadings` |

`Tabled` says that, whatever is known and done, the steps of a request are a sequence of
well-formed ones (`WellFormed`): things that exist, calls that are some, answers that
there are, and nothing read that the user says. The run `workflows` checks this of the
project's tables in every state, as part of `TypeOK`. The invariant `Walking` adds that a
bundle of which no call was sent is the one the walk stands at: nothing that the walk
depends on changes while the user is asked to confirm. What the walk promises there is
`WalkedEnds`: it always has an end, and every step before the end lets pass.
So a new planning function has these properties by being written in these steps. That
nothing is done twice it has to see to itself.

### What is only model-checked

* Liveness, which with fairness is out of the prover's reach: `EveryOperationReturns`,
  `EveryEventAnswered`, `EveryCallReturns`, `EveryRequestEnds`, `EveryMessageAnswered`,
  `EveryTaskIsForgotten`.
* `NavigationFits` and `NothingTwice`, about what the workflows of the project read, send
  and remember of their goals: a proof would be one by cases over every table.
* `BundlesAreComplete`, about bundles and rounds, which a recursive definition computes for
  bundles of any length; `EditsAreRoutes`, `AnswersAreJudged` and `TollsAreTold`, of which
  `RouteEditsProofs` proves the parts above.
* Where a proof needs the smallest or largest of some numbers, or induction over a
  bounded range, it comes from the well-foundedness of the subset order on finite sets
  (`WFMin`), which needs no operator as a parameter; more induction than that is out of
  reach.

## 5. Not modelled, and the plan

* Grounding of text, recognition of rules, names and aliases, wording of answers,
  provenance and schemas: what they decide is a free choice, or a value of a reading.
* The language model, behind the planners and behind the general critic: any proposal
  and any verdict.
* Between freezing and sending, functions named `*_bundle_is_current` check some
  bundles again; `Workflow` does without them, so its properties do not rest on them.
* The task cancellation of the A2A framework, its queues and HTTP layer are not in the
  repository. A coroutine that its caller abandons is not modelled.
* The benchmark, the file of its intermediate results and its scores.
* Plots, scripts and compose files have no state of interest.

Planned, in this order:

1. `ToolResultMatching`: external ids, duplicates and late results, with the evidence
   each result becomes.
2. `ConfirmationLatch` as a component with an abstract specification: a confirmation
   authorizes one exact scope, once, in the turn it was given.
3. Disambiguation and the checks of the gate as operators against reference definitions.
