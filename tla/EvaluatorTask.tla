--------------------------- MODULE EvaluatorTask ---------------------------
(***************************************************************************)
(* Assessments as the evaluator serves them: execute and cancel of         *)
(* EvaluatorExecutor around run_eval of CARBenchEvaluator, the benchmark   *)
(* thread it starts for each split of tasks, and the remote agent through  *)
(* which that thread talks to the agent under test.                        *)
(*                                                                         *)
(* A task is a coroutine on the event loop; every await is a place where   *)
(* cancel may run.  The benchmark runs in a thread and does not know of    *)
(* the cancellation.  The event queue and the updater of the A2A library   *)
(* are external: `strict' says whether the updater refuses a status after  *)
(* a terminal one, which the code works with either way; artifacts it      *)
(* always accepts.                                                         *)
(***************************************************************************)
EXTENDS Integers, FiniteSets, SequencesExt

CONSTANTS
  Tasks,        \* assessments requested of one evaluator
  Splits,       \* sequence of the task types, in the order run_eval takes them
  Trials,       \* trials of one split
  Turns,        \* messages of one trial, at most
  MaxContexts,  \* bound on the conversations the agent under test opens
  MaxTold       \* bound: no one cancels a task that has ended so often

ASSUME EvaluatorAssumption ==
  /\ Trials \in Nat /\ Turns \in Nat \ {0} /\ MaxContexts \in Nat /\ MaxTold \in Nat
  /\ Splits \in Seq(ToSet(Splits))
  /\ \A i, j \in DOMAIN Splits : Splits[i] = Splits[j] => i = j

VARIABLES
  pc,          \* where execute of a task is
  split,       \* the position in Splits run_eval has reached
  configured,  \* the splits a request asks for
  active,      \* _active_tasks and _task_updaters
  cancelled,   \* the cancel events that are set
  told,        \* the terminal statuses published for a task, in order
  strict,      \* whether the updater refuses a status after a terminal one
  cancelling,  \* calls of cancel that have set the event and not yet published
  results,     \* results_by_split of a task, in one list: the split of each result
  artifacts,   \* the numbers of results in its artifacts, in order
  bench,       \* the benchmark thread and its remote agent
  spoke        \* contexts of the agent under test, with the trials that used them

vars == <<pc, split, configured, active, cancelled, told, strict, cancelling,
          results, artifacts, bench, spoke>>

\* The remote agent of a thread: the trial it plays, the messages it has sent in
\* it, _is_first_message, and the context its tool provider remembers (0: none).
NoBench == [trial |-> 0, sent |-> 0, first |-> TRUE, context |-> 0]

Working == {"next", "bench", "collect"}
Terminal == {"completed", "failed", "canceled"}

-----------------------------------------------------------------------------
Init ==
  /\ pc = [t \in Tasks |-> "new"]
  /\ split = [t \in Tasks |-> 0]
  /\ configured \in [Tasks -> SUBSET ToSet(Splits)]
  /\ active = {}
  /\ cancelled = {}
  /\ told = [t \in Tasks |-> <<>>]
  /\ strict \in BOOLEAN
  /\ cancelling = {}
  /\ results = [t \in Tasks |-> <<>>]
  /\ artifacts = [t \in Tasks |-> <<>>]
  /\ bench = [t \in Tasks |-> NoBench]
  /\ spoke = {}

\* Publishing raises when the updater is strict and the task already ended.
Refused(t) == strict /\ told[t] # <<>>

Publish(t, status) ==
  told' = IF status \in Terminal /\ ~ Refused(t) THEN [told EXCEPT ![t] = Append(@, status)]
          ELSE told

Goto(t, label) == pc' = [pc EXCEPT ![t] = label]

\* A failure inside run_eval leads to its own report of it.
Proceed(t, label) == Goto(t, IF Refused(t) THEN "failing" ELSE label)

-----------------------------------------------------------------------------
(* EvaluatorExecutor.                                                      *)

\* execute: the request is refused, or becomes a task that can be cancelled.
Refuse(t) ==
  /\ pc[t] = "new"
  /\ Goto(t, "refused")
  /\ UNCHANGED <<split, configured, active, cancelled, told, strict, cancelling,
                 results, artifacts, bench, spoke>>

Start(t) ==
  /\ pc[t] = "new"
  /\ active' = active \cup {t}
  /\ Goto(t, "working")
  /\ UNCHANGED <<split, configured, cancelled, told, strict, cancelling,
                 results, artifacts, bench, spoke>>

\* The first status of a task is published outside the try that forgets it.
Announce(t) ==
  /\ pc[t] = "working"
  /\ Goto(t, IF Refused(t) THEN "raised" ELSE "entered")
  /\ UNCHANGED <<split, configured, active, cancelled, told, strict, cancelling,
                 results, artifacts, bench, spoke>>

\* cancel sets the event of an active task and reports at once; any other task
\* cannot be cancelled.
Cancel(t) ==
  /\ t \in active
  /\ t \notin cancelling /\ Len(told[t]) < MaxTold
  /\ cancelled' = cancelled \cup {t}
  /\ cancelling' = cancelling \cup {t}
  /\ UNCHANGED <<pc, split, configured, active, told, strict, results, artifacts,
                 bench, spoke>>

ReportCancel(t) ==
  /\ t \in cancelling
  /\ cancelling' = cancelling \ {t}
  /\ Publish(t, "canceled")
  /\ UNCHANGED <<pc, split, configured, active, cancelled, strict, results,
                 artifacts, bench, spoke>>

\* Mutant of Verdict: the event is not looked at when run_eval has returned.
Unasked(t) == "completed"

\* What execute reports when run_eval has returned.
Verdict(t) == IF t \in cancelled THEN "canceled" ELSE "completed"

Conclude(t) ==
  /\ pc[t] = "over"
  /\ Publish(t, Verdict(t))
  /\ Goto(t, IF Refused(t) THEN "handler" ELSE "finally")
  /\ UNCHANGED <<split, configured, active, cancelled, strict, cancelling,
                 results, artifacts, bench, spoke>>

\* The exception handler of execute.
Handle(t) ==
  /\ pc[t] = "handler"
  /\ Publish(t, IF t \in cancelled THEN "canceled" ELSE "failed")
  /\ Goto(t, "finally")
  /\ UNCHANGED <<split, configured, active, cancelled, strict, cancelling,
                 results, artifacts, bench, spoke>>

\* Mutant of Forgotten: a failed task is kept.
ForgottenUnlessFailed(t) == IF Contains(told[t], "failed") THEN active ELSE active \ {t}

Forgotten(t) == active \ {t}

Finally(t) ==
  /\ pc[t] = "finally"
  /\ active' = Forgotten(t)
  /\ Goto(t, "ended")
  /\ UNCHANGED <<split, configured, cancelled, told, strict, cancelling, results,
                 artifacts, bench, spoke>>

-----------------------------------------------------------------------------
(* CARBenchEvaluator.run_eval.                                             *)

\* The first status of run_eval is published outside its own try.
Enter(t) ==
  /\ pc[t] = "entered"
  /\ Goto(t, IF Refused(t) THEN "handler" ELSE "next")
  /\ UNCHANGED <<split, configured, active, cancelled, told, strict, cancelling,
                 results, artifacts, bench, spoke>>

\* Mutant of Following: a split that was not asked for is taken as well.
FollowingAny(t) == IF split[t] = Len(Splits) THEN 0 ELSE split[t] + 1

\* The next split that the request asks for, 0 when there is none.
Following(t) ==
  LET rest == {i \in split[t] + 1 .. Len(Splits) : Splits[i] \in configured[t]}
  IN IF rest = {} THEN 0 ELSE Min(rest)

BeginSplit(t) ==
  /\ pc[t] = "next"
  /\ Following(t) # 0
  /\ Proceed(t, "bench")
  /\ split' = [split EXCEPT ![t] = Following(t)]
  /\ bench' = [bench EXCEPT ![t] = NoBench]
  /\ UNCHANGED <<configured, active, cancelled, told, strict, cancelling, results,
                 artifacts, spoke>>

\* run_benchmark returns a result for each trial, also for those that failed.
Collect(t) ==
  /\ pc[t] = "bench"
  /\ bench[t].trial = Trials /\ bench[t].sent = 0
  /\ results' = [results EXCEPT ![t] = @ \o [i \in 1 .. Trials |-> Splits[split[t]]]]
  /\ Goto(t, "collect")
  /\ UNCHANGED <<split, configured, active, cancelled, told, strict, cancelling,
                 artifacts, bench, spoke>>

\* The results of a split.
ResultsOf(t, s) == {i \in DOMAIN results[t] : results[t][i] = s}

\* Mutant of Scored: only the last split counts.
LastScored(t) == IF split[t] = 0 THEN 0 ELSE Cardinality(ResultsOf(t, Splits[split[t]]))

\* calculate_evaluation_results counts the results of all splits so far.
Scored(t) == Len(results[t])

\* The intermediate artifact of a split, for recovery and progress.  Adding an
\* artifact does not ask for the state of the task: it is accepted also where a
\* status would be refused.
ReportSplit(t) ==
  /\ pc[t] = "collect"
  /\ Goto(t, "next")
  /\ artifacts' = [artifacts EXCEPT ![t] = Append(@, Scored(t))]
  /\ UNCHANGED <<split, configured, active, cancelled, told, strict, cancelling,
                 results, bench, spoke>>

ReportResult(t) ==
  /\ pc[t] = "next"
  /\ Following(t) = 0
  /\ Goto(t, "over")
  /\ artifacts' = [artifacts EXCEPT ![t] = Append(@, Scored(t))]
  /\ UNCHANGED <<split, configured, active, cancelled, told, strict, cancelling,
                 results, bench, spoke>>

\* The arguments of a split, the benchmark, the scoring or an artifact raises.
Crash(t) ==
  /\ pc[t] \in Working
  /\ Goto(t, "failing")
  /\ UNCHANGED <<split, configured, active, cancelled, told, strict, cancelling,
                 results, artifacts, bench, spoke>>

\* run_eval reports the failure itself and raises on.
ReportFailure(t) ==
  /\ pc[t] = "failing"
  /\ Publish(t, "failed")
  /\ Goto(t, "handler")
  /\ UNCHANGED <<split, configured, active, cancelled, strict, cancelling,
                 results, artifacts, bench, spoke>>

-----------------------------------------------------------------------------
(* The benchmark thread and RemoteA2AAgent.                                *)

\* get_init_state before the first message of a trial.
BeginTrial(t) ==
  /\ pc[t] = "bench"
  /\ bench[t].trial < Trials /\ bench[t].sent = 0
  /\ bench' = [bench EXCEPT ![t].trial = @ + 1, ![t].sent = 1, ![t].first = TRUE]
  /\ UNCHANGED <<pc, split, configured, active, cancelled, told, strict, cancelling,
                 results, artifacts, spoke>>

\* Mutant of Addressed: a new conversation is not told from an old one.
Remembered(b) == b.context

\* The context a message is sent to: none for a new conversation.
Addressed(b) == IF b.first THEN 0 ELSE b.context

Contexts == {pair[1] : pair \in spoke}
OpenedBy(t) == <<t, split[t], bench[t].trial>>

\* generate_next_message: the agent answers in the context of the message, or in
\* a new one; the tool provider remembers it for the next message.
Talk(t) ==
  /\ pc[t] = "bench"
  /\ bench[t].sent \in 1 .. Turns
  /\ \E c \in IF Addressed(bench[t]) # 0 THEN {Addressed(bench[t])}
               ELSE {Cardinality(Contexts) + 1} :
       /\ c <= MaxContexts
       /\ bench' = [bench EXCEPT ![t].sent = @ + 1, ![t].first = FALSE, ![t].context = c]
       /\ spoke' = spoke \cup {<<c, OpenedBy(t)>>}
  /\ UNCHANGED <<pc, split, configured, active, cancelled, told, strict, cancelling,
                 results, artifacts>>

\* The agent fails, or answers with a task that is not completed: the trial ends.
\* The message may have reached it in a context that nobody remembers.
TalkFails(t) ==
  /\ pc[t] = "bench"
  /\ bench[t].sent \in 1 .. Turns
  /\ bench' = [bench EXCEPT ![t].sent = 0, ![t].first = FALSE]
  /\ UNCHANGED <<pc, split, configured, active, cancelled, told, strict, cancelling,
                 results, artifacts, spoke>>

EndTrial(t) ==
  /\ pc[t] = "bench"
  /\ bench[t].sent > 1
  /\ bench' = [bench EXCEPT ![t].sent = 0]
  /\ UNCHANGED <<pc, split, configured, active, cancelled, told, strict, cancelling,
                 results, artifacts, spoke>>

-----------------------------------------------------------------------------
Run(t) ==
  \/ Announce(t) \/ Enter(t) \/ BeginSplit(t) \/ Collect(t) \/ ReportSplit(t) \/ ReportResult(t)
  \/ Crash(t) \/ ReportFailure(t) \/ Conclude(t) \/ Handle(t) \/ Finally(t)
  \/ BeginTrial(t) \/ Talk(t) \/ TalkFails(t) \/ EndTrial(t)

Next == \E t \in Tasks : Refuse(t) \/ Start(t) \/ Cancel(t) \/ ReportCancel(t) \/ Run(t)

Spec == Init /\ [][Next]_vars

\* Coroutines and threads that can go on do; no one has to cancel.
FairSpec == Spec /\ \A t \in Tasks : WF_vars(Run(t)) /\ WF_vars(ReportCancel(t))

-----------------------------------------------------------------------------
(* Properties.                                                             *)

TypeOK ==
  /\ pc \in [Tasks -> {"new", "refused", "working", "raised", "entered", "next", "bench", "collect",
                      "over", "failing", "handler", "finally", "ended"}]
  /\ \A t \in Tasks :
       /\ split[t] \in 0 .. Len(Splits)
       /\ told[t] \in Seq(Terminal)
       /\ results[t] \in Seq(configured[t])
       /\ \A s \in configured[t] : Cardinality(ResultsOf(t, s)) \in {0, Trials}
       /\ bench[t].sent \in 0 .. Turns + 1 /\ bench[t].context \in 0 .. MaxContexts

\* Whoever was told that an assessment is canceled is never told later that it
\* is complete, although the assessment goes on behind the cancellation.
NeverCompletedAfterCancel ==
  \A t \in Tasks : \A i, j \in DOMAIN told[t] :
    i < j /\ told[t][i] = "canceled" => told[t][j] # "completed"

\* A conversation with the agent under test belongs to one trial of one
\* assessment, also when earlier trials broke off.
ConversationsAreSeparate ==
  \A p, q \in spoke : p[1] = q[1] => p[2] = q[2]

\* Each artifact covers what the artifacts before it covered, and the final one
\* holds all results of the splits the request asked for.
ArtifactsAddUp ==
  \A t \in Tasks :
    /\ \A i, j \in DOMAIN artifacts[t] : i <= j => artifacts[t][i] <= artifacts[t][j]
    /\ pc[t] = "over" => Last(artifacts[t]) = Trials * Cardinality(configured[t])

\* A task that was announced is forgotten in the end, whatever fails in it, so
\* that later cancels of it are refused.
EveryTaskIsForgotten == \A t \in Tasks : pc[t] = "entered" ~> pc[t] = "ended" /\ t \notin active
=============================================================================
