---------------------------- MODULE Track2Agent ----------------------------
(***************************************************************************)
(* The baseline agents of track 2: an executor that keeps one chat history *)
(* per context, asks a Cerebras model for the next action, and, in the     *)
(* planner variant, keeps a private plan per user turn; below it the       *)
(* completion client with its rate-limit waits, counters and reports.      *)
(*                                                                         *)
(* execute is a coroutine that calls the model synchronously, so from the  *)
(* moment a message is taken until its answer is enqueued the event loop   *)
(* serves nobody else: neither another context nor a cancel.  One variable *)
(* `loop' therefore stands for the single execution in progress.           *)
(***************************************************************************)
EXTENDS Integers, SequencesExt

CONSTANTS
  Contexts,          \* the conversations of one server
  Tools,             \* names of the tools a model may call
  Planner,           \* TRUE: PlannerExecutorCARBenchAgentExecutor
  MalformedRetries,  \* malformed_retries
  Buffer,            \* rate_limit_retry_buffer_seconds
  HeaderSeconds,     \* values of the reset and retry-after headers
  Cap,               \* counters of a turn are kept up to this value
  ClientCap          \* counters of a client are kept up to this value

ASSUME Track2Assumption ==
  /\ Planner \in BOOLEAN
  /\ MalformedRetries \in Nat
  /\ Buffer \in Nat
  /\ HeaderSeconds \subseteq Nat
  /\ Cap \in Nat /\ ClientCap \in Nat

VARIABLES
  hist,     \* tail of ctx_id_to_messages: the last role and its unanswered calls
  plan,     \* _active_private_plans_by_context
  metrics,  \* ctx_id_to_turn_metrics
  wire,     \* what the other side last got from the context
  inbox,    \* the message that waits to be executed
  cancels,  \* contexts whose cancel waits to be executed
  loop,     \* the execution the event loop is in
  client,   \* counters of the completion clients
  sending,  \* the answer of a context that waits to be enqueued
  paid,     \* model calls and quota waits since metrics were last published
  bill,     \* what is missing in the metrics last published
  spoiled,  \* contexts where a turn has failed since then
  unsent    \* contexts whose present turn goes on from calls that were not delivered

vars == <<hist, plan, metrics, wire, inbox, cancels, loop, client,
          sending, paid, bill, spoiled, unsent>>
ghosts == <<paid, bill, spoiled, unsent>>

AtMost(n, cap) == IF n > cap THEN cap ELSE n
Capped(n) == AtMost(n, Cap)

Absent == -1                        \* a header that is not there
Headers == HeaderSeconds \cup {Absent}
Actions == UNION {[1 .. n -> Tools] : n \in 1 .. 2}   \* at most two calls at once
Clients == {"planner", "executor"}

NoMetrics == [calls |-> 0, wait |-> 0]
Idle == [at |-> "idle"]

\* One execution: the step it is at, the plan in use, the attempts made, the
\* model calls and quota waits so far, and those of the present request.
NewTurn(c, p) == [at |-> "request", ctx |-> c, using |-> p, attempt |-> 0,
                  calls |-> 0, wait |-> 0, queued |-> 0, quota |-> 0, why |-> "none"]

-----------------------------------------------------------------------------
(* The completion client.                                                  *)

\* What the provider may say when it refuses a request: whether its queue is
\* full, and the values of the three headers.
Signals == [queue : BOOLEAN, tokens : Headers, day : Headers, after : Headers]

\* Mutant of Buffered: the buffer is forgotten.
Unbuffered(seconds) == seconds

Buffered(seconds) == seconds + Buffer

\* The bounds of the jittered wait before the n-th retry of a full queue, in
\* coarse units that keep the order of the defaults.
Backoff(n) == IF n = 1 THEN 1 .. 1 ELSE IF n = 2 THEN 1 .. 2 ELSE 2 .. 3

\* The waits a signal may lead to; a signal without a hint gives none.
Waits(sig, n) ==
  IF sig.queue THEN IF sig.after # Absent THEN {Buffered(sig.after)} ELSE Backoff(n)
  ELSE IF sig.tokens # Absent THEN {Buffered(sig.tokens)}
  ELSE IF sig.day # Absent THEN {Buffered(sig.day)}
  ELSE IF sig.after # Absent THEN {Buffered(sig.after)}
  ELSE {}

QuotaEligible(sig) == ~ sig.queue

\* generate sleeps and tries again only for a wait above zero.
WorthWaiting(w) == w > 0

Recorded(cl) == [cl EXCEPT !.attempted = AtMost(@ + 1, ClientCap)]

\* Mutant of Succeeded: an answered request is not counted as attempted.
SucceededOnly(cl) == [cl EXCEPT !.successful = AtMost(@ + 1, ClientCap)]

Succeeded(cl) == [Recorded(cl) EXCEPT !.successful = AtMost(@ + 1, ClientCap)]

\* A report holds what was attempted and achieved since the previous one, and
\* the totals become the new reference whether or not the file was written.
Reported(cl) ==
  [cl EXCEPT !.sumAttempted = @ + (cl.attempted - cl.lastAttempted),
             !.sumSuccessful = @ + (cl.successful - cl.lastSuccessful),
             !.lastAttempted = cl.attempted,
             !.lastSuccessful = cl.successful]

-----------------------------------------------------------------------------
(* The history of a context.                                               *)

NewHistory == [tail |-> "none", open |-> <<>>]

\* Mutant of Matched: a result is bound to no call.
Unmatched(open, tool) == open

\* tool_call_by_name[name].pop(0): the first unanswered call of that tool.
Matched(open, tool) ==
  LET at == {i \in DOMAIN open : open[i] = tool}
  IN IF at = {} THEN open
     ELSE LET k == CHOOSE i \in at : \A j \in at : i <= j
          IN [i \in 1 .. Len(open) - 1 |-> IF i < k THEN open[i] ELSE open[i + 1]]

\* _format_tool_results: each result takes the first call it can answer.
Answered(open, results) ==
  LET rest[n \in 0 .. Len(results)] ==
        IF n = 0 THEN open ELSE Matched(rest[n - 1], results[n])
  IN rest[Len(results)]

\* _append_inbound_to_history: results, or a text in their place, answer the
\* calls of the last assistant message; anything else is a user message.
Appended(h, message) ==
  IF h.tail # "calls" THEN [tail |-> "user", open |-> <<>>]
  ELSE IF message.kind = "user" THEN [tail |-> "tool", open |-> <<>>]
  ELSE [tail |-> "tool", open |-> Answered(h.open, message.results)]

Said(action) == IF action = <<>> THEN [tail |-> "text", open |-> <<>>]
                ELSE [tail |-> "calls", open |-> action]

-----------------------------------------------------------------------------
(* The environment: a user who speaks when it was answered, and a simulator *)
(* that executes the calls it got and returns one result for each.          *)

Init ==
  /\ hist = [c \in Contexts |-> NewHistory]
  /\ plan = [c \in Contexts |-> "none"]
  /\ metrics = [c \in Contexts |-> NoMetrics]
  /\ wire = [c \in Contexts |-> [kind |-> "text"]]
  /\ inbox = [c \in Contexts |-> [kind |-> "none"]]
  /\ cancels = {}
  /\ loop = Idle
  /\ client = [r \in Clients |-> [attempted |-> 0, successful |-> 0,
                 lastAttempted |-> 0, lastSuccessful |-> 0,
                 sumAttempted |-> 0, sumSuccessful |-> 0]]
  /\ paid = [c \in Contexts |-> NoMetrics]
  /\ sending = [c \in Contexts |-> [kind |-> "none"]]
  /\ bill = [c \in Contexts |-> [calls |-> 0, wait |-> 0, whole |-> TRUE]]
  /\ spoiled = {}
  /\ unsent = {}

UserSpeaks(c) ==
  /\ inbox[c].kind = "none"
  /\ wire[c].kind = "text"
  /\ inbox' = [inbox EXCEPT ![c] = [kind |-> "user"]]
  /\ wire' = [wire EXCEPT ![c] = [kind |-> "waits"]]
  /\ UNCHANGED <<hist, plan, metrics, cancels, loop, client, sending, ghosts>>

ToolsReturn(c) ==
  /\ inbox[c].kind = "none"
  /\ wire[c].kind = "calls"
  /\ \E r \in {wire[c].calls, Reverse(wire[c].calls)} :
       inbox' = [inbox EXCEPT ![c] = [kind |-> "tools", results |-> r]]
  /\ wire' = [wire EXCEPT ![c] = [kind |-> "waits"]]
  /\ UNCHANGED <<hist, plan, metrics, cancels, loop, client, sending, ghosts>>

UserCancels(c) ==
  /\ cancels' = cancels \cup {c}
  /\ UNCHANGED <<hist, plan, metrics, wire, inbox, loop, client, sending, ghosts>>

-----------------------------------------------------------------------------
(* execute and cancel.                                                     *)

\* A plan made for an earlier user turn has grown old.
Aged(p) == IF p \in {"fresh", "fallback"} THEN "old" ELSE p

\* _should_create_private_plan and the lookup of the active plan.
\* Mutant of PlanFor: a stored plan is used for a new user turn.
PlanIfAny(h, p) ==
  IF ~ Planner THEN "unused" ELSE p
PlanFor(h, p) ==
  IF ~ Planner THEN "unused"
  ELSE IF h.tail = "user" THEN "none"
  ELSE IF p # "none" THEN p
  ELSE "fallback"

\* Keeps or drops the stored plan: a new user turn discards it.
Retained(h, p) == IF Planner /\ h.tail = "user" THEN "none" ELSE p

Begin(c) ==
  /\ loop = Idle
  /\ inbox[c].kind # "none"
  /\ LET h == Appended(hist[c], inbox[c])
         p == IF inbox[c].kind = "user" THEN Aged(plan[c]) ELSE plan[c]
     IN /\ hist' = [hist EXCEPT ![c] = h]
        /\ plan' = [plan EXCEPT ![c] = Retained(h, p)]
        /\ loop' = NewTurn(c, PlanFor(h, p))
        /\ unsent' = IF h.tail = "user" THEN unsent \ {c} ELSE unsent
  /\ inbox' = [inbox EXCEPT ![c] = [kind |-> "none"]]
  /\ UNCHANGED <<metrics, wire, cancels, client, sending, paid, bill, spoiled>>

\* A model call is made by the planner while the turn has no plan.
Role == IF loop.using = "none" THEN "planner" ELSE "executor"

\* The exception leaves the model calls; execute will apologise.
Fails(why) ==
  /\ loop' = [loop EXCEPT !.at = "apologise", !.why = why]
  /\ spoiled' = spoiled \cup {loop.ctx}
  /\ UNCHANGED <<paid, bill, unsent>>

\* generate is refused with a rate limit: it sleeps and tries again, holding
\* the request lock and the event loop, or gives up.
Refuse(sig) ==
  /\ loop.at = "request"
  /\ client' = [client EXCEPT ![Role] = Reported(Recorded(@))]
  /\ \/ \E w \in Waits(sig, loop.queued + 1) :
          /\ WorthWaiting(w)
          /\ loop' = [loop EXCEPT !.at = "sleep",
                        !.queued = IF sig.queue /\ @ < 2 THEN @ + 1 ELSE @,
                        !.quota = IF QuotaEligible(sig) THEN Capped(@ + w) ELSE @]
          /\ UNCHANGED ghosts
     \/ /\ \A w \in Waits(sig, loop.queued + 1) : ~ WorthWaiting(w)
        /\ Fails(IF Waits(sig, 1) = {} THEN "refused" ELSE "hinted")
  /\ UNCHANGED <<hist, plan, metrics, wire, inbox, cancels, sending>>

Wake ==
  /\ loop.at = "sleep"
  /\ loop' = [loop EXCEPT !.at = "request"]
  /\ UNCHANGED <<hist, plan, metrics, wire, inbox, cancels, client, sending, ghosts>>

\* generate fails for another reason.
Break ==
  /\ loop.at = "request"
  /\ client' = [client EXCEPT ![Role] = Recorded(@)]
  /\ Fails("broken")
  /\ UNCHANGED <<hist, plan, metrics, wire, inbox, cancels, sending>>

\* generate returns: the call and its quota waits count for this turn.
Charged(l) == [l EXCEPT !.calls = Capped(@ + 1), !.wait = Capped(@ + l.quota),
                        !.queued = 0, !.quota = 0]
Paid == paid' = [paid EXCEPT ![loop.ctx] = [calls |-> Capped(@.calls + 1),
                                            wait |-> Capped(@.wait + loop.quota)]]

\* Mutant of Corrected: the attempt is not counted.
RetriedUncounted(l) == Charged(l)

Corrected(l) == [Charged(l) EXCEPT !.attempt = @ + 1]

ReplyPlan ==
  /\ loop.at = "request" /\ Role = "planner"
  /\ client' = [client EXCEPT !["planner"] = Succeeded(@)]
  /\ Paid
  /\ loop' = [Charged(loop) EXCEPT !.using = "fresh"]
  /\ plan' = [plan EXCEPT ![loop.ctx] = "fresh"]
  /\ UNCHANGED <<hist, metrics, wire, inbox, cancels, sending, bill, spoiled, unsent>>

\* The text is not a plan or an action: once more with a correction while
\* attempts are left, or give up.  A JSON value that is not an object raises past
\* the retries, so the turn may be given up at any attempt.  A plan that was
\* parsed is kept for the next attempt.
ReplyMalformed ==
  /\ loop.at = "request"
  /\ client' = [client EXCEPT ![Role] = Succeeded(@)]
  /\ Paid
  /\ \/ /\ loop.attempt < MalformedRetries
        /\ loop' = Corrected(loop)
        /\ UNCHANGED spoiled
     \/ /\ loop' = [Charged(loop) EXCEPT !.at = "apologise", !.why = "malformed"]
        /\ spoiled' = spoiled \cup {loop.ctx}
  /\ UNCHANGED <<hist, plan, metrics, wire, inbox, cancels, sending, bill, unsent>>

\* The plan lives on while calls are made for the user's turn.
PlanAfter(action, p) == IF ~ Planner \/ action = <<>> THEN "none" ELSE p

\* _record_turn_metrics adds what the turn took; a text publishes the sum.
Added(m, l) == [calls |-> Capped(m.calls + l.calls), wait |-> Capped(m.wait + l.wait)]
\* Mutant of MetricsAfter: published metrics are not dropped.
MetricsKept(action, m) == m

MetricsAfter(action, m) == IF action = <<>> THEN NoMetrics ELSE m

ReplyAction(action) ==
  /\ loop.at = "request" /\ Role = "executor"
  /\ client' = [client EXCEPT !["executor"] = Succeeded(@)]
  /\ LET c == loop.ctx
         sum == Added(metrics[c], Charged(loop))
         due == Added(paid[c], [calls |-> 1, wait |-> loop.quota])
     IN /\ hist' = [hist EXCEPT ![c] = Said(action)]
        /\ plan' = [plan EXCEPT ![c] = PlanAfter(action, loop.using)]
        /\ metrics' = [metrics EXCEPT ![c] = MetricsAfter(action, sum)]
        /\ sending' = [sending EXCEPT ![c] =
                         IF action = <<>> THEN [kind |-> "text"]
                         ELSE [kind |-> "calls", calls |-> action]]
        /\ IF action = <<>>
             THEN /\ paid' = [paid EXCEPT ![c] = NoMetrics]
                  /\ bill' = [bill EXCEPT ![c] = [calls |-> due.calls - sum.calls,
                                                 wait |-> due.wait - sum.wait,
                                                 whole |-> c \notin spoiled]]
                  /\ spoiled' = spoiled \ {c}
             ELSE /\ paid' = [paid EXCEPT ![c] = due]
                  /\ UNCHANGED <<bill, spoiled>>
  /\ loop' = Idle
  /\ UNCHANGED <<wire, inbox, cancels, unsent>>

\* enqueue_event lets the event loop go on; it may fail, and then execute
\* enqueues the text of the error instead, or fails altogether.
Deliver(c) ==
  /\ sending[c].kind # "none"
  /\ wire' = [wire EXCEPT ![c] = sending[c]]
  /\ sending' = [sending EXCEPT ![c] = [kind |-> "none"]]
  /\ UNCHANGED <<hist, plan, metrics, inbox, cancels, loop, client, ghosts>>

DeliverFails(c) ==
  /\ sending[c].kind # "none"
  /\ sending' = [sending EXCEPT ![c] = [kind |-> "none"]]
  /\ wire' \in {[wire EXCEPT ![c] = [kind |-> k]] : k \in {"text", "over"}}
  /\ unsent' = IF sending[c].kind = "calls" THEN unsent \cup {c} ELSE unsent
  /\ UNCHANGED <<hist, plan, metrics, inbox, cancels, loop, client, paid, bill, spoiled>>

Apologise ==
  /\ loop.at = "apologise"
  /\ sending' = [sending EXCEPT ![loop.ctx] = [kind |-> "text"]]
  /\ loop' = Idle
  /\ UNCHANGED <<hist, plan, metrics, wire, inbox, cancels, client, ghosts>>

\* cancel drops all that is kept for the context, whatever is on its way.
Cancel(c) ==
  /\ loop = Idle
  /\ c \in cancels
  /\ cancels' = cancels \ {c}
  /\ hist' = [hist EXCEPT ![c] = NewHistory]
  /\ plan' = [plan EXCEPT ![c] = "none"]
  /\ metrics' = [metrics EXCEPT ![c] = NoMetrics]
  /\ paid' = [paid EXCEPT ![c] = NoMetrics]
  /\ spoiled' = spoiled \ {c}
  /\ unsent' = unsent \ {c}
  /\ UNCHANGED <<wire, inbox, loop, client, sending, bill>>

-----------------------------------------------------------------------------
Provider ==
  \/ \E sig \in Signals : Refuse(sig)
  \/ Break
  \/ ReplyPlan
  \/ ReplyMalformed
  \/ \E action \in Actions \cup {<<>>} : ReplyAction(action)

Environment ==
  \E c \in Contexts : UserSpeaks(c) \/ ToolsReturn(c) \/ UserCancels(c)

Answers(c) == Deliver(c) \/ DeliverFails(c)

Next ==
  \/ Environment
  \/ Provider
  \/ Wake
  \/ Apologise
  \/ \E c \in Contexts : Begin(c) \/ Answers(c) \/ Cancel(c)

Spec == Init /\ [][Next]_vars

\* The event loop serves what is ready in order of arrival, a sleep ends, and
\* the provider does not answer every request with another rate limit.
FairSpec ==
  /\ Spec
  /\ WF_vars(Provider) /\ WF_vars(Wake) /\ WF_vars(Apologise)
  /\ SF_vars(Break \/ ReplyPlan \/ ReplyMalformed
             \/ \E action \in Actions \cup {<<>>} : ReplyAction(action))
  /\ \A c \in Contexts : SF_vars(Begin(c)) /\ SF_vars(Cancel(c)) /\ WF_vars(Answers(c))

-----------------------------------------------------------------------------
(* Properties.                                                             *)

TypeOK ==
  /\ hist \in [Contexts -> [tail : {"none", "user", "tool", "calls", "text"},
                            open : Actions \cup {<<>>}]]
  /\ plan \in [Contexts -> {"none", "fresh", "old", "unused"}]
  /\ metrics \in [Contexts -> [calls : 0 .. Cap, wait : 0 .. Cap]]
  /\ paid \in [Contexts -> [calls : 0 .. Cap, wait : 0 .. Cap]]
  /\ cancels \subseteq Contexts /\ spoiled \subseteq Contexts /\ unsent \subseteq Contexts
  /\ \A r \in Clients : client[r].successful <= client[r].attempted

\* Every tool call of the history is answered before anything else is said:
\* the model never sees a transcript with a dangling call, whatever the order
\* of the results and however often one tool was called at once.
NoDanglingCalls ==
  \A c \in Contexts : hist[c].open # <<>> => hist[c].tail = "calls"

\* The executor always works along the plan made for the user's present turn:
\* a continuation finds one (the fallback plan is never needed), and no plan
\* survives into a later turn.  The one exception are calls that could not be
\* delivered: the user's next words are taken for their results, and the old plan
\* is followed until the model answers with a text or the user speaks once more.
FollowsPresentPlan ==
  loop.at = "request" /\ Role = "executor" /\ Planner
    => loop.using = "fresh" \/ loop.ctx \in unsent

\* The metrics published with a text count each successful model call and each
\* quota wait since the last ones once, across tool rounds, retries and the
\* planner's calls; only a failed turn may be missing from them.
BillAddsUp ==
  \A c \in Contexts :
    /\ bill[c].whole => bill[c].calls = 0 /\ bill[c].wait = 0
    /\ bill[c].calls >= 0 /\ bill[c].wait >= 0

\* A rate limit that says how long to wait never fails the turn, also when the
\* provider gives zero seconds.
HintsAreFollowed == loop.at = "apologise" => loop.why # "hinted"

\* The deltas of the reports add up to the totals at the last one, those counted that
\* were made but could not be written.
ReportsAddUp ==
  \A r \in Clients : /\ client[r].sumAttempted = client[r].lastAttempted
                     /\ client[r].sumSuccessful = client[r].lastSuccessful
                     /\ client[r].lastAttempted <= client[r].attempted

\* The books of the agent: no call and no wait is lost or counted twice in the metrics
\* of its turns, and its clients keep account of their reports.
AccountsAddUp == BillAddsUp /\ ReportsAddUp

\* Every message is answered although one request may hold up the event loop
\* through any number of rate limits, and every cancel is served.
EveryMessageAnswered ==
  \A c \in Contexts : /\ inbox[c].kind # "none" ~> wire[c].kind # "waits"
                      /\ c \in cancels ~> c \notin cancels
=============================================================================
