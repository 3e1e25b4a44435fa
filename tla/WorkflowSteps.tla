--------------------------- MODULE WorkflowSteps ---------------------------
(***************************************************************************)
(* The vocabulary in which the workflows of the planner are written.       *)
(*                                                                         *)
(* A planning function _next_*_workflow keeps no program counter.  It is   *)
(* called again after every event and walks from its top: each thing it    *)
(* needs is either known by now, or it is asked of the car or of the user  *)
(* and the function returns.  A workflow is therefore the sequence of      *)
(* steps it walks, given the values v of what is known and, where the      *)
(* function looks at the status of several goals, the set d of goals that  *)
(* are done; None is what is not known.  Every workflow walks its steps up *)
(* to the first one that does not let it pass.                             *)
(***************************************************************************)
EXTENDS Sequences

\* The tools, schemas and start conditions the function tests before it goes on.
Tools == <<[kind |-> "tools", of |-> {}]>>

\* What the words of the request or the live schemas settle.
Given(things) == <<[kind |-> "given", of |-> things]>>

\* Things that are read in one request, as far as they are not known.
Fetch(things) == <<[kind |-> "fetch", of |-> things]>>

\* A thing the user must be asked for.
Ask(thing) == <<[kind |-> "ask", of |-> {thing}]>>

\* A thing whose count of identical reads starts anew.
Renew(thing) == <<[kind |-> "renew", of |-> {thing}]>>

\* The calls that are frozen into a bundle, in order, and the goals they serve.
DoFor(goals, calls) == <<[kind |-> "do", of |-> calls, goals |-> goals]>>

\* Most requests have one goal.
Goal == "goal"
Do(calls) == DoFor({Goal}, calls)

\* The turn ends with this answer.
Reply(answer) == <<[kind |-> "reply", of |-> {answer}]>>

\* The workflow goes on only when the condition holds.
Require(condition, answer) == IF condition THEN <<>> ELSE Reply(answer)

\* A step that some requests take and others do not.
When(condition, steps) == IF condition THEN steps ELSE <<>>

\* Something is read and must be well formed.
Verify(thing, v) == Fetch({thing}) \o Require(v[thing] # "bad", "limitation")

\* The answers.  A limitation says why nothing was done; "again" withdraws the
\* request and asks for a new one.
Limit == "limitation"
Conflict == "conflict"
Again == "again"
Info == "info"
Shown == "shown"
None == "unknown"
=============================================================================
