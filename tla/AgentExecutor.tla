--------------------------- MODULE AgentExecutor ---------------------------
(***************************************************************************)
(* The A2A executor of the CAR-Guard agent: one coroutine per inbound      *)
(* message (execute) and per cancellation (cancel), all on one event loop, *)
(* with the blocking work in worker threads.  Both kinds end in a section  *)
(* guarded by the emission lock of their context, so that a response which *)
(* is ready when a cancellation arrives is either on its way before it or  *)
(* replaced by a refusal.                                                  *)
(*                                                                         *)
(* The code between two awaits runs alone, so it is one action.  What the  *)
(* worker threads do is left open: the orchestrator may answer anything or *)
(* raise, and the session store may fail to cancel.                        *)
(***************************************************************************)
EXTENDS Integers, FiniteSets

CONSTANTS
    Request,  \* calls of execute, each made once
    Cancel,   \* calls of cancel, each made once
    Context,  \* conversation identifiers (context_id)
    Ctx,      \* Ctx[x]: the context of call x, None when it names none
    Ttl,      \* session_ttl_seconds, in clock ticks
    MaxTime,  \* bound on the clock
    None

Call == Request \cup Cancel

ASSUME ExecutorAssumption ==
    /\ Request \cap Cancel = {}
    /\ Ctx \in [Call -> Context \cup {None}]
    /\ Ttl \in Nat \ {0} /\ MaxTime \in Nat
    /\ None \notin Context \cup Call \cup Nat

VARIABLES
    now,     \* time.monotonic()
    mark,    \* _cancelled_at: when the context was cancelled, or None
    lockOf,  \* _emission_locks: the lock of the context, or None
    holder,  \* holder[l]: the call that holds lock l
    pc,      \* pc[x]: where call x is
    ref,     \* ref[x]: the lock object call x waits for or holds
    out,     \* out[r]: the response of request r
    at       \* at[k]: when cancel k set its mark (history)

vars == <<now, mark, lockOf, holder, pc, ref, out, at>>
-----------------------------------------------------------------------------
\* A lock object is named after the call that creates it: a call asks for its
\* context's lock once, so it creates at most one.
Lock == Call

\* What the orchestrator hands back: text, tool calls, both, neither, or an
\* exception.
Outbound == {"text", "tools", "both", "neither", "raised"}

Response == {"text", "tools", "failure", "cancelled"}

\* Mutant of Sanitized: what the orchestrator returned is sent as it is.
Unsanitized(o) == o

\* _sanitize_outbound and the handler around it: tool calls or text, never
\* both or neither; everything else becomes the safe failure text.
Sanitized(o) == IF o \in {"text", "tools"} THEN o ELSE "failure"

\* Mutant of EmissionLock: every caller gets a lock of its own.
FreshLock(x) == x

\* _emission_lock: the lock in the dictionary, created when there is none.
EmissionLock(x) == IF lockOf[Ctx[x]] = None THEN x ELSE lockOf[Ctx[x]]

\* Mutant of Free: the lock is not waited for.
AlwaysFree(l) == TRUE

Free(l) == holder[l] = None

\* Mutant of Released: an exit of the locked section keeps the lock.
NotReleased(x) == holder

Released(x) == IF ref[x] = None THEN holder ELSE [holder EXCEPT ![ref[x]] = None]

\* The test of _is_cancelled: the mark is there and younger than the TTL.
Marked(c) == mark[c] # None /\ now - mark[c] < Ttl
-----------------------------------------------------------------------------
Init ==
    /\ now = 0
    /\ mark = [c \in Context |-> None]
    /\ lockOf = [c \in Context |-> None]
    /\ holder = [l \in Lock |-> None]
    /\ pc = [x \in Call |-> "idle"]
    /\ ref = [x \in Call |-> None]
    /\ out = [r \in Request |-> "failure"]
    /\ at = [k \in Cancel |-> None]

\* Asking for the context's lock; the caller then waits for it.
Ask(x) ==
    LET l == EmissionLock(x)
    IN  /\ ref' = [ref EXCEPT ![x] = l]
        /\ lockOf' = [lockOf EXCEPT ![Ctx[x]] = l]
        /\ pc' = [pc EXCEPT ![x] = "waiting"]

Take(x, next) ==
    /\ pc[x] = "waiting"
    /\ Free(ref[x])
    /\ holder' = [holder EXCEPT ![ref[x]] = x]
    /\ pc' = [pc EXCEPT ![x] = next]

Leave(x, next) ==
    /\ holder' = Released(x)
    /\ pc' = [pc EXCEPT ![x] = next]
-----------------------------------------------------------------------------
(* execute.                                                                *)

\* The message goes to a worker thread.
Submit(r) ==
    /\ pc[r] = "idle"
    /\ pc' = [pc EXCEPT ![r] = "running"]
    /\ UNCHANGED <<now, mark, lockOf, holder, ref, out, at>>

\* The worker is done.  A request without a context fails before it reaches
\* the orchestrator and is answered without a lock.
Answer(r) ==
    /\ pc[r] = "running"
    /\ \/ /\ Ctx[r] = None
          /\ out' = [out EXCEPT ![r] = "failure"]
          /\ pc' = [pc EXCEPT ![r] = "sending"]
          /\ UNCHANGED <<ref, lockOf>>
       \/ /\ Ctx[r] # None
          /\ \E o \in Outbound : out' = [out EXCEPT ![r] = Sanitized(o)]
          /\ Ask(r)
    /\ UNCHANGED <<now, mark, holder, at>>

\* The lock is taken and the mark is read: a marked context has its response
\* replaced; an expired mark is dropped, and the lock leaves the dictionary
\* with it, although this call still holds it.
Decide(r) ==
    LET c == Ctx[r]
    IN  /\ Take(r, "sending")
        /\ \/ /\ Marked(c)
              /\ out' = [out EXCEPT ![r] = "cancelled"]
              /\ UNCHANGED <<mark, lockOf>>
           \/ /\ mark[c] # None /\ ~Marked(c)
              /\ mark' = [mark EXCEPT ![c] = None]
              /\ lockOf' = [lockOf EXCEPT ![c] = None]
              /\ UNCHANGED out
           \/ mark[c] = None /\ UNCHANGED <<mark, lockOf, out>>
        /\ UNCHANGED <<now, ref, at>>

\* enqueue_event has accepted the response.
Send(r) ==
    /\ pc[r] = "sending"
    /\ Leave(r, "sent")
    /\ UNCHANGED <<now, mark, lockOf, ref, out, at>>
-----------------------------------------------------------------------------
(* cancel.                                                                 *)

AskToCancel(k) ==
    /\ pc[k] = "idle"
    /\ \/ /\ Ctx[k] = None
          /\ pc' = [pc EXCEPT ![k] = "refused"]
          /\ UNCHANGED <<ref, lockOf>>
       \/ Ctx[k] # None /\ Ask(k)
    /\ UNCHANGED <<now, mark, holder, out, at>>

\* The lock is taken and the mark set; a worker thread cancels the session.
SetMark(k) ==
    /\ Take(k, "closing")
    /\ mark' = [mark EXCEPT ![Ctx[k]] = now]
    /\ at' = [at EXCEPT ![k] = now]
    /\ UNCHANGED <<now, lockOf, ref, out>>

Closed(k) ==
    /\ pc[k] = "closing"
    /\ pc' = [pc EXCEPT ![k] = "publishing"]
    /\ UNCHANGED <<now, mark, lockOf, holder, ref, out, at>>

\* The store raised: the mark is withdrawn and the caller is refused.
CloseFails(k) ==
    /\ pc[k] = "closing"
    /\ mark' = [mark EXCEPT ![Ctx[k]] = None]
    /\ Leave(k, "refused")
    /\ UNCHANGED <<now, lockOf, ref, out, at>>

\* The canceled status is published.
Publish(k) ==
    /\ pc[k] = "publishing"
    /\ Leave(k, "published")
    /\ UNCHANGED <<now, mark, lockOf, ref, out, at>>
-----------------------------------------------------------------------------
Tick ==
    /\ now < MaxTime
    /\ now' = now + 1
    /\ UNCHANGED <<mark, lockOf, holder, pc, ref, out, at>>

Execute(r) == Answer(r) \/ Decide(r) \/ Send(r)
CancelStep(k) == SetMark(k) \/ Closed(k) \/ CloseFails(k) \/ Publish(k)

Next ==
    \/ \E r \in Request : Submit(r) \/ Execute(r)
    \/ \E k \in Cancel : AskToCancel(k) \/ CancelStep(k)
    \/ Tick

Spec == Init /\ [][Next]_vars

\* The event loop resumes every coroutine that can run, worker threads come
\* back (the session store's and the orchestrator's own specifications say
\* so), and a lock is handed on in the order it was asked for.
FairSpec ==
    /\ Spec
    /\ \A r \in Request : WF_vars(Execute(r))
    /\ \A k \in Cancel : WF_vars(CancelStep(k))
-----------------------------------------------------------------------------
(* Properties.                                                             *)

\* The variables hold values of their types; a response that reaches the
\* queue is text or tool calls, whatever the orchestrator returned.
TypeOK ==
    /\ now \in Nat
    /\ mark \in [Context -> Nat \cup {None}]
    /\ lockOf \in [Context -> Lock \cup {None}]
    /\ holder \in [Lock -> Call \cup {None}]
    /\ pc \in [Call -> {"idle", "running", "waiting", "sending", "sent",
                        "closing", "publishing", "published", "refused"}]
    /\ ref \in [Call -> Lock \cup {None}]
    /\ out \in [Request -> Response]
    /\ at \in [Cancel -> Nat \cup {None}]

\* The calls of context c that are inside the section of the emission lock.
Inside(c) == {x \in Call : Ctx[x] = c /\ pc[x] \in {"sending", "closing", "publishing"}}

\* A mark set for context c has outlived its TTL.
SomeMarkExpired(c) ==
    \E k \in Cancel : Ctx[k] = c /\ at[k] # None /\ now - at[k] >= Ttl

\* Although locks are made on demand and dropped with the mark, two calls of
\* a context publish at the same time only after a mark of it has expired.
SerialEmission ==
    \A c \in Context : \A x, y \in Inside(c) : x = y \/ SomeMarkExpired(c)

\* Cancel k has set its mark and was not refused.
Accepted(k) == pc[k] \in {"closing", "publishing", "published"}

\* "cancel linearizes before a slow tool response is emitted": from the
\* moment a cancellation has set its mark and until the mark's TTL is over,
\* no response is on its way to the client of that context but the one that
\* says the request was cancelled, however late its worker came back.
CancelLinearizes ==
    \A r \in Request, k \in Cancel :
        /\ Ctx[k] # None /\ Ctx[r] = Ctx[k]
        /\ Accepted(k) /\ now - at[k] < Ttl
        /\ pc[r] = "sending"
        => out[r] = "cancelled"

\* Every call ends: execute publishes one response, cancel publishes or is
\* refused, and no exit keeps the lock the others wait for.
EveryCallReturns ==
    \A x \in Call :
        (pc[x] # "idle") ~> (pc[x] \in {"sent", "published", "refused"})
=============================================================================
