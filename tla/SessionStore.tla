---------------------------- MODULE SessionStore ----------------------------
(***************************************************************************)
(* The per-context session store of the CAR-Guard agent, shared by the     *)
(* worker threads that run the orchestrator (one thread per inbound A2A    *)
(* message) and by the threads that cancel a context.                      *)
(*                                                                         *)
(* The store has one mutex, each session object has its own re-entrant     *)
(* lock, and handle_event uses the two in sequence, so every critical      *)
(* section of either lock is one action and the code between two of them   *)
(* is a point where any other thread may run.                              *)
(***************************************************************************)
EXTENDS Integers, FiniteSets, Sequences

CONSTANTS
    Context,      \* conversation identifiers (context_id)
    Message,      \* inbound message identifiers
    Kind,         \* Kind[m]: what message m asks for, "user", "cancel" or "terminal"
    Thread,       \* worker threads
    MaxCalls,     \* bound: operations each thread starts
    MaxObjects,   \* bound: session objects that may be created
    Ttl,          \* ttl_seconds, in clock ticks
    MaxSessions,  \* max_sessions
    MaxTime,      \* bound on the clock
    AdminOps,     \* TRUE when get, remove and reopen are called as well
    None

ASSUME StoreAssumption ==
    /\ Kind \in [Message -> {"user", "cancel", "terminal"}]
    /\ MaxCalls \in Nat /\ Ttl \in Nat \ {0} /\ MaxTime \in Nat
    /\ MaxSessions \in Nat \ {0}
    /\ AdminOps \in BOOLEAN
    /\ MaxObjects \in Nat
    /\ None \notin Context \cup Message \cup Thread \cup Nat
    /\ None \notin {"text", "tools", "lastTools", "closed", "unavailable", "error"}

\* Session objects are numbered in the order of their creation.
Object == 1..MaxObjects

VARIABLES
    now,      \* the monotonic clock
    created,  \* number of session objects created so far
    obj,      \* obj[o]: the session object o
    live,     \* _sessions: session objects, least recently used first
    tombs,    \* _tombstones: tombstones, least recently used first
    owner,    \* owner[o]: the thread that holds the lock of session o
    pc,       \* pc[t]: the next step of thread t
    call,     \* call[t]: the operation thread t runs, and when its _close began
    ref,      \* ref[t]: the session object thread t works with
    target,   \* target[t]: the session object _close works on
    result,   \* result[t]: what the last operation of thread t returned
    calls     \* calls[t]: operations thread t has started

vars == <<now, created, obj, live, tombs, owner, pc, call, ref, target, result, calls>>
-----------------------------------------------------------------------------
(* Values.  An outbound message is abstracted to what the store tells      *)
(* apart: assistant text, or tool calls (with or without the flag that     *)
(* ends the session once they are dispatched).                             *)
Outbound == {"text", "tools", "lastTools"}

\* Mutant of SafeReplay: anything cached may be replayed.
ReplayAnything(out) == out # None

\* _safe_tombstone_replay: only text may be replayed after a close.
SafeReplay(out) == out = "text"

Session == [ctx : Context \cup {None}, seen : SUBSET Message,
            out : [Message -> Outbound \cup {None}],
            access : Nat, closed : BOOLEAN]

Tombstone == [ctx : Context, lifecycle : {"terminal", "cancelled"},
              closedAt : Nat, out : [Message -> Outbound \cup {None}]]

NoOut == [m \in Message |-> None]

NewSession(c) == [ctx |-> c, seen |-> {}, out |-> NoOut, access |-> now, closed |-> FALSE]

\* The source of an answer that came from a tombstone.
Grave == 0

\* An operation's result: the outbound value (or a fixed refusal) and the
\* session object or tombstone that supplied it.
Result == [val : Outbound \cup {"closed", "unavailable", "error", None},
           from : Object \cup {Grave, None},
           fromClosed : BOOLEAN]

Ret(val, from, fromClosed) == [val |-> val, from |-> from, fromClosed |-> fromClosed]
NoResult == Ret(None, None, FALSE)

Init ==
    /\ now = 0
    /\ created = 0
    /\ obj = [o \in Object |-> [ctx |-> None, seen |-> {}, out |-> NoOut,
                                access |-> 0, closed |-> FALSE]]
    /\ live = <<>>
    /\ tombs = <<>>
    /\ owner = [o \in Object |-> None]
    /\ pc = [t \in Thread |-> "idle"]
    /\ call = [t \in Thread |-> [op |-> "none", ctx |-> None, msg |-> None, at |-> 0]]
    /\ ref = [t \in Thread |-> None]
    /\ target = [t \in Thread |-> None]
    /\ result = [t \in Thread |-> NoResult]
    /\ calls = [t \in Thread |-> 0]
-----------------------------------------------------------------------------
(* The two ordered dictionaries.                                           *)

\* The entries of s at the positions in K, in their order.
Picked(s, K) ==
    [n \in 1..Cardinality(K) |-> s[CHOOSE k \in K : Cardinality({j \in K : j <= k}) = n]]

\* Mutant of FreshSessions: the TTL comparison is off by one.
EagerlyPurged == Picked(live, {i \in DOMAIN live : now - obj[live[i]].access < Ttl - 1})

\* _purge_expired: sessions idle for the TTL and tombstones as old as it go.
FreshSessions == Picked(live, {i \in DOMAIN live : now - obj[live[i]].access < Ttl})
FreshTombs == Picked(tombs, {i \in DOMAIN tombs : now - tombs[i].closedAt < Ttl})

Without(s, c) == Picked(s, {i \in DOMAIN s : obj[s[i]].ctx # c})
TombsWithout(b, c) == Picked(b, {i \in DOMAIN b : b[i].ctx # c})

\* The session (tombstone) of context c, None when there is none.
SessionOf(s, c) ==
    IF \E i \in DOMAIN s : obj[s[i]].ctx = c
    THEN s[CHOOSE i \in DOMAIN s : obj[s[i]].ctx = c] ELSE None
TombOf(b, c) ==
    IF \E i \in DOMAIN b : b[i].ctx = c
    THEN b[CHOOSE i \in DOMAIN b : b[i].ctx = c] ELSE None

\* Mutant of Newest: the dictionary keeps one entry too many.
NewestOffByOne(s) ==
    IF Len(s) > MaxSessions + 1 THEN SubSeq(s, Len(s) - MaxSessions, Len(s)) ELSE s

\* Eviction: popitem(last=False) while the dictionary is over max_sessions.
Newest(s) ==
    IF Len(s) > MaxSessions THEN SubSeq(s, Len(s) - MaxSessions + 1, Len(s)) ELSE s

\* Reading or writing a tombstone makes it the most recently used one.
TombToEnd(b, c) == TombsWithout(b, c) \o <<TombOf(b, c)>>
PutTomb(b, x) == Newest(Append(TombsWithout(b, x.ctx), x))

\* What a tombstone replays for a message.
TombReplay(b, m) == IF b = None \/ m = None THEN None ELSE b.out[m]
-----------------------------------------------------------------------------
\* Mutant of CanLock: the session lock is not taken.
NoLock(o, t) == TRUE

\* The session lock is re-entrant: it is free, or thread t already holds it.
CanLock(o, t) == owner[o] \in {None, t}

\* Mutant of Usable: nobody looks at the closed flag.
AlwaysUsable(o) == TRUE

\* A closed session object raises SessionClosedError.
Usable(o) == ~obj[o].closed

Goto(t, label) == pc' = [pc EXCEPT ![t] = label]

Return(t, r) ==
    /\ pc' = [pc EXCEPT ![t] = "idle"]
    /\ result' = [result EXCEPT ![t] = r]

\* The refusal of a SessionClosedError, or what its tombstone replays.
ClosedReply(b, m) ==
    IF TombReplay(b, m) # None THEN Ret(TombReplay(b, m), Grave, TRUE)
    ELSE Ret("closed", None, TRUE)

\* A worker starts an operation: handle_event for a message, a cancel of the
\* executor (no message), or a reopen.
Start(t, op, c, m) ==
    /\ pc[t] = "idle"
    /\ calls[t] < MaxCalls
    /\ op = "handle" <=> m # None
    /\ op = "reopen" => AdminOps
    /\ calls' = [calls EXCEPT ![t] = @ + 1]
    /\ call' = [call EXCEPT ![t] = [op |-> op, ctx |-> c, msg |-> m, at |-> 0]]
    /\ ref' = [ref EXCEPT ![t] = None]
    /\ target' = [target EXCEPT ![t] = None]
    /\ result' = [result EXCEPT ![t] = NoResult]
    /\ Goto(t, CASE op = "handle" -> "lookup" [] op = "cancel" -> "closeRead"
                 [] OTHER -> "reopen")
    /\ UNCHANGED <<now, created, obj, live, tombs, owner>>

\* SessionStore.replay_for, the part under the store lock: it only fetches
\* the session object (or answers from the tombstone).
ReplayLookup(t) ==
    LET c == call[t].ctx
        s == SessionOf(FreshSessions, c)
        r == TombReplay(TombOf(FreshTombs, c), call[t].msg)
    IN  /\ pc[t] = "lookup"
        /\ live' = FreshSessions
        /\ tombs' = FreshTombs
        /\ ref' = [ref EXCEPT ![t] = s]
        /\ \/ s # None /\ Goto(t, "replay") /\ UNCHANGED result
           \/ s = None /\ r # None /\ Return(t, Ret(r, Grave, TRUE))
           \/ s = None /\ r = None /\ Goto(t, "create") /\ UNCHANGED result
        /\ UNCHANGED <<now, created, obj, owner, call, target, calls>>

\* SessionState.replay_for: under the session lock, without asking whether
\* the session has been closed since it was fetched.
ReplayRead(t) ==
    LET o == ref[t]
        r == obj[o].out[call[t].msg]
    IN  /\ pc[t] = "replay"
        /\ CanLock(o, t)
        /\ \/ r # None /\ Return(t, Ret(r, o, obj[o].closed))
           \/ r = None /\ Goto(t, "create") /\ UNCHANGED result
        /\ UNCHANGED <<now, created, obj, live, tombs, owner, call, ref, target, calls>>

\* get_or_create, one critical section of the store lock.  A closed session
\* is popped before its closed flag is looked at.
Refused(t, b) ==
    /\ live' = FreshSessions
    /\ tombs' = TombToEnd(FreshTombs, call[t].ctx)
    /\ Return(t, IF call[t].op = "handle" THEN ClosedReply(b, call[t].msg)
                 ELSE Ret("error", None, TRUE))
    /\ UNCHANGED <<created, obj, ref>>

RefusedClosing(t) ==
    /\ live' = Without(FreshSessions, call[t].ctx)
    /\ tombs' = FreshTombs
    /\ Return(t, IF call[t].op = "handle" THEN ClosedReply(None, None)
                 ELSE Ret("error", None, TRUE))
    /\ UNCHANGED <<created, obj, ref>>

Obtain(t, o) ==
    /\ live' = Newest(Append(Without(FreshSessions, call[t].ctx), o))
    /\ tombs' = FreshTombs
    /\ ref' = [ref EXCEPT ![t] = o]
    /\ IF call[t].op = "handle" THEN Goto(t, "enter") /\ UNCHANGED result
                                ELSE Return(t, Ret("text", o, FALSE))

GetOrCreate(t) ==
    LET c == call[t].ctx
        s == SessionOf(FreshSessions, c)
        b == TombOf(FreshTombs, c)
    IN  /\ pc[t] = "create"
        /\ \/ b # None /\ Refused(t, b)
           \/ b = None /\ s # None /\ ~Usable(s) /\ RefusedClosing(t)
           \/ /\ b = None /\ s # None /\ Usable(s)
              /\ Obtain(t, s)
              /\ obj' = [obj EXCEPT ![s].access = now]
              /\ UNCHANGED created
           \/ /\ b = None /\ s = None /\ created + 1 \in Object
              /\ created' = created + 1
              /\ obj' = [obj EXCEPT ![created + 1] = NewSession(c)]
              /\ live' = Newest(Append(FreshSessions, created + 1))
              /\ tombs' = FreshTombs
              /\ ref' = [ref EXCEPT ![t] = created + 1]
              /\ IF call[t].op = "handle" THEN Goto(t, "enter") /\ UNCHANGED result
                 ELSE Return(t, Ret("text", created + 1, FALSE))
        /\ UNCHANGED <<now, owner, call, target, calls>>
-----------------------------------------------------------------------------
(* handle_event, inside `with sessions.locked(context)`.                   *)

\* synchronized() and accept_or_replay: lock the session, refuse a closed
\* one, answer a message seen before, accept a new one.
Enter(t) ==
    LET o == ref[t]
        m == call[t].msg
        cached == obj[o].out[m]
    IN  /\ pc[t] = "enter"
        /\ CanLock(o, t)
        /\ \/ /\ ~Usable(o)
              /\ Return(t, ClosedReply(None, m))
              /\ UNCHANGED <<obj, owner>>
           \/ /\ Usable(o) /\ m \in obj[o].seen
              /\ Return(t, IF cached # None THEN Ret(cached, o, obj[o].closed)
                                            ELSE Ret("unavailable", o, FALSE))
              /\ UNCHANGED <<obj, owner>>
           \/ /\ Usable(o) /\ m \notin obj[o].seen
              /\ obj' = [obj EXCEPT ![o].seen = @ \cup {m}]
              /\ owner' = [owner EXCEPT ![o] = t]
              /\ Goto(t, "work") /\ UNCHANGED result
        /\ UNCHANGED <<now, created, live, tombs, call, ref, target, calls>>

\* What the orchestrator may answer to an accepted message.
Answers(m) == IF Kind[m] = "user" THEN Outbound ELSE {"text"}

\* Mutant of CacheOutbound: only text answers are cached.
CacheTextOnly(o, m, out) ==
    IF out = "text" THEN [obj EXCEPT ![o].out[m] = out] ELSE obj

\* cache_outbound: the answer is kept for a redelivery of the message.
CacheOutbound(o, m, out) == [obj EXCEPT ![o].out[m] = out]

\* The accepted message is processed and its answer cached.  A cancel or
\* terminal request, and a dispatch flagged terminal_after_success, go on to
\* close the session; the others leave the locked scope.
Work(t) ==
    LET o == ref[t]
        m == call[t].msg
    IN  /\ pc[t] = "work"
        /\ \E out \in Answers(m) :
             /\ obj' = CacheOutbound(o, m, out)
             /\ IF Kind[m] # "user" \/ out = "lastTools"
                THEN Goto(t, "closeRead") /\ UNCHANGED <<owner, result>>
                ELSE /\ owner' = [owner EXCEPT ![o] = None]
                     /\ Return(t, Ret(out, o, FALSE))
        /\ UNCHANGED <<now, created, live, tombs, call, ref, target, calls>>

\* The accepted message raised out of the locked scope: nothing is cached.
Fail(t) ==
    /\ pc[t] = "work"
    /\ owner' = [owner EXCEPT ![ref[t]] = None]
    /\ Return(t, Ret("error", None, FALSE))
    /\ UNCHANGED <<now, created, obj, live, tombs, call, ref, target, calls>>
-----------------------------------------------------------------------------
(* _close: cancel() and mark_terminal().                                   *)

Lifecycle(t) ==
    IF call[t].op = "handle" /\ Kind[call[t].msg] # "cancel" THEN "terminal" ELSE "cancelled"

\* The answer of the closing message, when there is one.
ClosingOut(t) == IF call[t].op = "handle" THEN obj[ref[t]].out[call[t].msg] ELSE None

\* Mutant of Unlock: an exception path forgets to release the lock.
UnlockNever(t, own) == own

\* Leaving the locked scope of handle_event, normally or by an exception.
Unlock(t, own) ==
    IF call[t].op = "handle" THEN [own EXCEPT ![ref[t]] = None] ELSE own

CloseReturns(t) ==
    Return(t, IF call[t].op = "handle" THEN Ret(ClosingOut(t), ref[t], FALSE) ELSE Ret("text", None, FALSE))

CloseRaises(t) ==
    Return(t, IF call[t].op = "handle" THEN ClosedReply(None, None) ELSE Ret("error", None, FALSE))

\* First critical section: fetch the session and any tombstone; the clock is
\* read here, before any wait for the session lock.
CloseRead(t) ==
    LET c == call[t].ctx
        s == SessionOf(live, c)
    IN  /\ pc[t] = "closeRead"
        /\ target' = [target EXCEPT ![t] = s]
        /\ \/ s = None /\ TombOf(tombs, c) # None
              /\ CloseReturns(t) /\ owner' = Unlock(t, owner)
           \/ s = None /\ TombOf(tombs, c) = None
              /\ Goto(t, "closeBlind") /\ UNCHANGED <<owner, result>>
           \/ s # None /\ Goto(t, "closeMark") /\ UNCHANGED <<owner, result>>
        /\ call' = [call EXCEPT ![t].at = now]
        /\ UNCHANGED <<now, created, obj, live, tombs, ref, calls>>

\* Session lock held: give up when the store no longer maps the context to
\* this session, otherwise mark it closed.
CloseMark(t) ==
    LET o == target[t]
        c == call[t].ctx
    IN  /\ pc[t] = "closeMark"
        /\ CanLock(o, t)
        /\ \/ /\ SessionOf(live, c) # o
              /\ IF TombOf(tombs, c) # None THEN CloseReturns(t) ELSE CloseRaises(t)
              /\ owner' = Unlock(t, owner)
              /\ UNCHANGED obj
           \/ /\ SessionOf(live, c) = o
              /\ obj' = [obj EXCEPT ![o].closed = TRUE]
              /\ owner' = [owner EXCEPT ![o] = t]
              /\ Goto(t, "closeCommit") /\ UNCHANGED result
        /\ UNCHANGED <<now, created, live, tombs, call, ref, target, calls>>

\* The answers a tombstone keeps: the safe ones of a terminal session, none
\* of a cancelled one, and in both cases the closing answer when it is safe.
Kept(t, old) ==
    [m \in Message |->
        CASE call[t].msg = m /\ ClosingOut(t) # None /\ SafeReplay(ClosingOut(t)) -> ClosingOut(t)
          [] Lifecycle(t) = "terminal" /\ SafeReplay(old[m]) -> old[m]
          [] OTHER -> None]

TombstoneOf(t, old) ==
    [ctx |-> call[t].ctx, lifecycle |-> Lifecycle(t), closedAt |-> call[t].at, out |-> Kept(t, old)]

\* Last critical section: the session leaves the store, its tombstone enters.
CloseCommit(t) ==
    LET o == target[t]
    IN  /\ pc[t] = "closeCommit"
        /\ live' = Picked(live, {i \in DOMAIN live : live[i] # o})
        /\ tombs' = PutTomb(tombs, TombstoneOf(t, obj[o].out))
        /\ owner' = [Unlock(t, owner) EXCEPT ![o] = None]
        /\ CloseReturns(t)
        /\ UNCHANGED <<now, created, obj, call, ref, target, calls>>

\* No session was found: an empty tombstone is written without looking again.
CloseBlind(t) ==
    /\ pc[t] = "closeBlind"
    /\ tombs' = PutTomb(tombs, TombstoneOf(t, NoOut))
    /\ owner' = Unlock(t, owner)
    /\ CloseReturns(t)
    /\ UNCHANGED <<now, created, obj, live, call, ref, target, calls>>
-----------------------------------------------------------------------------
(* Operations no handler calls: get, remove and reopen.                    *)

GetSession(c) ==
    LET s == SessionOf(FreshSessions, c)
    IN  /\ AdminOps
        /\ tombs' = FreshTombs
        /\ IF s # None /\ Usable(s)
           THEN /\ obj' = [obj EXCEPT ![s].access = now]
                /\ live' = Append(Without(FreshSessions, c), s)
           ELSE live' = FreshSessions /\ UNCHANGED obj
        /\ UNCHANGED <<now, created, owner, pc, call, ref, target, result, calls>>

RemoveContext(c) ==
    /\ AdminOps
    /\ live' = Without(live, c)
    /\ tombs' = TombsWithout(tombs, c)
    /\ UNCHANGED <<now, created, obj, owner, pc, call, ref, target, result, calls>>

\* reopen refuses an active context, drops its tombstone, then calls
\* get_or_create.
Reopen(t) ==
    LET c == call[t].ctx
    IN  /\ pc[t] = "reopen"
        /\ live' = FreshSessions
        /\ IF SessionOf(FreshSessions, c) # None
           THEN tombs' = FreshTombs /\ Return(t, Ret("error", None, FALSE))
           ELSE tombs' = TombsWithout(FreshTombs, c) /\ Goto(t, "create") /\ UNCHANGED result
        /\ UNCHANGED <<now, created, obj, owner, call, ref, target, calls>>

Tick ==
    /\ now < MaxTime
    /\ now' = now + 1
    /\ UNCHANGED <<created, obj, live, tombs, owner, pc, call, ref, target, result, calls>>
-----------------------------------------------------------------------------
\* The steps of a thread that has started an operation.
Step(t) ==
    \/ ReplayLookup(t) \/ ReplayRead(t) \/ GetOrCreate(t)
    \/ Enter(t) \/ Work(t) \/ Fail(t)
    \/ CloseRead(t) \/ CloseMark(t) \/ CloseCommit(t) \/ CloseBlind(t)
    \/ Reopen(t)

Next ==
    \/ \E t \in Thread, c \in Context : \E m \in Message : Start(t, "handle", c, m)
    \/ \E t \in Thread, c \in Context, op \in {"cancel", "reopen"} : Start(t, op, c, None)
    \/ \E t \in Thread : Step(t)
    \/ \E c \in Context : GetSession(c) \/ RemoveContext(c)
    \/ Tick

Spec == Init /\ [][Next]_vars

\* The interpreter schedules every runnable thread and each lock is released
\* in a finally clause.
FairSpec == Spec /\ \A t \in Thread : WF_vars(Step(t))
-----------------------------------------------------------------------------
(* Properties.                                                             *)

\* The variables hold values of their types, and neither dictionary grows
\* beyond max_sessions.
TypeOK ==
    /\ now \in 0..MaxTime
    /\ created \in Nat
    /\ obj \in [Object -> Session]
    /\ live \in Seq(Object) /\ Len(live) <= MaxSessions
    /\ tombs \in Seq(Tombstone) /\ Len(tombs) <= MaxSessions
    /\ owner \in [Object -> Thread \cup {None}]
    /\ pc \in [Thread -> {"idle", "lookup", "replay", "create", "enter", "work", "reopen",
                          "closeRead", "closeMark", "closeCommit", "closeBlind"}]
    /\ ref \in [Thread -> Object \cup {None}]
    /\ target \in [Thread -> Object \cup {None}]
    /\ result \in [Thread -> Result]

\* A context never has two open session objects, so no conversation is split
\* in two: get_or_create must return the live one, and a new one may appear
\* only after the old one was closed.  (It holds while nothing is evicted.)
OneOpenSession ==
    \A o, p \in 1..created :
        obj[o].ctx = obj[p].ctx /\ ~obj[o].closed /\ ~obj[p].closed => o = p

\* The threads that are inside the orchestrator for context c.
Workers(c) == {t \in Thread : pc[t] = "work" /\ call[t].ctx = c}

\* "Hold the per-context re-entrant lock for one orchestration step": at most
\* one thread runs the orchestrator for a context.
OneWorkerPerContext == \A c \in Context : Cardinality(Workers(c)) <= 1

\* A closed session object is frozen: no message is accepted on it and no
\* answer is cached in it, even by a thread that obtained the object before
\* it was closed and was waiting for its lock.
ClosedSessionIsFrozen ==
    [][\A o \in Object : obj[o].closed => obj'[o].seen = obj[o].seen
                                          /\ obj'[o].out = obj[o].out]_vars

\* A message delivered several times, concurrently or not, gets one answer:
\* whatever an operation returns from a session object is the answer cached
\* there (or the fixed refusal while there is none).
OneAnswerPerMessage ==
    \A t \in Thread :
        result[t].from \in Object /\ call[t].op = "handle" =>
            LET cached == obj[result[t].from].out[call[t].msg]
            IN  result[t].val = cached \/ (result[t].val = "unavailable" /\ cached = None)

\* A lock is held only by a thread that is inside its critical section, so
\* no exception path leaves a session locked for ever.
LocksAreReleased ==
    \A o \in Object : owner[o] # None =>
        pc[owner[o]] \in {"work", "closeRead", "closeMark", "closeCommit", "closeBlind"}

\* What a tombstone replays is text, and a cancelled context replays at most
\* one answer, that of the message that cancelled it.
TombstonesAreSafe ==
    \A i \in DOMAIN tombs :
        LET kept == {m \in Message : tombs[i].out[m] # None}
        IN  /\ \A m \in kept : tombs[i].out[m] = "text"
            /\ tombs[i].lifecycle = "cancelled" =>
                  kept \subseteq {m \in Message : Kind[m] = "cancel"}

\* "Tool calls are never replayed" once a session is closed (mark_terminal), except by
\* the redelivery that had fetched the session before: neither a tombstone nor a refusal
\* nor a later redelivery hands them out.
NoToolReplayAfterClose ==
    [][\A t \in Thread :
         result'[t] # result[t] /\ result'[t].fromClosed
           /\ result'[t].val \in {"tools", "lastTools"} => pc[t] = "replay"]_vars

\* Every operation returns: the two levels of locks are never waited for in
\* a cycle, and no thread is left waiting for a lock nobody will release.
EveryOperationReturns == \A t \in Thread : (pc[t] # "idle") ~> (pc[t] = "idle")
=============================================================================
