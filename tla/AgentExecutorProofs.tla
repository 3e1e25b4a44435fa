------------------------ MODULE AgentExecutorProofs ------------------------
(***************************************************************************)
(* What AgentExecutor promises for any set of calls, contexts and clock.   *)
(*                                                                         *)
(* The argument: until a mark of a context has expired, its lock stays in  *)
(* the dictionary, so all its calls refer to one lock (SameLock); a call   *)
(* inside the section holds the lock it refers to (Owned); hence two calls *)
(* inside it are one call.  A lock is dropped only with an expired mark,   *)
(* and every mark was set by some cancel (MarksHaveSource).                *)
(***************************************************************************)
EXTENDS AgentExecutor, TLAPS

InsidePc == {"sending", "closing", "publishing"}

\* A call refers to a lock exactly when it has asked for one.
Refers ==
    \A x \in Call :
        /\ Ctx[x] = None => ref[x] = None /\ pc[x] \notin {"waiting", "closing", "publishing"}
        /\ Ctx[x] # None /\ pc[x] \in {"waiting"} \cup InsidePc => ref[x] # None
        /\ pc[x] \in {"idle", "running"} => ref[x] = None

\* A call inside the section holds its lock.
Owned ==
    \A x \in Call : Ctx[x] # None /\ pc[x] \in InsidePc => holder[ref[x]] = x

\* The calls of a context share one lock until a mark of it has expired.
SameLock ==
    \A x \in Call : ref[x] # None => ref[x] = lockOf[Ctx[x]] \/ SomeMarkExpired(Ctx[x])

\* A mark was set by a cancel of its context.
MarksHaveSource ==
    \A c \in Context : mark[c] # None => \E k \in Cancel : Ctx[k] = c /\ at[k] = mark[c]

\* A cancel that still waits has set none.
NotYet == \A k \in Cancel : pc[k] \in {"idle", "running", "waiting"} => at[k] = None

IInv == TypeOK /\ Refers /\ Owned /\ SameLock /\ MarksHaveSource /\ NotYet
-----------------------------------------------------------------------------
\* An expired mark stays expired while no cancel sets a second mark.
LEMMA ExpiredStays ==
    ASSUME TypeOK, NEW c \in Context, SomeMarkExpired(c),
           now' \in Nat, now' >= now,
           \A k \in Cancel : at[k] # None => at'[k] = at[k]
    PROVE  SomeMarkExpired(c)'
  BY ExecutorAssumption DEF TypeOK, SomeMarkExpired

\* The invariant holds initially.
LEMMA IInvInit == Init => IInv
  BY ExecutorAssumption
  DEF Init, IInv, TypeOK, Refers, Owned, SameLock, MarksHaveSource, NotYet,
      InsidePc, Call, Lock, Response

\* Asking for the lock and waiting, the part Answer and AskToCancel share.
LEMMA AskKeeps ==
    ASSUME IInv, NEW x \in Call, Ctx[x] # None, pc[x] \in {"idle", "running"}, Ask(x),
           UNCHANGED <<now, mark, holder, at>>, out' \in [Request -> Response]
    PROVE  IInv'
  <1> USE ExecutorAssumption DEF Ask, EmissionLock
  <1>a. Ctx[x] \in Context
    BY DEF IInv
  <1>1. TypeOK'
    BY <1>a DEF IInv, TypeOK, Lock
  <1>2. Refers'
    BY <1>a DEF IInv, TypeOK, Refers, InsidePc, Lock
  <1>3. Owned'
    BY <1>a DEF IInv, TypeOK, Refers, Owned, InsidePc, Lock
  <1>4. SameLock'
    BY <1>a DEF IInv, TypeOK, SameLock, SomeMarkExpired, Lock
  <1>5. MarksHaveSource'
    BY DEF IInv, MarksHaveSource
  <1>6. NotYet'
    BY DEF IInv, TypeOK, NotYet
  <1> QED
    BY <1>1, <1>2, <1>3, <1>4, <1>5, <1>6 DEF IInv

\* Leaving the section frees the lock of the leaving call and no other.
LEMMA LeaveKeeps ==
    ASSUME IInv, NEW x \in Call, pc[x] \in InsidePc, NEW p \in {"sent", "refused", "published"},
           Leave(x, p)
    PROVE  /\ holder' \in [Lock -> Call \cup {None}]
           /\ \A y \in Call : y # x /\ Ctx[y] # None /\ pc[y] \in InsidePc
                                => holder'[ref[y]] = y
  BY ExecutorAssumption DEF IInv, TypeOK, Refers, Owned, Leave, Released, Lock, InsidePc

LEMMA AnswerKeeps == ASSUME IInv, NEW r \in Request, Answer(r) PROVE IInv'
  <1>1. CASE Ctx[r] # None
    <2>1. out' \in [Request -> Response]
      BY <1>1 DEF Answer, IInv, TypeOK, Response, Sanitized, Outbound
    <2> QED
      BY <1>1, <2>1, AskKeeps DEF Answer, Call
  <1>2. CASE Ctx[r] = None
    <2>1. TypeOK'
      BY <1>2 DEF Answer, IInv, TypeOK, Response
    <2>2. /\ pc' = [pc EXCEPT ![r] = "sending"]
          /\ UNCHANGED <<now, mark, lockOf, holder, ref, at>>
      BY <1>2 DEF Answer
    <2>3. Refers' /\ Owned' /\ SameLock' /\ MarksHaveSource' /\ NotYet'
      BY <1>2, <2>2, ExecutorAssumption
      DEF IInv, TypeOK, Refers, Owned, SameLock, MarksHaveSource, NotYet,
          SomeMarkExpired, InsidePc, Call
    <2> QED
      BY <2>1, <2>3 DEF IInv
  <1> QED
    BY <1>1, <1>2

LEMMA AskToCancelKeeps == ASSUME IInv, NEW k \in Cancel, AskToCancel(k) PROVE IInv'
  <1>1. CASE Ctx[k] # None
    BY <1>1, AskKeeps DEF AskToCancel, Call, IInv, TypeOK
  <1>2. CASE Ctx[k] = None
    <2>1. /\ pc' = [pc EXCEPT ![k] = "refused"]
          /\ UNCHANGED <<now, mark, lockOf, holder, ref, out, at>>
      BY <1>2 DEF AskToCancel
    <2>2. TypeOK'
      BY <2>1 DEF IInv, TypeOK
    <2>3. Refers' /\ Owned' /\ SameLock' /\ MarksHaveSource' /\ NotYet'
      BY <1>2, <2>1, ExecutorAssumption
      DEF IInv, TypeOK, Refers, Owned, SameLock, MarksHaveSource, NotYet,
          SomeMarkExpired, InsidePc, Call
    <2> QED
      BY <2>2, <2>3 DEF IInv
  <1> QED
    BY <1>1, <1>2

\* Taking a free lock makes its taker the holder and disturbs no other.
LEMMA TakeKeeps ==
    ASSUME IInv, NEW x \in Call, NEW p \in InsidePc, Take(x, p)
    PROVE  /\ Ctx[x] \in Context /\ ref[x] \in Lock
           /\ holder' \in [Lock -> Call \cup {None}]
           /\ pc' \in [Call -> {"idle", "running", "waiting", "sending", "sent",
                                 "closing", "publishing", "published", "refused"}]
           /\ \A y \in Call : Ctx[y] # None /\ pc'[y] \in InsidePc => holder'[ref[y]] = y
  <1>1. Ctx[x] \in Context /\ ref[x] \in Lock /\ holder[ref[x]] = None
    BY ExecutorAssumption DEF IInv, TypeOK, Refers, Take, Free
  <1>2. \A y \in Call : y # x /\ Ctx[y] # None /\ pc'[y] \in InsidePc =>
           ref[y] # ref[x] /\ holder[ref[y]] = y
    BY <1>1, ExecutorAssumption DEF IInv, TypeOK, Owned, Take, Lock
  <1> QED
    BY <1>1, <1>2, ExecutorAssumption DEF IInv, TypeOK, Take, InsidePc, Lock

\* Dropping an expired mark is where the calls of a context may part.
LEMMA DecideKeeps == ASSUME IInv, NEW r \in Request, Decide(r) PROVE IInv'
  <1>1. /\ r \in Call /\ Take(r, "sending") /\ UNCHANGED <<now, ref, at>>
        /\ pc[r] = "waiting" /\ pc' = [pc EXCEPT ![r] = "sending"]
    BY DEF Decide, Call, Take
  <1>2. /\ Ctx[r] \in Context /\ ref[r] \in Lock
        /\ holder' \in [Lock -> Call \cup {None}]
        /\ \A y \in Call : Ctx[y] # None /\ pc'[y] \in InsidePc => holder'[ref[y]] = y
    BY <1>1, TakeKeeps DEF InsidePc
  <1>3. TypeOK'
    BY <1>1, <1>2 DEF Decide, IInv, TypeOK, Response
  <1>4. Refers'
    BY <1>1, <1>2, ExecutorAssumption DEF IInv, TypeOK, Refers, InsidePc, Lock
  <1>5. Owned'
    BY <1>1, <1>2 DEF Owned
  <1>6. \A c \in Context : SomeMarkExpired(c)' <=> SomeMarkExpired(c)
    BY <1>1 DEF SomeMarkExpired
  <1>7. \/ lockOf' = lockOf
        \/ SomeMarkExpired(Ctx[r]) /\ lockOf' = [lockOf EXCEPT ![Ctx[r]] = None]
    <2>1. CASE mark[Ctx[r]] # None /\ ~Marked(Ctx[r])
      BY <2>1, <1>2, ExecutorAssumption
      DEF IInv, TypeOK, MarksHaveSource, Marked, SomeMarkExpired, Decide
    <2> QED
      BY <2>1 DEF Decide
  <1>8. SameLock'
    BY <1>1, <1>2, <1>6, <1>7, ExecutorAssumption DEF IInv, TypeOK, Refers, SameLock
  <1>9. MarksHaveSource'
    BY <1>1, <1>2 DEF Decide, IInv, TypeOK, MarksHaveSource
  <1>10. NotYet'
    BY <1>1, ExecutorAssumption DEF IInv, TypeOK, NotYet, Call
  <1> QED
    BY <1>3, <1>4, <1>5, <1>8, <1>9, <1>10 DEF IInv

LEMMA SetMarkKeeps == ASSUME IInv, NEW k \in Cancel, SetMark(k) PROVE IInv'
  <1>1. /\ k \in Call /\ Take(k, "closing") /\ UNCHANGED <<now, lockOf, ref, out>>
        /\ pc' = [pc EXCEPT ![k] = "closing"] /\ pc[k] = "waiting"
        /\ mark' = [mark EXCEPT ![Ctx[k]] = now] /\ at' = [at EXCEPT ![k] = now]
    BY DEF SetMark, Call, Take
  <1>2. /\ Ctx[k] \in Context /\ ref[k] \in Lock
        /\ holder' \in [Lock -> Call \cup {None}]
        /\ \A y \in Call : Ctx[y] # None /\ pc'[y] \in InsidePc => holder'[ref[y]] = y
    BY <1>1, TakeKeeps DEF InsidePc
  <1>3. at[k] = None
    BY <1>1 DEF IInv, NotYet
  <1>4. TypeOK'
    BY <1>1, <1>2 DEF IInv, TypeOK
  <1>5. Refers'
    BY <1>1, <1>2, ExecutorAssumption DEF IInv, TypeOK, Refers, InsidePc
  <1>6. Owned'
    BY <1>1, <1>2 DEF Owned
  <1>7. \A j \in Cancel : at[j] # None => at'[j] = at[j]
    BY <1>1, <1>3 DEF IInv, TypeOK
  <1>8. \A c \in Context : SomeMarkExpired(c) => SomeMarkExpired(c)'
    BY <1>1, <1>7, ExpiredStays DEF IInv, TypeOK
  <1>9. SameLock'
    BY <1>1, <1>8, ExecutorAssumption DEF IInv, TypeOK, Refers, SameLock
  <1>10. MarksHaveSource'
    BY <1>1, <1>2, <1>7, ExecutorAssumption DEF IInv, TypeOK, MarksHaveSource
  <1>11. NotYet'
    BY <1>1, ExecutorAssumption DEF IInv, TypeOK, NotYet, Call
  <1> QED
    BY <1>4, <1>5, <1>6, <1>9, <1>10, <1>11 DEF IInv

\* Send, CloseFails and Publish leave the section; CloseFails withdraws the
\* mark of the context as well.
LEMMA LeavingKeeps ==
    ASSUME IInv, NEW x \in Call, pc[x] \in InsidePc,
           NEW p \in {"sent", "refused", "published"}, Leave(x, p),
           UNCHANGED <<now, lockOf, ref, out, at>>,
           \/ mark' = mark
           \/ Ctx[x] \in Context /\ mark' = [mark EXCEPT ![Ctx[x]] = None]
    PROVE  IInv'
  <1>1. /\ holder' \in [Lock -> Call \cup {None}]
        /\ \A y \in Call : y # x /\ Ctx[y] # None /\ pc[y] \in InsidePc => holder'[ref[y]] = y
    BY LeaveKeeps
  <1>2. pc' = [pc EXCEPT ![x] = p]
    BY DEF Leave
  <1>3. TypeOK'
    BY <1>1, <1>2 DEF IInv, TypeOK
  <1>4. Refers'
    BY <1>2 DEF IInv, TypeOK, Refers, InsidePc
  <1>5. Owned'
    BY <1>1, <1>2 DEF IInv, TypeOK, Owned, InsidePc
  <1>6. SameLock'
    BY DEF IInv, SameLock, SomeMarkExpired
  <1>7. MarksHaveSource'
    BY DEF IInv, TypeOK, MarksHaveSource
  <1>8. NotYet'
    BY <1>2 DEF IInv, TypeOK, NotYet, Call
  <1> QED
    BY <1>3, <1>4, <1>5, <1>6, <1>7, <1>8 DEF IInv
-----------------------------------------------------------------------------
\* Every step keeps the invariant.
LEMMA IInvNext == IInv /\ [Next]_vars => IInv'
  <1> SUFFICES ASSUME IInv, [Next]_vars PROVE IInv'
    OBVIOUS
  <1>1. ASSUME NEW r \in Request, Submit(r) PROVE IInv'
    BY <1>1, ExecutorAssumption
    DEF Submit, IInv, TypeOK, Refers, Owned, SameLock, MarksHaveSource, NotYet,
        SomeMarkExpired, InsidePc, Call
  <1>2. ASSUME NEW r \in Request, Send(r) PROVE IInv'
    BY <1>2, LeavingKeeps DEF Send, InsidePc, Call
  <1>3. ASSUME NEW k \in Cancel, Closed(k) PROVE IInv'
    BY <1>3, ExecutorAssumption
    DEF Closed, IInv, TypeOK, Refers, Owned, SameLock, MarksHaveSource, NotYet,
        SomeMarkExpired, InsidePc, Call
  <1>4. ASSUME NEW k \in Cancel, CloseFails(k) PROVE IInv'
    <2>1. Ctx[k] \in Context
      BY <1>4, ExecutorAssumption DEF CloseFails, IInv, TypeOK, Refers, InsidePc, Call
    <2> QED
      BY <1>4, <2>1, LeavingKeeps DEF CloseFails, InsidePc, Call
  <1>5. ASSUME NEW k \in Cancel, Publish(k) PROVE IInv'
    BY <1>5, LeavingKeeps DEF Publish, InsidePc, Call
  <1>6. CASE Tick
    <2>1. \A c \in Context : SomeMarkExpired(c) => SomeMarkExpired(c)'
      BY <1>6, ExpiredStays DEF Tick, IInv, TypeOK
    <2>2. SameLock'
      BY <1>6, <2>1, ExecutorAssumption DEF Tick, IInv, TypeOK, Refers, SameLock
    <2> QED
      BY <1>6, <2>2 DEF Tick, IInv, TypeOK, Refers, Owned, MarksHaveSource, NotYet
  <1>7. CASE UNCHANGED vars
    BY <1>7
    DEF vars, IInv, TypeOK, Refers, Owned, SameLock, MarksHaveSource, NotYet, SomeMarkExpired
  <1> QED
    BY <1>1, <1>2, <1>3, <1>4, <1>5, <1>6, <1>7,
       AnswerKeeps, DecideKeeps, AskToCancelKeeps, SetMarkKeeps
    DEF Next, Execute, CancelStep

\* The variables always hold values of their types: whatever the orchestrator
\* returns, what reaches the queue is one of the four responses.
THEOREM ExecutorTypeCorrect == Spec => []TypeOK
  <1>1. IInv => TypeOK
    BY DEF IInv
  <1> QED
    BY <1>1, IInvInit, IInvNext, PTL DEF Spec

\* The lock made on demand does its work: two calls of a context are inside
\* the section together only after a mark of that context has expired.
THEOREM EmissionIsSerial == Spec => []SerialEmission
  <1>1. IInv => SerialEmission
    BY ExecutorAssumption
    DEF IInv, TypeOK, Refers, Owned, SameLock, SerialEmission, Inside, InsidePc
  <1> QED
    BY <1>1, IInvInit, IInvNext, PTL DEF Spec
-----------------------------------------------------------------------------
(* The order of a cancellation and the responses, when a context is        *)
(* cancelled once.  A second cancellation that the store refuses takes the *)
(* mark of the first with it, so it does not hold without that.            *)

CancelledOnce ==
    \A j, k \in Cancel : Ctx[j] # None /\ Ctx[j] = Ctx[k] => j = k

\* The mark of an accepted cancel is in place until it expires.
MarkStands ==
    \A k \in Cancel : Ctx[k] # None /\ Accepted(k) =>
        at[k] # None /\ (mark[Ctx[k]] = at[k] \/ now - at[k] >= Ttl)

OInv == IInv /\ MarkStands /\ CancelLinearizes

LEMMA OInvInit == Init => OInv
  BY IInvInit DEF Init, OInv, MarkStands, CancelLinearizes, Accepted, Call

\* Setting the mark: a response that is already on its way would hold the
\* lock the cancel has just taken.
LEMMA SetMarkOrders ==
    ASSUME OInv, CancelledOnce, NEW k \in Cancel, SetMark(k)
    PROVE  MarkStands' /\ CancelLinearizes'
  <1>1. /\ k \in Call /\ UNCHANGED <<now, lockOf, ref, out>>
        /\ pc[k] = "waiting" /\ pc' = [pc EXCEPT ![k] = "closing"]
        /\ holder[ref[k]] = None
        /\ mark' = [mark EXCEPT ![Ctx[k]] = now] /\ at' = [at EXCEPT ![k] = now]
    BY DEF SetMark, Call, Take, Free
  <1>2. Ctx[k] \in Context /\ at[k] = None /\ ref[k] # None
    BY <1>1, ExecutorAssumption DEF OInv, IInv, TypeOK, Refers, NotYet
  <1>3. ~SomeMarkExpired(Ctx[k])
    BY <1>2, ExecutorAssumption DEF CancelledOnce, SomeMarkExpired
  <1>4. \A r \in Request : Ctx[r] = Ctx[k] => pc[r] # "sending"
    BY <1>1, <1>2, <1>3, ExecutorAssumption
    DEF OInv, IInv, TypeOK, Refers, Owned, SameLock, InsidePc, Call
  <1>5. MarkStands'
    BY <1>1, <1>2, ExecutorAssumption
    DEF OInv, IInv, TypeOK, MarkStands, CancelledOnce, Accepted, Call
  <1>6. CancelLinearizes'
    BY <1>1, <1>2, <1>4, ExecutorAssumption
    DEF OInv, IInv, TypeOK, CancelLinearizes, CancelledOnce, Accepted, Call
  <1> QED
    BY <1>5, <1>6

\* Every step keeps the order.
LEMMA OInvNext == CancelledOnce /\ OInv /\ [Next]_vars => OInv'
  <1> SUFFICES ASSUME CancelledOnce, OInv, [Next]_vars PROVE OInv'
    OBVIOUS
  <1>0. IInv'
    BY IInvNext DEF OInv
  <1> USE ExecutorAssumption
  <1>1. ASSUME NEW r \in Request, Submit(r) PROVE MarkStands' /\ CancelLinearizes'
    BY <1>1 DEF Submit, OInv, IInv, TypeOK, MarkStands, CancelLinearizes, Accepted, Call
  <1>2. ASSUME NEW r \in Request, Answer(r) PROVE MarkStands' /\ CancelLinearizes'
    BY <1>2 DEF Answer, Ask, OInv, IInv, TypeOK, MarkStands, CancelLinearizes, Accepted, Call
  <1>3. ASSUME NEW r \in Request, Decide(r) PROVE MarkStands' /\ CancelLinearizes'
    <2>1. MarkStands'
      BY <1>3 DEF Decide, Take, Marked, OInv, IInv, TypeOK, Refers, MarkStands, Accepted, Call
    <2>2. CancelLinearizes'
      BY <1>3
      DEF Decide, Take, Marked, OInv, IInv, TypeOK, Refers, MarkStands, CancelLinearizes,
          Accepted, Call
    <2> QED
      BY <2>1, <2>2
  <1>4. ASSUME NEW r \in Request, Send(r) PROVE MarkStands' /\ CancelLinearizes'
    BY <1>4 DEF Send, Leave, OInv, IInv, TypeOK, MarkStands, CancelLinearizes, Accepted, Call
  <1>5. ASSUME NEW k \in Cancel, AskToCancel(k) PROVE MarkStands' /\ CancelLinearizes'
    BY <1>5 DEF AskToCancel, Ask, OInv, IInv, TypeOK, MarkStands, CancelLinearizes, Accepted, Call
  <1>6. ASSUME NEW k \in Cancel, SetMark(k) PROVE MarkStands' /\ CancelLinearizes'
    BY <1>6, SetMarkOrders
  <1>7. ASSUME NEW k \in Cancel, Closed(k) PROVE MarkStands' /\ CancelLinearizes'
    BY <1>7 DEF Closed, OInv, IInv, TypeOK, MarkStands, CancelLinearizes, Accepted, Call
  <1>8. ASSUME NEW k \in Cancel, CloseFails(k) PROVE MarkStands' /\ CancelLinearizes'
    BY <1>8
    DEF CloseFails, Leave, OInv, IInv, TypeOK, MarkStands, CancelLinearizes, CancelledOnce,
        Accepted, Call
  <1>9. ASSUME NEW k \in Cancel, Publish(k) PROVE MarkStands' /\ CancelLinearizes'
    BY <1>9 DEF Publish, Leave, OInv, IInv, TypeOK, MarkStands, CancelLinearizes, Accepted, Call
  <1>10. ASSUME Tick PROVE MarkStands' /\ CancelLinearizes'
    BY <1>10 DEF Tick, OInv, IInv, TypeOK, MarkStands, CancelLinearizes, Accepted
  <1>11. ASSUME UNCHANGED vars PROVE MarkStands' /\ CancelLinearizes'
    BY <1>11 DEF vars, OInv, MarkStands, CancelLinearizes, Accepted
  <1> QED
    BY <1>0, <1>1, <1>2, <1>3, <1>4, <1>5, <1>6, <1>7, <1>8, <1>9, <1>10, <1>11
    DEF Next, Execute, CancelStep, OInv

\* In a context that is cancelled once, the cancellation comes before every
\* response that is not on its way yet: until the mark expires, each of them
\* says that the request was cancelled.
THEOREM CancelIsLinear == CancelledOnce => (Spec => []CancelLinearizes)
  <1> SUFFICES ASSUME CancelledOnce PROVE Spec => []CancelLinearizes
    OBVIOUS
  <1>1. OInv => CancelLinearizes
    BY DEF OInv
  <1>2. OInv /\ [Next]_vars => OInv'
    BY OInvNext
  <1> QED
    BY <1>1, <1>2, OInvInit, PTL DEF Spec

=============================================================================
