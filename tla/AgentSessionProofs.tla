------------------------- MODULE AgentSessionProofs -------------------------
(***************************************************************************)
(* Proofs about AgentSession for every value of its constants, in three    *)
(* parts.                                                                  *)
(*                                                                         *)
(* The first is about what is sent: the type invariant, that state changes *)
(* are serial and never repeated, and that nothing is sent without the     *)
(* user's request or agreement.  None of these is inductive by itself.     *)
(* What they share is the relation between the frozen bundle, the calls    *)
(* that are outstanding for it, the answer being prepared and the          *)
(* confirmation latch; Inductive states it.                                *)
(*                                                                         *)
(* The second shows that AgentSession implements CarActions, and what      *)
(* follows from it.                                                        *)
(*                                                                         *)
(* The third is about what becomes of goals.  A goal is done only when its *)
(* calls were verified, what was reported as complete stays so, goals are  *)
(* served in their order, and a bundle given up halfway leaves its goals   *)
(* failed.                                                                 *)
(***************************************************************************)
EXTENDS AgentSession, TLAPS

Quiet == pendingSets = {} /\ pendingReads = {} /\ readback = NoReadback

\* The bundle has a call left.
InOrder == Active /\ ~Complete(bundle)

CurrentSet == [call |-> Current(bundle).call, goal |-> Current(bundle).goal,
               index |-> bundle.next]

OneSet == pendingSets # {} =>
    InOrder /\ pendingSets = {CurrentSet} /\ pendingReads = {} /\ readback = NoReadback

\* While results are processed: a set that has no result yet is the current
\* call of the bundle, and it still is what the results were matched with.
BatchOK ==
    /\ \A s \in pendingSets \ batch.doneSets :
           /\ InOrder /\ pendingSets = {s} /\ s = CurrentSet
           /\ pendingReads = {} /\ readback = NoReadback
    /\ pendingSets \subseteq batch.sets
    /\ batch.left > 0 => batch.sets \ batch.doneSets \subseteq pendingSets
    /\ batch.sets # {} => batch.reads = {}

\* The answer being prepared.
Prepared(kind) == phase \in {"review", "record"} /\ out.kind = kind

Serial ==
    /\ phase \in {"idle", "plan", "record"} => OneSet
    /\ phase \in {"request", "check", "review"} => Quiet
    /\ phase = "request" => ~Active
    /\ phase = "check" => InOrder
    /\ phase = "results" => BatchOK
    /\ readback # NoReadback => InOrder /\ readback.of.index = bundle.next
    /\ Prepared("set") => Quiet /\ InOrder /\ Current(bundle).call \notin attempted
    /\ Prepared("reads") => pendingSets = {} /\ \A r \in out.reads : gets[r] < MaxGets

NoneConfirmed == \A c \in Plan \X Turn : latch[c] # "confirmed"

\* The bundle's question is no longer open.
Settled == bundle.conf # NoTurn => latch[<<P, bundle.conf>>] # "pending"

Consented ==
    /\ Current(bundle).goal \in authorized \/ <<P, userTurns>> \in agreed
    /\ P.confirm => <<P, userTurns>> \in agreed

\* Only the exact bundle in hand can be confirmed, by what the user said in the
\* turn after the question.
ConfirmedIsAgreed ==
    \A c \in Plan \X Turn : latch[c] = "confirmed" =>
        /\ InOrder /\ c = <<P, bundle.conf>>
        /\ <<P, bundle.conf + 1>> \in agreed /\ userTurns >= bundle.conf + 1

AskedInTime == Active /\ bundle.conf # NoTurn => P.confirm /\ bundle.conf <= userTurns

Consent ==
    /\ ConfirmedIsAgreed /\ AskedInTime
    /\ Active /\ (pendingSets # {} \/ readback # NoReadback \/ bundle.next > 0) => Settled
    /\ Prepared("set") => Settled /\ Consented
    /\ phase \in {"check", "review"} /\ review # "no" => NoneConfirmed
    /\ phase \in {"idle", "request", "results", "record"} => review = "no"
    /\ phase = "plan" /\ Active => review = "no"
    /\ phase = "review" => review # "no"

Once == \A c \in Call : sent[c] <= 1 /\ (c \notin attempted => sent[c] = 0)

Inductive == TypeOK /\ Serial /\ Consent /\ Once
-----------------------------------------------------------------------------
(* Values.                                                                 *)

\* The frozen bundle is one of the plans, and its current call is one of the
\* plan's steps (ExecutionBundle.current_call).
LEMMA BundleType ==
    ASSUME TypeOK, Active
    PROVE  /\ P \in Plan /\ bundle.next \in Nat /\ bundle.conf \in Turn \cup {NoTurn}
           /\ bundle = [plan |-> P, next |-> bundle.next, conf |-> bundle.conf]
           /\ P.steps \in Seq(Step) /\ Len(P.steps) \in Nat \ {0}
           /\ P.confirm \in BOOLEAN /\ P.terminal \in BOOLEAN
           /\ bundle.next <= Len(P.steps)
           /\ ~Complete(bundle) => Current(bundle) \in Step
<1>1. bundle \in [plan : Plan, next : Nat, conf : Turn \cup {NoTurn}]
    BY DEF TypeOK, Bundle, Active
<1>2. P.steps \in Seq(Step) /\ P.steps # <<>> /\ P.confirm \in BOOLEAN /\ P.terminal \in BOOLEAN
    BY <1>1, PlanAssumption DEF P
<1>3. Len(P.steps) \in Nat \ {0}
    BY <1>2
<1>4. ~Complete(bundle) => Current(bundle) \in Step
    BY <1>1, <1>2, <1>3 DEF Complete, Current, P
<1> QED
    BY <1>1, <1>2, <1>3, <1>4 DEF TypeOK, P

\* What a plan's steps are for are goals.
LEMMA PlanGoals == \A p \in Plan : Goals(p) \subseteq Goal
<1>1. ASSUME NEW p \in Plan PROVE Goals(p) \subseteq Goal
    <2>1. p.steps \in Seq(Step)
        BY PlanAssumption
    <2>2. \A i \in DOMAIN p.steps : p.steps[i] \in Step
        BY <2>1
    <2>3. \A i \in DOMAIN p.steps : p.steps[i].goal \in Goal
        BY <2>2 DEF Step
    <2> QED
        BY <2>3 DEF Goals
<1> QED
    BY <1>1

\* No plan is None, so a bundle of a plan is never the absent one.
LEMMA FrozenIsActive ==
    ASSUME NEW p \in Plan, NEW n, NEW t
    PROVE  [plan |-> p, next |-> n, conf |-> t] # NoBundle
BY SessionAssumption DEF NoBundle

\* The confirmation latch only takes its own statuses, whatever is done to it.
LEMMA LatchType ==
    ASSUME TypeOK
    PROVE  /\ CancelAll \in [Plan \X Turn -> LatchStatus]
           /\ Expired \in [Plan \X Turn -> LatchStatus]
           /\ \A c \in Plan \X Turn : CancelAll[c] \notin {"pending", "confirmed"}
           /\ \A c \in Plan \X Turn : Expired[c] = "confirmed" => latch[c] = "confirmed"
           /\ \A c \in Plan \X Turn : Expired[c] = "pending" => latch[c] = "pending"
<1>1. DOMAIN latch = Plan \X Turn /\ \A c \in Plan \X Turn : latch[c] \in LatchStatus
    BY DEF TypeOK
<1> QED
    BY <1>1 DEF CancelAll, Expired, IsActive, LatchStatus
LEMMA ConsultedType ==
    ASSUME TypeOK, NEW p \in Plan
    PROVE  /\ Consulted(p) \in [Plan \X Turn -> LatchStatus]
           /\ Consumed(p) \in [Plan \X Turn -> LatchStatus]
           /\ \A c \in Plan \X Turn :
                  /\ Consulted(p)[c] = "confirmed" => latch[c] = "confirmed" /\ Authorizes(p)
                  /\ Consumed(p)[c] = "confirmed" => Consulted(p)[c] = "confirmed" /\ c[1] # p
                  /\ Consulted(p)[c] = "pending" => latch[c] = "pending"
<1> DEFINE D == Plan \X Turn
<1> HIDE DEF D
<1>1. DOMAIN latch = D
    BY DEF TypeOK, D
<1>2. Expired \in [D -> LatchStatus]
    BY LatchType DEF D
<1>3. \A c \in D : Expired[c] = "confirmed" => latch[c] = "confirmed"
    BY LatchType DEF D
<1>4. \A c \in D : Expired[c] = "pending" => latch[c] = "pending"
    BY LatchType DEF D
<1>5. \A c \in D : c \in Confirmed <=> Expired[c] = "confirmed"
    BY <1>1 DEF Confirmed
<1>6. Consulted(p) = [c \in D |-> IF c \in Confirmed /\ ~Authorizes(p) THEN "closed" ELSE Expired[c]]
    BY <1>1 DEF Consulted
<1>7. Consumed(p) = [c \in D |-> IF Authorizes(p) /\ c \in Confirmed /\ c[1] = p THEN "unused"
                                 ELSE Consulted(p)[c]]
    BY <1>1 DEF Consumed
<1>8. Consulted(p) \in [D -> LatchStatus] /\ Consumed(p) \in [D -> LatchStatus]
    BY <1>2, <1>6, <1>7 DEF LatchStatus
<1>9. ASSUME NEW c \in D
      PROVE  /\ Consulted(p)[c] = "confirmed" => latch[c] = "confirmed" /\ Authorizes(p)
             /\ Consumed(p)[c] = "confirmed" => Consulted(p)[c] = "confirmed" /\ c[1] # p
             /\ Consulted(p)[c] = "pending" => latch[c] = "pending"
    <2>1. /\ Consulted(p)[c] = IF c \in Confirmed /\ ~Authorizes(p) THEN "closed" ELSE Expired[c]
          /\ Consumed(p)[c] = IF Authorizes(p) /\ c \in Confirmed /\ c[1] = p THEN "unused"
                              ELSE Consulted(p)[c]
        BY <1>6, <1>7
    <2>2. Consulted(p)[c] = "confirmed" => Expired[c] = "confirmed" /\ Authorizes(p)
        BY <2>1, <1>5
    <2>3. Consulted(p)[c] = "pending" => Expired[c] = "pending"
        BY <2>1
    <2>4. Consumed(p)[c] = "confirmed" => Consulted(p)[c] = "confirmed" /\ c[1] # p
        BY <2>1, <2>2, <1>5
    <2> QED
        BY <2>2, <2>3, <2>4, <1>3, <1>4
<1> QED
    BY <1>8, <1>9 DEF D

\* Failing goals (_fail_goals) leaves every goal a status.
LEMMA FailedType ==
    ASSUME TypeOK, NEW F
    PROVE  Failed(F) \in [Goal -> Absent \cup GoalStatus]
BY DEF TypeOK, Failed, Absent, GoalStatus
-----------------------------------------------------------------------------
(* Steps.                                                                  *)

\* _abort_execution_bundle gives up on the bundle, on outstanding state changes
\* and on every confirmation, and keeps the types of all it changes.
LEMMA AbortEffect ==
    ASSUME TypeOK, NEW changed \in BOOLEAN, Abort(changed)
    PROVE  /\ bundle' = NoBundle /\ pendingSets' = {} /\ readback' = NoReadback
           /\ latch' \in [Plan \X Turn -> LatchStatus] /\ NoneConfirmed'
           /\ status' \in [Goal -> Absent \cup GoalStatus]
           /\ version' \in Nat
           /\ UNCHANGED <<completed, pendingReads, readAt>>
<1>1. CancelAll \in [Plan \X Turn -> LatchStatus] /\ \A c \in Plan \X Turn : CancelAll[c] # "confirmed"
    BY LatchType
<1>2. version' \in Nat
    BY DEF Abort, TypeOK
<1>3. status' \in [Goal -> Absent \cup GoalStatus]
    BY FailedType DEF Abort
<1> QED
    BY <1>1, <1>2, <1>3 DEF Abort, SetsAfterAbort, NoneConfirmed

\* Without a bundle, without outstanding state changes and with no call about to
\* be sent there is little left to show.
LEMMA NothingLeft ==
    ASSUME bundle' = NoBundle, pendingSets' = {}, readback' = NoReadback, NoneConfirmed',
           phase' \in {"idle", "request", "plan", "review", "record"},
           phase' \in {"request", "review"} => pendingReads' = {},
           phase' \in {"review", "record"} => out'.kind \in {"text", "complete"},
           phase' \in {"idle", "request", "record"} => review' = "no",
           phase' = "review" => review' # "no"
    PROVE  Serial' /\ Consent'
<1>1. ~Active'
    BY DEF Active
<1>2. Serial'
    BY <1>1 DEF Serial, OneSet, Prepared, Quiet
<1>3. Consent'
    BY <1>1 DEF Consent, ConfirmedIsAgreed, AskedInTime, Prepared, NoneConfirmed
<1> QED
    BY <1>2, <1>3

LEMMA TextType ==
    Text \in [kind : {"text", "reads", "set", "complete"}, reads : SUBSET Read,
              goals : SUBSET Goal, terminal : BOOLEAN]
BY DEF Text, Envelope

BatchType == [sets : SUBSET PendingSet, reads : SUBSET Read,
              doneSets : SUBSET PendingSet, doneReads : SUBSET Read,
              left : Nat, issue : BOOLEAN]

LEMMA BatchTypes == NoBatch \in BatchType
BY DEF NoBatch, BatchType

\* No event touches the counts of sends and attempts except a send.
LEMMA OnceKept ==
    ASSUME Once, sent' = sent, attempted \subseteq attempted'
    PROVE  Once'
BY DEF Once
-----------------------------------------------------------------------------
(* Every action keeps Inductive.                                           *)
USE DEF control, dag, frozen, pending, evidence, counts, history

\* What an abort followed by a text does to the invariant, wherever it happens.
LEMMA AbortAndSay ==
    ASSUME Inductive, NEW changed \in BOOLEAN, Abort(changed), Say,
           batch' \in {batch, NoBatch}, userTurns' \in Turn,
           authorized' \in {authorized, {}},
           UNCHANGED <<steps, gets, attempted, succeeded, history>>
    PROVE  Inductive'
<1>1. /\ bundle' = NoBundle /\ pendingSets' = {} /\ readback' = NoReadback
      /\ latch' \in [Plan \X Turn -> LatchStatus] /\ NoneConfirmed'
      /\ status' \in [Goal -> Absent \cup GoalStatus] /\ version' \in Nat
      /\ UNCHANGED <<completed, pendingReads, readAt>>
    BY AbortEffect DEF Inductive
<1>2. Serial' /\ Consent'
    BY <1>1, NothingLeft DEF Say, Text, Envelope
<1>3. TypeOK'
    <2>1. batch' \in BatchType
        BY BatchTypes DEF Inductive, TypeOK, BatchType
    <2>2. out' = Text /\ phase' = "record" /\ review' = "no" /\ ~Active' /\ bundle' \in Bundle
        BY <1>1 DEF Say, Bundle, Active
    <2> QED
        BY <1>1, <2>1, <2>2, TextType DEF Inductive, TypeOK, BatchType
<1>4. Once'
    BY OnceKept DEF Inductive
<1> QED
    BY <1>2, <1>3, <1>4 DEF Inductive

\* The bundle and its confirmation stay as they are, maybe for one more turn.
LEMMA FrozenKept ==
    ASSUME Inductive, UNCHANGED <<frozen, agreed>>, userTurns' \in {userTurns, userTurns + 1}
    PROVE  /\ ConfirmedIsAgreed' /\ AskedInTime'
           /\ P' = P /\ Active' = Active /\ InOrder' = InOrder /\ Settled' = Settled
<1>1. P' = P /\ Active' = Active /\ InOrder' = InOrder /\ Settled' = Settled
    BY DEF P, Active, InOrder, Settled, Complete
<1>2. userTurns \in Int /\ userTurns' >= userTurns
    BY SessionAssumption DEF Inductive, TypeOK, Turn
<1>3. Active => bundle.conf \in Int
    BY BundleType, SessionAssumption DEF Inductive, Turn, NoTurn
<1>4. ConfirmedIsAgreed'
    BY <1>1, <1>2, <1>3 DEF Inductive, Consent, ConfirmedIsAgreed, InOrder
<1>5. AskedInTime'
    BY <1>1, <1>2, <1>3 DEF Inductive, Consent, AskedInTime
<1> QED
    BY <1>1, <1>4, <1>5

\* While the user is asked, nothing of the bundle has been sent.
LEMMA AwaitingUser ==
    ASSUME Inductive, AwaitsAnswer
    PROVE  /\ bundle.next = 0 /\ pendingSets = {} /\ readback = NoReadback /\ InOrder
           /\ P.confirm /\ bundle.conf \in Turn /\ bundle.conf <= userTurns
<1>1. ~Settled /\ Active
    BY DEF AwaitsAnswer, Settled, P
<1>2. ~(pendingSets # {} \/ readback # NoReadback \/ bundle.next > 0)
    BY <1>1 DEF Inductive, Consent
<1>3. bundle.next = 0 /\ Len(P.steps) \in Nat \ {0} /\ bundle.conf \in Turn
    BY <1>1, <1>2, BundleType DEF Inductive, AwaitsAnswer
<1>4. InOrder
    BY <1>1, <1>3 DEF InOrder, Complete, P
<1> QED
    BY <1>1, <1>2, <1>3, <1>4 DEF Inductive, Consent, AskedInTime, AwaitsAnswer

LEMMA UserRepliesKeep ==
    ASSUME Inductive, UserReplies, UserAgrees \/ UserRefuses \/ UserUnclear
    PROVE  Inductive'
<1>1. /\ phase = "idle" /\ review = "no" /\ userTurns \in Nat /\ userTurns' = userTurns + 1
      /\ userTurns' \in Turn /\ UNCHANGED <<steps, gets, attempted, succeeded>>
    BY SessionAssumption DEF UserReplies, UserTurn, Inductive, Consent, TypeOK, Turn
<1>2. /\ bundle.next = 0 /\ readback = NoReadback /\ InOrder /\ P.confirm
      /\ bundle.conf \in Turn /\ bundle.conf <= userTurns /\ pendingSets = {} /\ pendingReads = {}
    BY AwaitingUser DEF UserReplies, Outstanding
<1>3. /\ P \in Plan /\ bundle = [plan |-> P, next |-> bundle.next, conf |-> bundle.conf]
      /\ Len(P.steps) \in Nat \ {0}
    BY <1>2, BundleType DEF Inductive, InOrder
<1>4. Once'
    BY <1>1, OnceKept DEF UserAgrees, UserRefuses, UserUnclear, Inductive
<1>5. CASE UserAgrees
    <2>1. P' = P /\ Active' /\ InOrder' /\ bundle' = bundle
        BY <1>2, <1>5 DEF UserAgrees, P, Active, InOrder, Complete
    <2>2. /\ latch' \in [Plan \X Turn -> LatchStatus]
          /\ \A c \in Plan \X Turn : latch'[c] = "confirmed" => c = <<P, bundle.conf>> \/ latch[c] = "confirmed"
          /\ latch'[<<P, bundle.conf>>] = "confirmed"
        BY <1>2, <1>3, <1>5 DEF UserAgrees, Inductive, TypeOK, LatchStatus, P
    <2>3. <<P, bundle.conf + 1>> \in agreed' /\ userTurns' = bundle.conf + 1
        BY <1>1, <1>2, <1>5, SessionAssumption DEF UserAgrees, P, Turn
    <2>4. ConfirmedIsAgreed' /\ AskedInTime'
        BY <1>1, <1>2, <2>1, <2>2, <2>3 DEF ConfirmedIsAgreed, AskedInTime, Inductive, Consent, Turn
    <2>5. Consent'
        BY <1>1, <1>2, <1>5, <2>1, <2>2, <2>4
        DEF UserAgrees, Continue, Consent, Inductive, Settled, Prepared, P, Active
    <2>6. Serial'
        BY <1>1, <1>2, <1>5, <2>1 DEF UserAgrees, Continue, Serial, OneSet, Prepared
    <2>7. agreed' \subseteq Plan \X Turn
        BY <1>1, <1>3, <1>5 DEF UserAgrees, Inductive, TypeOK, P
    <2>8. TypeOK'
        BY <1>1, <1>2, <1>5, <2>1, <2>2, <2>7 DEF UserAgrees, Continue, Inductive, TypeOK
    <2> QED
        BY <1>4, <2>5, <2>6, <2>8 DEF Inductive
<1>6. CASE UserRefuses
    <2>1. latch' \in [Plan \X Turn -> LatchStatus] /\ NoneConfirmed'
        BY <1>6, LatchType DEF UserRefuses, NoneConfirmed, Inductive
    <2>2. Serial' /\ Consent'
        BY <1>2, <1>6, <2>1, NothingLeft DEF UserRefuses, Say, Text, Envelope
    <2>3. TypeOK'
        BY <1>1, <1>6, <2>1, TextType DEF UserRefuses, Say, Inductive, TypeOK, Bundle, Active
    <2> QED
        BY <1>4, <2>2, <2>3 DEF Inductive
<1>7. CASE UserUnclear
    <2>1. /\ bundle' = [plan |-> P, next |-> 0, conf |-> userTurns'] /\ Active' /\ P' = P /\ InOrder'
          /\ bundle' \in Bundle
        BY <1>1, <1>2, <1>3, <1>7, FrozenIsActive DEF UserUnclear, P, Active, InOrder, Complete, Bundle
    <2>2. latch' \in [Plan \X Turn -> LatchStatus] /\ NoneConfirmed'
        BY <1>7, LatchType DEF UserUnclear, Armed, NoneConfirmed, Inductive, LatchStatus, IsActive
    <2>3. Consent'
        BY <1>1, <1>2, <1>7, <2>1, <2>2, TextType
        DEF UserUnclear, Say, Consent, ConfirmedIsAgreed, AskedInTime, NoneConfirmed, Prepared, Text, Envelope
    <2>4. Serial'
        BY <1>2, <1>7 DEF UserUnclear, Say, Serial, OneSet, Prepared, Text, Envelope
    <2>5. TypeOK'
        BY <1>1, <1>3, <1>7, <2>1, <2>2, TextType DEF UserUnclear, Say, Inductive, TypeOK
    <2> QED
        BY <1>4, <2>3, <2>4, <2>5 DEF Inductive
<1> QED
    BY <1>5, <1>6, <1>7

LEMMA UserEventKeeps ==
    ASSUME Inductive, UserEvent
    PROVE  Inductive'
<1>1. CASE UserTurnRefused
    BY <1>1, AbortAndSay DEF UserTurnRefused, Inductive, TypeOK
<1>2. CASE UserConflicts
    <2>1. userTurns' \in Turn
        BY <1>2, SessionAssumption DEF UserConflicts, UserReplies, UserTurn, Inductive, TypeOK, Turn
    <2> QED
        BY <1>2, <2>1, AbortAndSay DEF UserConflicts, UserReplies, UserTurn
<1>3. CASE UserAside
    <2>1. TypeOK'
        BY <1>3, TextType, SessionAssumption DEF UserAside, UserTurn, Say, Inductive, TypeOK, Turn, Active, P
    <2>2. Serial'
        BY <1>3 DEF UserAside, UserTurn, Say, Inductive, Serial, OneSet, InOrder, Active, CurrentSet, Text, Envelope, Prepared
    <2>3. Consent'
        BY <1>3, FrozenKept DEF UserAside, UserTurn, Say, Inductive, Consent, Text, Envelope, Prepared
    <2>4. Once'
        BY <1>3, OnceKept DEF UserAside, UserTurn, Inductive
    <2> QED
        BY <2>1, <2>2, <2>3, <2>4 DEF Inductive
<1>4. CASE UserAgrees \/ UserRefuses \/ UserUnclear
    BY <1>4, UserRepliesKeep DEF UserAgrees, UserRefuses, UserUnclear
<1>5. CASE UserRequests
    <2>1. /\ phase = "idle" /\ review = "no" /\ userTurns' \in Turn /\ pendingSets = {} /\ pendingReads = {}
          /\ UNCHANGED <<steps, gets, attempted, succeeded, history, authorized, batch, out>>
          /\ phase' = "request" /\ review' = review
        BY <1>5, SessionAssumption
        DEF UserRequests, UserTurn, Outstanding, Inductive, Consent, TypeOK, Turn, Continue
    <2>2. /\ bundle' = NoBundle /\ pendingSets' = {} /\ readback' = NoReadback /\ NoneConfirmed'
          /\ latch' \in [Plan \X Turn -> LatchStatus]
          /\ status' \in [Goal -> Absent \cup GoalStatus] /\ version' \in Nat
          /\ UNCHANGED <<completed, pendingReads, readAt>>
        <3>1. CASE Active
            BY <1>5, <3>1, AbortEffect DEF UserRequests, Inductive
        <3>2. CASE ~Active
            BY <1>5, <2>1, <3>2
            DEF UserRequests, Inductive, TypeOK, Active, Serial, Consent, ConfirmedIsAgreed, InOrder, NoneConfirmed
        <3> QED BY <3>1, <3>2
    <2>3. Serial' /\ Consent'
        BY <2>1, <2>2, NothingLeft
    <2>4. TypeOK'
        BY <2>1, <2>2 DEF Inductive, TypeOK, Bundle, Active
    <2>5. Once'
        BY <2>1, OnceKept DEF Inductive
    <2> QED
        BY <2>3, <2>4, <2>5 DEF Inductive
<1> QED
    BY <1>1, <1>2, <1>3, <1>4, <1>5 DEF UserEvent
\* A step that leaves the state alone and, outside the check of a call, records
\* a text or goes on to plan.
LEMMA OnlyControl ==
    ASSUME Inductive,
           UNCHANGED <<dag, frozen, pending, batch, evidence, counts, history>>,
           \/ phase \in {"idle", "plan", "record"} /\ Say
           \/ phase = "request" /\ (Say \/ Continue("plan"))
           \/ phase = "idle" /\ Continue("plan")
           \/ phase = "idle" /\ phase' = "closed" /\ UNCHANGED <<out, review>>
    PROVE  Inductive'
<1>1. TypeOK'
    BY TextType DEF Inductive, TypeOK, Say, Continue, Active, P
<1>2. /\ ConfirmedIsAgreed' /\ AskedInTime' /\ P' = P /\ Active' = Active
      /\ InOrder' = InOrder /\ Settled' = Settled
    BY FrozenKept
<1>3. Serial'
    BY <1>2 DEF Inductive, Serial, OneSet, CurrentSet, Say, Continue, Prepared, Quiet, Text, Envelope
<1>4. Consent'
    BY <1>2 DEF Inductive, Consent, Say, Continue, Prepared, Text, Envelope, Serial
<1>5. Once'
    BY OnceKept DEF Inductive
<1> QED
    BY <1>1, <1>3, <1>4, <1>5 DEF Inductive

LEMMA EventKeeps ==
    ASSUME Inductive, Event
    PROVE  Inductive'
<1>1. CASE UserEvent
    BY <1>1, UserEventKeeps
<1>2. CASE EmptyEvent
    BY <1>2, OnlyControl DEF EmptyEvent
<1>3. CASE CloseEvent
    BY <1>3, OnlyControl DEF CloseEvent
<1>4. CASE StrayResultsEvent
    BY <1>4, OnlyControl DEF StrayResultsEvent
<1>5. CASE MalformedEvent
    <2>1. CASE pendingSets # {}
        BY <1>5, <2>1, AbortAndSay DEF MalformedEvent, Inductive, TypeOK
    <2>2. CASE pendingSets = {}
        BY <1>5, <2>2, OnlyControl DEF MalformedEvent
    <2> QED
        BY <2>1, <2>2
<1>6. ASSUME NEW n \in 1..MaxResults, ResultsEvent(n)
      PROVE  Inductive'
    <2>1. /\ ConfirmedIsAgreed' /\ AskedInTime' /\ P' = P /\ Active' = Active
          /\ InOrder' = InOrder /\ Settled' = Settled
        BY <1>6, FrozenKept DEF ResultsEvent
    <2>2. batch' = [sets |-> pendingSets, reads |-> pendingReads, doneSets |-> {}, doneReads |-> {},
                    left |-> n, issue |-> FALSE]
        BY <1>6 DEF ResultsEvent, NoBatch
    <2>3. TypeOK'
        <3>1. batch' \in BatchType
            BY <2>2, SessionAssumption DEF BatchType, Inductive, TypeOK
        <3> QED
            BY <1>6, <2>1, <3>1 DEF ResultsEvent, Continue, Inductive, TypeOK, BatchType
    <2>4. BatchOK'
        BY <1>6, <2>1, <2>2 DEF ResultsEvent, BatchOK, CurrentSet, Inductive, Serial, OneSet
    <2>5. Serial'
        BY <1>6, <2>1, <2>4 DEF ResultsEvent, Continue, Inductive, Serial, Prepared
    <2>6. Consent'
        BY <1>6, <2>1 DEF ResultsEvent, Continue, Inductive, Consent, Prepared
    <2>7. Once'
        BY <1>6, OnceKept DEF ResultsEvent, Inductive
    <2> QED
        BY <2>3, <2>5, <2>6, <2>7 DEF Inductive
<1> QED
    BY <1>1, <1>2, <1>3, <1>4, <1>5, <1>6 DEF Event

\* With nothing frozen and nothing outstanding, goals come, go and end without
\* disturbing what is sent.
LEMMA GoalsChange ==
    ASSUME Inductive, ~Active, Quiet, Continue("plan") \/ Say,
           bundle' = NoBundle, latch' \in {latch, CancelAll}, authorized' \subseteq Goal,
           status' \in [Goal -> Absent \cup GoalStatus],
           UNCHANGED <<completed, readback, pending, batch, evidence, counts, history>>
    PROVE  Inductive'
<1>1. NoneConfirmed
    BY DEF Inductive, Consent, ConfirmedIsAgreed, InOrder, NoneConfirmed
<1>2. latch' \in [Plan \X Turn -> LatchStatus] /\ NoneConfirmed'
    BY <1>1, LatchType DEF Inductive, TypeOK, NoneConfirmed
<1>3. \/ phase' = "plan" /\ out' = out /\ review' = review
      \/ phase' = "record" /\ out' = Text /\ review' = "no"
    BY DEF Continue, Say
<1>4. Serial' /\ Consent'
    BY <1>2, <1>3, NothingLeft DEF Quiet, Text, Envelope
<1>5. TypeOK'
    BY <1>2, <1>3, TextType DEF Inductive, TypeOK, Bundle, Active
<1>6. Once'
    BY OnceKept DEF Inductive
<1> QED
    BY <1>4, <1>5, <1>6 DEF Inductive

\* GoalPlanner.update gives every goal a status.
LEMMA ReplacedType ==
    ASSUME TypeOK, NEW G
    PROVE  Replaced(G) \in [Goal -> Absent \cup GoalStatus]
BY DEF TypeOK, Replaced, Absent, GoalStatus

LEMMA RequestKeeps ==
    ASSUME Inductive, Request
    PROVE  Inductive'
<1>1. CASE OtherRequest
    BY <1>1, OnlyControl DEF OtherRequest
<1>2. phase = "request" => ~Active /\ Quiet
    BY DEF Inductive, Serial
<1>3. ASSUME NEW G \in SUBSET Goal, NEW A \in SUBSET G, NewGoals(G, A)
      PROVE  Inductive'
    <2>1. status' \in [Goal -> Absent \cup GoalStatus]
        BY <1>3, ReplacedType DEF NewGoals, Inductive
    <2> QED
        BY <1>2, <1>3, <2>1, GoalsChange DEF NewGoals
<1>4. ASSUME NEW A \in SUBSET Goal, RequestAuthorizes(A)
      PROVE  Inductive'
    <2>1. authorized' \subseteq Goal /\ status' \in [Goal -> Absent \cup GoalStatus]
        BY <1>4 DEF RequestAuthorizes, Inductive, TypeOK
    <2> QED
        BY <1>2, <1>4, <2>1, GoalsChange DEF RequestAuthorizes
<1>5. ASSUME NEW g \in Goal, RequestWithdraws(g)
      PROVE  Inductive'
    <2>1. authorized' \subseteq Goal /\ status' \in [Goal -> Absent \cup GoalStatus]
        BY <1>5, FailedType DEF RequestWithdraws, Inductive, TypeOK
    <2> QED
        BY <1>2, <1>5, <2>1, GoalsChange DEF RequestWithdraws
<1>6. CASE FollowUp
    <2>1. CASE Dangling
        BY <1>6, <2>1, AbortAndSay DEF FollowUp, Inductive, TypeOK
    <2>2. CASE ~Dangling
        <3>1. status' \in [Goal -> Absent \cup GoalStatus]
            BY <1>6, <2>2 DEF FollowUp, Inductive, TypeOK, Absent
        <3> QED
            BY <1>2, <1>6, <2>2, <3>1, GoalsChange DEF FollowUp
    <2> QED
        BY <2>1, <2>2
<1> QED
    BY <1>1, <1>3, <1>4, <1>5, <1>6 DEF Request

\* bundle.advance keeps the bundle in range, asks for nothing and leaves no
\* authorization behind when it was the last call.
LEMMA AdvanceEffect ==
    ASSUME Inductive, InOrder, Settled, Advance, UNCHANGED <<userTurns, agreed>>
    PROVE  /\ P' = P /\ Active' /\ bundle' \in Bundle /\ bundle'.next <= Len(P.steps)
           /\ latch' \in [Plan \X Turn -> LatchStatus]
           /\ status' \in [Goal -> Absent \cup GoalStatus]
           /\ completed' \subseteq Goal /\ version' \in Nat
           /\ ConfirmedIsAgreed' /\ AskedInTime' /\ Settled'
<1>1. /\ Active /\ P \in Plan /\ bundle.next \in Nat /\ bundle.conf \in Turn \cup {NoTurn}
      /\ bundle = [plan |-> P, next |-> bundle.next, conf |-> bundle.conf]
      /\ P.steps \in Seq(Step) /\ Len(P.steps) \in Nat /\ bundle.next < Len(P.steps)
    BY BundleType DEF Inductive, InOrder, Complete, P
<1>2. /\ bundle' = [plan |-> P, next |-> bundle.next + 1, conf |-> bundle.conf]
      /\ P' = P /\ Active' /\ bundle' \in Bundle /\ bundle'.next <= Len(P.steps)
    BY <1>1, FrozenIsActive DEF Advance, Advanced, P, Active, Bundle
<1>3. Advanced(bundle) = bundle'
    BY DEF Advance
<1>4. Goals(P) \subseteq Goal
    BY <1>1, PlanGoals
<1>5. CASE Complete(Advanced(bundle))
    <2>1. /\ latch' = IF bundle.conf = NoTurn THEN latch ELSE Consumed(P)
          /\ completed' = completed \cup Goals(P) /\ version' = version + 1
          /\ status' = [g \in Goal |-> IF g \in Goals(P) \cap Present THEN "done" ELSE status[g]]
        BY <1>5 DEF Advance, P
    <2>2. latch' \in [Plan \X Turn -> LatchStatus]
        BY <1>1, <2>1, ConsultedType DEF Inductive, TypeOK
    <2>3. NoneConfirmed'
        <3>1. \A c \in Plan \X Turn : latch[c] = "confirmed" => c[1] = P /\ bundle.conf \in Turn
            BY DEF Inductive, Consent, ConfirmedIsAgreed
        <3>2. NoTurn \notin Turn
            BY SessionAssumption DEF Turn, NoTurn
        <3>3. \A c \in Plan \X Turn : latch'[c] # "confirmed"
            BY <1>1, <2>1, <3>1, <3>2, ConsultedType DEF Inductive
        <3> QED
            BY <3>3 DEF NoneConfirmed
    <2>4. Settled'
        <3>1. ASSUME bundle.conf # NoTurn PROVE latch'[<<P, bundle.conf>>] # "pending"
            <4>1. <<P, bundle.conf>> \in Plan \X Turn /\ latch[<<P, bundle.conf>>] # "pending"
                BY <1>1, <3>1 DEF Settled
            <4>2. \/ Consumed(P)[<<P, bundle.conf>>] = "unused"
                  \/ Consumed(P)[<<P, bundle.conf>>] = Consulted(P)[<<P, bundle.conf>>]
                BY <4>1 DEF Consumed, Inductive, TypeOK
            <4> QED
                BY <1>1, <2>1, <3>1, <4>1, <4>2, ConsultedType DEF Inductive
        <3> QED
            BY <1>2, <3>1 DEF Settled
    <2>5. status' \in [Goal -> Absent \cup GoalStatus]
        BY <2>1 DEF Inductive, TypeOK, GoalStatus
    <2>6. AskedInTime'
        BY <1>1, <1>2 DEF Inductive, Consent, AskedInTime
    <2> QED
        BY <1>2, <1>4, <2>1, <2>2, <2>3, <2>4, <2>5, <2>6
        DEF Inductive, TypeOK, NoneConfirmed, ConfirmedIsAgreed
<1>6. CASE ~Complete(Advanced(bundle))
    <2>1. UNCHANGED <<latch, completed, version, status>>
        BY <1>6 DEF Advance
    <2>2. InOrder'
        BY <1>2, <1>3, <1>6 DEF InOrder, Complete
    <2>3. ConfirmedIsAgreed' /\ AskedInTime' /\ Settled'
        BY <1>1, <1>2, <2>1, <2>2 DEF Inductive, Consent, ConfirmedIsAgreed, AskedInTime, Settled
    <2> QED
        BY <1>2, <2>1, <2>3 DEF Inductive, TypeOK
<1> QED
    BY <1>5, <1>6
\* A call whose result comes in is the one outstanding call of the bundle in
\* hand, whatever came before it in this event.
LEMMA TakenSet ==
    ASSUME Inductive, NEW s \in batch.sets, TakeSet(s)
    PROVE  /\ phase = "results" /\ review = "no" /\ BatchOK /\ batch.left \in Nat \ {0}
           /\ s \in PendingSet /\ InOrder /\ Active /\ pendingSets = {s} /\ s = CurrentSet
           /\ s.index = bundle.next /\ s.call \in Call /\ pendingReads = {} /\ readback = NoReadback
           /\ batch.sets \subseteq batch.doneSets \cup {s} /\ batch.reads = {} /\ Settled
<1>1. phase = "results" /\ batch.left > 0 /\ s \notin batch.doneSets
    BY DEF TakeSet, Results
<1>2. BatchOK /\ review = "no" /\ batch.left \in Nat \ {0} /\ s \in PendingSet
    BY <1>1 DEF Inductive, Serial, Consent, TypeOK
<1>3. s \in pendingSets \ batch.doneSets /\ batch.reads = {}
    BY <1>1, <1>2 DEF BatchOK
<1>4. InOrder /\ pendingSets = {s} /\ s = CurrentSet /\ pendingReads = {} /\ readback = NoReadback
    BY <1>2, <1>3 DEF BatchOK
<1>5. Active /\ s.index = bundle.next /\ s.call \in Call
    BY <1>2, <1>4 DEF InOrder, CurrentSet, PendingSet
<1>6. batch.sets \subseteq batch.doneSets \cup {s}
    BY <1>1, <1>2, <1>4 DEF BatchOK
<1>7. Settled
    BY <1>3, <1>5 DEF Inductive, Consent
<1> QED
    BY <1>1, <1>2, <1>3, <1>4, <1>5, <1>6, <1>7

\* What taking a result does to the results of the event.
LEMMA TookType ==
    ASSUME Inductive, Results, NEW bad \in BOOLEAN
    PROVE  /\ Next1(bad) \in BatchType
           /\ \A s \in PendingSet : TookSet(s, bad) =>
                 /\ batch' \in BatchType
                 /\ batch'.sets = batch.sets /\ batch'.reads = batch.reads
                 /\ batch'.doneSets = batch.doneSets \cup {s}
           /\ \A r \in Read : TookRead(r, bad) =>
                 /\ batch' \in BatchType
                 /\ batch'.sets = batch.sets /\ batch'.reads = batch.reads
                 /\ batch'.doneSets = batch.doneSets
           /\ Next1(bad).sets = batch.sets /\ Next1(bad).reads = batch.reads
           /\ Next1(bad).doneSets = batch.doneSets
<1>1. batch \in BatchType /\ batch.left \in Nat /\ batch.left > 0
    BY DEF Inductive, TypeOK, BatchType, Results
<1>2. /\ Next1(bad) \in BatchType
      /\ Next1(bad).sets = batch.sets /\ Next1(bad).reads = batch.reads
      /\ Next1(bad).doneSets = batch.doneSets /\ Next1(bad).doneReads = batch.doneReads
    <2> DEFINE l == batch.left - 1
    <2> DEFINE i == batch.issue \/ bad
    <2>1. l \in Nat
        BY <1>1
    <2>2. i \in BOOLEAN
        OBVIOUS
    <2>3. Next1(bad) = [batch EXCEPT !.left = l, !.issue = i]
        BY DEF Next1
    <2> HIDE DEF l, i
    <2> QED
        BY <1>1, <2>1, <2>2, <2>3 DEF BatchType
<1>3. ASSUME NEW s \in PendingSet, TookSet(s, bad)
      PROVE  /\ batch' \in BatchType
             /\ batch'.sets = batch.sets /\ batch'.reads = batch.reads
             /\ batch'.doneSets = batch.doneSets \cup {s}
    <2> DEFINE n == Next1(bad)
    <2>1. batch' = [n EXCEPT !.doneSets = @ \cup {s}]
        BY <1>3 DEF TookSet
    <2> HIDE DEF n
    <2> QED
        BY <1>2, <2>1 DEF BatchType, n
<1>4. ASSUME NEW r \in Read, TookRead(r, bad)
      PROVE  /\ batch' \in BatchType
             /\ batch'.sets = batch.sets /\ batch'.reads = batch.reads
             /\ batch'.doneSets = batch.doneSets
    BY <1>2, <1>4 DEF TookRead, BatchType
<1> QED
    BY <1>2, <1>3, <1>4
\* An abort in the middle of the results leaves nothing to wait for.
LEMMA AbortInResults ==
    ASSUME Inductive, phase = "results", Abort(TRUE), UNCHANGED control,
           batch' \in BatchType, batch'.sets = batch.sets, batch'.reads = batch.reads,
           batch'.left > 0 => batch.sets \subseteq batch'.doneSets,
           UNCHANGED <<authorized, counts, history>>
    PROVE  Inductive'
<1>1. /\ bundle' = NoBundle /\ pendingSets' = {} /\ readback' = NoReadback
      /\ latch' \in [Plan \X Turn -> LatchStatus] /\ NoneConfirmed'
      /\ status' \in [Goal -> Absent \cup GoalStatus] /\ version' \in Nat
      /\ UNCHANGED <<completed, pendingReads, readAt>>
    BY AbortEffect DEF Inductive
<1>2. BatchOK /\ review = "no" /\ ~Active'
    BY <1>1 DEF Inductive, Serial, Consent, Active
<1>3. BatchOK'
    BY <1>1, <1>2 DEF BatchOK
<1>4. Serial'
    BY <1>1, <1>2, <1>3 DEF Serial, Prepared
<1>5. Consent'
    BY <1>1, <1>2 DEF Consent, ConfirmedIsAgreed, AskedInTime, NoneConfirmed, Prepared
<1>6. TypeOK'
    BY <1>1, <1>2 DEF Inductive, TypeOK, Bundle, BatchType
<1>7. Once'
    BY OnceKept DEF Inductive
<1> QED
    BY <1>4, <1>5, <1>6, <1>7 DEF Inductive

LEMMA SetResultKeeps ==
    ASSUME Inductive, NEW s \in batch.sets, SetVerified(s) \/ SetNotVerified(s) \/ SetToReadBack(s)
    PROVE  Inductive'
<1>1. /\ phase = "results" /\ review = "no" /\ BatchOK /\ batch.left \in Nat \ {0}
      /\ s \in PendingSet /\ InOrder /\ Active /\ pendingSets = {s} /\ s = CurrentSet
      /\ s.index = bundle.next /\ s.call \in Call /\ pendingReads = {} /\ readback = NoReadback
      /\ batch.sets \subseteq batch.doneSets \cup {s} /\ batch.reads = {} /\ Settled
      /\ Results
    BY TakenSet DEF SetVerified, SetNotVerified, SetToReadBack, TakeSet
<1>2. PICK bad \in BOOLEAN : TookSet(s, bad)
    BY DEF SetVerified, SetNotVerified, SetToReadBack
<1>3. /\ batch' \in BatchType /\ batch'.sets = batch.sets /\ batch'.reads = batch.reads
      /\ batch'.doneSets = batch.doneSets \cup {s}
    BY <1>1, <1>2, TookType
<1>4. CASE SetNotVerified(s)
    BY <1>1, <1>3, <1>4, AbortInResults DEF SetNotVerified
<1>5. CASE SetVerified(s)
    <2>1. /\ Advance /\ succeeded' = succeeded \cup {s.call} /\ attempted' = attempted \cup {s.call}
          /\ UNCHANGED <<readback, pending, readAt, control, authorized, steps, userTurns, gets, history>>
        BY <1>1, <1>5 DEF SetVerified
    <2>2. /\ P' = P /\ Active' /\ bundle' \in Bundle /\ bundle'.next <= Len(P.steps)
          /\ latch' \in [Plan \X Turn -> LatchStatus]
          /\ status' \in [Goal -> Absent \cup GoalStatus]
          /\ completed' \subseteq Goal /\ version' \in Nat
          /\ ConfirmedIsAgreed' /\ AskedInTime' /\ Settled'
        BY <1>1, <2>1, AdvanceEffect
    <2>3. BatchOK'
        BY <1>1, <1>3, <2>1 DEF BatchOK
    <2>4. Serial'
        BY <1>1, <2>1, <2>3 DEF Serial, Prepared
    <2>5. Consent'
        BY <1>1, <2>1, <2>2 DEF Consent, Prepared
    <2>6. TypeOK'
        BY <1>1, <1>3, <2>1, <2>2 DEF Inductive, TypeOK, BatchType
    <2>7. Once'
        BY <2>1, OnceKept DEF Inductive
    <2> QED
        BY <2>4, <2>5, <2>6, <2>7 DEF Inductive
<1>6. CASE SetToReadBack(s)
    <2>1. /\ readback' = [of |-> s, seen |-> FALSE] /\ gets' = [gets EXCEPT ![Readback] = 0]
          /\ UNCHANGED <<control, dag, bundle, latch, pending, evidence, steps, userTurns,
                         attempted, succeeded, history>>
        BY <1>6 DEF SetToReadBack
    <2>2. P' = P /\ Active' = Active /\ InOrder' = InOrder /\ Settled' = Settled
        BY <2>1 DEF P, Active, InOrder, Complete, Settled
    <2>3. ConfirmedIsAgreed' /\ AskedInTime'
        BY <2>1, <2>2 DEF Inductive, Consent, ConfirmedIsAgreed, AskedInTime
    <2>4. BatchOK'
        BY <1>1, <1>3, <2>1 DEF BatchOK
    <2>5. Serial'
        BY <1>1, <2>1, <2>2, <2>4 DEF Serial, Prepared
    <2>6. Consent'
        BY <1>1, <2>1, <2>2, <2>3 DEF Consent, Prepared
    <2>7. gets' \in [Read -> 0..MaxGets]
        BY <2>1, SessionAssumption DEF Inductive, TypeOK
    <2>8. TypeOK'
        BY <1>1, <1>3, <2>1, <2>2, <2>7 DEF Inductive, TypeOK, BatchType
    <2>9. Once'
        BY <2>1, OnceKept DEF Inductive
    <2> QED
        BY <2>5, <2>6, <2>8, <2>9 DEF Inductive
<1> QED
    BY <1>4, <1>5, <1>6

LEMMA ReadResultKeeps ==
    ASSUME Inductive, NEW r \in batch.reads,
           ReadSucceeds(r) \/ \E bad \in BOOLEAN : ReadFails(r, bad)
    PROVE  Inductive'
<1>1. PICK bad \in BOOLEAN : TookRead(r, bad) /\ (ReadSucceeds(r) \/ ReadFails(r, bad))
    BY DEF ReadSucceeds, ReadFails
<1>2. /\ phase = "results" /\ BatchOK /\ review = "no" /\ r \in Read /\ Results
      /\ batch.left > 0 /\ UNCHANGED control
    BY <1>1 DEF ReadSucceeds, ReadFails, TakeRead, Results, Inductive, Serial, Consent, TypeOK
<1>3. /\ batch' \in BatchType /\ batch'.sets = batch.sets /\ batch'.reads = batch.reads
      /\ batch'.doneSets = batch.doneSets
    BY <1>1, <1>2, TookType
<1>4. batch.sets = {} /\ pendingSets = {}
    BY <1>2 DEF BatchOK
<1>5. CASE ReadFails(r, bad) /\ bad /\ r = Readback /\ readback # NoReadback
    BY <1>2, <1>3, <1>4, <1>5, AbortInResults DEF ReadFails
<1>6. ASSUME /\ UNCHANGED <<control, dag, bundle, latch, pending, version, counts, sent, agreed, reported>>
             /\ readAt' \in [Read -> Nat \cup {-1}] /\ tainted' \subseteq Read
             /\ readback' \in [of : PendingSet, seen : BOOLEAN] \cup {NoReadback}
             /\ readback' # NoReadback => readback # NoReadback /\ readback'.of = readback.of
      PROVE  Inductive'
    <2>1. P' = P /\ Active' = Active /\ InOrder' = InOrder /\ Settled' = Settled
        BY <1>6 DEF P, Active, InOrder, Complete, Settled
    <2>2. ConfirmedIsAgreed' /\ AskedInTime'
        BY <1>6, <2>1 DEF Inductive, Consent, ConfirmedIsAgreed, AskedInTime
    <2>3. BatchOK'
        BY <1>2, <1>3, <1>4, <1>6 DEF BatchOK
    <2>4. Serial'
        BY <1>2, <1>6, <2>1, <2>3 DEF Inductive, Serial, Prepared
    <2>5. Consent'
        BY <1>2, <1>6, <2>1, <2>2 DEF Inductive, Consent, Prepared
    <2>6. TypeOK'
        BY <1>3, <1>6, <2>1 DEF Inductive, TypeOK, BatchType
    <2>7. Once'
        BY <1>6, OnceKept DEF Inductive
    <2> QED
        BY <2>4, <2>5, <2>6, <2>7 DEF Inductive
<1>7. CASE ReadSucceeds(r)
    <2>1. readAt' \in [Read -> Nat \cup {-1}] /\ tainted' \subseteq Read
        BY <1>7 DEF ReadSucceeds, Inductive, TypeOK
    <2>2. /\ readback' \in [of : PendingSet, seen : BOOLEAN] \cup {NoReadback}
          /\ readback' # NoReadback => readback # NoReadback /\ readback'.of = readback.of
        <3>1. CASE readback = NoReadback
            BY <1>7, <3>1 DEF ReadSucceeds
        <3>2. CASE readback # NoReadback
            <4>1. readback \in [of : PendingSet, seen : BOOLEAN]
                BY <3>2 DEF Inductive, TypeOK
            <4> QED
                BY <1>7, <4>1 DEF ReadSucceeds
        <3> QED
            BY <3>1, <3>2
    <2> QED
        BY <1>6, <1>7, <2>1, <2>2 DEF ReadSucceeds
<1>8. CASE ReadFails(r, bad) /\ ~(bad /\ r = Readback /\ readback # NoReadback)
    <2>1. UNCHANGED <<control, dag, frozen, pending, evidence, counts, history>>
        BY <1>8 DEF ReadFails
    <2> QED
        BY <1>6, <2>1 DEF Inductive, TypeOK
<1> QED
    BY <1>1, <1>5, <1>7, <1>8
LEMMA ResultsDoneKeeps ==
    ASSUME Inductive, NEW F \in {{}} \cup {{g} : g \in Goal}, ResultsDone(F)
    PROVE  Inductive'
<1>1. /\ phase = "results" /\ batch.left = 0 /\ batch' = NoBatch
      /\ pendingSets' = pendingSets \ batch.doneSets /\ pendingReads' = pendingReads \ batch.doneReads
      /\ UNCHANGED <<authorized, completed, frozen, evidence, counts, history>>
      /\ \/ phase' = "record" /\ out' = Text /\ review' = "no"
         \/ phase' = "plan" /\ out' = out /\ review' = review
    BY DEF ResultsDone, Say, Continue
<1>2. BatchOK /\ review = "no"
    BY <1>1 DEF Inductive, Serial, Consent
<1>3. status' \in [Goal -> Absent \cup GoalStatus]
    BY FailedType DEF ResultsDone, Inductive
<1>4. /\ ConfirmedIsAgreed' /\ AskedInTime' /\ P' = P /\ Active' = Active
      /\ InOrder' = InOrder /\ Settled' = Settled
    BY <1>1, FrozenKept
<1>5. OneSet'
    BY <1>1, <1>2, <1>4 DEF BatchOK, OneSet, CurrentSet
<1>6. Serial'
    BY <1>1, <1>4, <1>5 DEF Inductive, Serial, Prepared, Text, Envelope
<1>7. Consent'
    BY <1>1, <1>2, <1>4 DEF Inductive, Consent, Prepared, Text, Envelope
<1>8. TypeOK'
    BY <1>1, <1>3, <1>4, TextType, BatchTypes DEF Inductive, TypeOK, BatchType
<1>9. Once'
    BY <1>1, OnceKept DEF Inductive
<1> QED
    BY <1>6, <1>7, <1>8, <1>9 DEF Inductive

LEMMA ProcessResultsKeeps ==
    ASSUME Inductive, ProcessResults
    PROVE  Inductive'
<1>1. ASSUME NEW bad \in BOOLEAN, Results, batch' = Next1(bad),
             UNCHANGED <<control, dag, frozen, pending, evidence, counts, history>>
      PROVE  Inductive'
    <2>1. /\ batch' \in BatchType /\ batch'.sets = batch.sets /\ batch'.reads = batch.reads
          /\ batch'.doneSets = batch.doneSets
        BY <1>1, TookType
    <2>2. /\ ConfirmedIsAgreed' /\ AskedInTime' /\ P' = P /\ Active' = Active
          /\ InOrder' = InOrder /\ Settled' = Settled
        BY <1>1, FrozenKept
    <2>3. phase = "results" /\ batch.left > 0 /\ BatchOK /\ review = "no"
        BY <1>1 DEF Results, Inductive, Serial, Consent
    <2>4. BatchOK'
        BY <1>1, <2>1, <2>2, <2>3 DEF BatchOK, CurrentSet
    <2>5. Serial'
        BY <1>1, <2>2, <2>3, <2>4 DEF Inductive, Serial, Prepared
    <2>6. Consent'
        BY <1>1, <2>2, <2>3 DEF Inductive, Consent, Prepared
    <2>7. TypeOK'
        BY <1>1, <2>1, <2>2 DEF Inductive, TypeOK, BatchType
    <2>8. Once'
        BY <1>1, OnceKept DEF Inductive
    <2> QED
        BY <2>5, <2>6, <2>7, <2>8 DEF Inductive
<1>2. CASE ResultRepeated
    BY <1>1, <1>2 DEF ResultRepeated
<1>3. CASE ResultUnmatched
    <2>1. CASE batch.sets = {}
        BY <1>1, <1>3, <2>1 DEF ResultUnmatched
    <2>2. CASE batch.sets # {}
        <3>1. Next1(TRUE) \in BatchType /\ Next1(TRUE).sets = batch.sets /\ Next1(TRUE).reads = batch.reads
            BY <1>3, TookType DEF ResultUnmatched
        <3>2. batch' = [Next1(TRUE) EXCEPT !.left = 0]
            BY <1>3, <2>2 DEF ResultUnmatched
        <3>3. /\ batch' \in BatchType /\ batch'.left = 0 /\ batch'.sets = batch.sets
              /\ batch'.reads = batch.reads
            BY <3>1, <3>2 DEF BatchType
        <3>4. phase = "results" /\ Abort(TRUE) /\ UNCHANGED <<control, authorized, counts, history>>
            BY <1>3, <2>2 DEF ResultUnmatched, Results
        <3> QED
            BY <3>3, <3>4, AbortInResults
    <2> QED
        BY <2>1, <2>2
<1> QED
    BY <1>2, <1>3, SetResultKeeps, ReadResultKeeps, ResultsDoneKeeps DEF ProcessResults
\* Planning ends with an answer that sends no state-changing call.
LEMMA PlanAnswers ==
    ASSUME Inductive, Planning, NEW envelope, Send(envelope),
           envelope.kind \in {"text", "reads", "complete"},
           envelope \in [kind : {"text", "reads", "set", "complete"}, reads : SUBSET Read,
                         goals : SUBSET Goal, terminal : BOOLEAN],
           envelope.kind = "reads" => CanRead(envelope.reads),
           status' \in [Goal -> Absent \cup GoalStatus],
           UNCHANGED <<authorized, completed, frozen, pending, batch, evidence, counts, history>>
    PROVE  Inductive'
<1>1. /\ ConfirmedIsAgreed' /\ AskedInTime' /\ P' = P /\ Active' = Active
      /\ InOrder' = InOrder /\ Settled' = Settled
    BY FrozenKept
<1>2. pendingSets = {} /\ pendingReads = {} /\ phase = "plan"
    BY DEF Planning, Outstanding
<1>3. envelope.kind = "reads" => \A r \in envelope.reads : gets[r] < MaxGets
    BY DEF CanRead
<1>4. Serial'
    BY <1>1, <1>2, <1>3 DEF Inductive, Serial, OneSet, Prepared, Send
<1>5. Consent'
    BY <1>1, <1>2 DEF Inductive, Consent, Prepared, Send
<1>6. TypeOK'
    BY <1>1 DEF Inductive, TypeOK, Send
<1>7. Once'
    BY OnceKept DEF Inductive
<1> QED
    BY <1>4, <1>5, <1>6, <1>7 DEF Inductive

LEMMA PlanStepKeeps ==
    ASSUME Inductive, PlanStep
    PROVE  Inductive'
<1>1. CASE PlanWaits
    BY <1>1, OnlyControl DEF PlanWaits
<1>2. CASE PlanText
    BY <1>2, OnlyControl DEF PlanText, Choosing, Free, Planning
<1>3. ASSUME NEW R \in SUBSET Read, CanRead(R), Planning, Send(Reads(R)),
             UNCHANGED <<dag, frozen, pending, batch, evidence, counts, history>>
      PROVE  Inductive'
    <2>1. /\ Reads(R).kind = "reads" /\ Reads(R).reads = R
          /\ Reads(R) \in [kind : {"text", "reads", "set", "complete"}, reads : SUBSET Read,
                           goals : SUBSET Goal, terminal : BOOLEAN]
        BY DEF Reads, Envelope
    <2>2. status' \in [Goal -> Absent \cup GoalStatus]
        BY <1>3 DEF Inductive, TypeOK
    <2> QED
        BY <1>3, <2>1, <2>2, PlanAnswers
<1>4. CASE ReadBack
    <2>1. CASE CanRead({Readback})
        BY <1>3, <1>4, <2>1, SessionAssumption DEF ReadBack
    <2>2. CASE ~CanRead({Readback})
        BY <1>4, <2>2, OnlyControl DEF ReadBack, Planning
    <2> QED
        BY <2>1, <2>2
<1>5. ASSUME NEW R \in SUBSET Read, PlanReads(R)
      PROVE  Inductive'
    BY <1>3, <1>5 DEF PlanReads, Choosing, Free
<1>6. ASSUME NEW G \in SUBSET Goal, PlanComplete(G)
      PROVE  Inductive'
    <2> DEFINE envelope == Envelope("complete", {}, G, FALSE)
    <2>1. /\ envelope.kind = "complete"
          /\ envelope \in [kind : {"text", "reads", "set", "complete"}, reads : SUBSET Read,
                           goals : SUBSET Goal, terminal : BOOLEAN]
        BY DEF Envelope
    <2>2. /\ Planning /\ Send(envelope) /\ status' = status
          /\ UNCHANGED <<authorized, completed, frozen, pending, batch, evidence, counts, history>>
        BY <1>6 DEF PlanComplete, Report, Choosing, Free
    <2> HIDE DEF envelope
    <2> QED
        BY <2>1, <2>2, PlanAnswers DEF Inductive, TypeOK
<1>7. ASSUME NEW g \in Goal, PlanLimits(g) \/ PlanForgets(g) \/
                             \E G \in SUBSET Goal : PlanExpands(g, G)
      PROVE  Inductive'
    <2>1. Choosing => ~Active /\ Quiet /\ bundle = NoBundle
        BY DEF Choosing, Free, Planning, Outstanding, Quiet, Active
    <2>2. CASE PlanLimits(g)
        <3>1. Failed({g}) \in [Goal -> Absent \cup GoalStatus]
            BY FailedType DEF Inductive
        <3>2. \A s \in {"failed", "blocked"} :
                  [status EXCEPT ![g] = s] \in [Goal -> Absent \cup GoalStatus]
            BY DEF Inductive, TypeOK, GoalStatus
        <3>3. status' \in [Goal -> Absent \cup GoalStatus] /\ authorized' \subseteq Goal
            BY <2>2, <3>1, <3>2 DEF PlanLimits, Inductive, TypeOK
        <3> QED
            BY <2>1, <2>2, <3>3, GoalsChange DEF PlanLimits
    <2>3. CASE PlanForgets(g)
        <3>1. status' \in [Goal -> Absent \cup GoalStatus] /\ authorized' \subseteq Goal
            BY <2>3, ReplacedType DEF PlanForgets, Inductive, TypeOK
        <3> QED
            BY <2>1, <2>3, <3>1, GoalsChange DEF PlanForgets
    <2>4. CASE \E G \in SUBSET Goal : PlanExpands(g, G)
        <3>1. status' \in [Goal -> Absent \cup GoalStatus] /\ authorized' \subseteq Goal
            BY <2>4, ReplacedType DEF PlanExpands, Inductive
        <3> QED
            BY <2>1, <2>4, <3>1, GoalsChange DEF PlanExpands
    <2> QED
        BY <1>7, <2>2, <2>3, <2>4
<1>13. ASSUME NEW g \in Goal, PlanFinishes(g)
      PROVE  Inductive'
    <2> DEFINE report == Envelope("complete", {}, {g}, FALSE)
    <2>1. status' \in [Goal -> Absent \cup GoalStatus]
        BY <1>13 DEF PlanFinishes, Inductive, TypeOK, GoalStatus
    <2>2. /\ Planning /\ (Send(Text) \/ Send(report))
          /\ UNCHANGED <<authorized, completed, frozen, pending, batch, evidence, counts, history>>
        BY <1>13 DEF PlanFinishes, Choosing, Free, Say, Send, Report
    <2>3. /\ report.kind = "complete" /\ Text.kind = "text"
          /\ report \in [kind : {"text", "reads", "set", "complete"}, reads : SUBSET Read,
                         goals : SUBSET Goal, terminal : BOOLEAN]
        BY DEF Text, Envelope
    <2> HIDE DEF report
    <2>4. CASE Send(Text)
        BY <2>1, <2>2, <2>3, <2>4, PlanAnswers, TextType
    <2>5. CASE Send(report)
        BY <2>1, <2>2, <2>3, <2>5, PlanAnswers
    <2> QED
        BY <2>2, <2>4, <2>5
<1>8. CASE ReadBackFails
    BY <1>8, AbortAndSay DEF ReadBackFails, Inductive, TypeOK
<1>9. CASE ReadBackMatches
    <2>1. /\ phase = "plan" /\ pendingSets = {} /\ readback # NoReadback /\ Advance /\ readback' = NoReadback
          /\ readback.of.call \in Call
          /\ succeeded' = succeeded \cup {readback.of.call} /\ attempted' = attempted \cup {readback.of.call}
          /\ phase' = "plan"
          /\ UNCHANGED <<out, review, authorized, pending, batch, readAt, steps, userTurns, gets, history>>
        BY <1>9 DEF ReadBackMatches, Planning, Outstanding, Continue, Inductive, TypeOK, PendingSet
    <2>2. InOrder /\ Active /\ Settled /\ review = "no"
        BY <2>1 DEF Inductive, Serial, Consent, InOrder
    <2>3. /\ P' = P /\ Active' /\ bundle' \in Bundle /\ bundle'.next <= Len(P.steps)
          /\ latch' \in [Plan \X Turn -> LatchStatus]
          /\ status' \in [Goal -> Absent \cup GoalStatus]
          /\ completed' \subseteq Goal /\ version' \in Nat
          /\ ConfirmedIsAgreed' /\ AskedInTime' /\ Settled'
        BY <2>1, <2>2, AdvanceEffect
    <2>4. Serial'
        BY <2>1 DEF Serial, OneSet, Prepared
    <2>5. Consent'
        BY <2>1, <2>2, <2>3 DEF Consent, Prepared
    <2>6. TypeOK'
        BY <2>1, <2>3 DEF Inductive, TypeOK
    <2>7. Once'
        BY <2>1, OnceKept DEF Inductive
    <2> QED
        BY <2>4, <2>5, <2>6, <2>7 DEF Inductive
<1>10. CASE PlanCompleted
    <2>1. /\ phase = "plan" /\ pendingSets = {} /\ readback = NoReadback /\ review = "no" /\ NoneConfirmed
          /\ bundle' = NoBundle
          /\ UNCHANGED <<dag, latch, readback, pending, batch, evidence, counts, history>>
        BY <1>10 DEF PlanCompleted, Cleared, Free, Planning, Outstanding, Inductive, Consent,
                     ConfirmedIsAgreed, InOrder, NoneConfirmed
    <2>2. \/ phase' = "plan" /\ UNCHANGED <<out, review>>
          \/ \E G \in SUBSET Goal :
                phase' = "record" /\ review' = "no" /\ out' = Envelope("complete", {}, G, FALSE)
        <3> DEFINE done == {g \in Goal : status[g] = "done"}
        <3>1. /\ \/ Continue("plan")
                 \/ Report(done)
                 \/ Report(Goals(P))
              /\ Active
            BY <1>10 DEF PlanCompleted, P
        <3>2. done \in SUBSET Goal /\ Goals(P) \in SUBSET Goal
            BY <3>1, BundleType, PlanGoals DEF Inductive
        <3> HIDE DEF done
        <3> QED
            BY <3>1, <3>2 DEF Continue, Report, Send
    <2>3. Serial' /\ Consent'
        BY <2>1, <2>2, NothingLeft DEF Envelope, NoneConfirmed
    <2>4. out' \in [kind : {"text", "reads", "set", "complete"}, reads : SUBSET Read,
                    goals : SUBSET Goal, terminal : BOOLEAN]
        <3>1. \A G \in SUBSET Goal : Envelope("complete", {}, G, FALSE)
                  \in [kind : {"text", "reads", "set", "complete"}, reads : SUBSET Read,
                      goals : SUBSET Goal, terminal : BOOLEAN]
            BY DEF Envelope
        <3> QED
            BY <2>2, <3>1 DEF Inductive, TypeOK
    <2>5. TypeOK'
        BY <2>1, <2>2, <2>4 DEF Inductive, TypeOK, Bundle, Active
    <2>6. Once'
        BY <2>1, OnceKept DEF Inductive
    <2> QED
        BY <2>3, <2>5, <2>6 DEF Inductive
<1>11. CASE PlanNextCall
    <2>1. /\ phase = "plan" /\ phase' = "check" /\ UNCHANGED <<out, review>> /\ Quiet /\ InOrder /\ review = "no"
          /\ UNCHANGED <<dag, frozen, pending, batch, evidence, counts, history>>
        BY <1>11 DEF PlanNextCall, Free, Planning, Outstanding, Continue, Quiet, InOrder, Inductive, Consent
    <2>2. /\ ConfirmedIsAgreed' /\ AskedInTime' /\ P' = P /\ Active' = Active
          /\ InOrder' = InOrder /\ Settled' = Settled
        BY <2>1, FrozenKept
    <2>3. Serial'
        BY <2>1, <2>2 DEF Serial, Quiet, Prepared
    <2>4. Consent'
        BY <2>1, <2>2 DEF Inductive, Consent, Prepared
    <2>5. TypeOK'
        BY <2>1, <2>2 DEF Inductive, TypeOK
    <2>6. Once'
        BY <2>1, OnceKept DEF Inductive
    <2> QED
        BY <2>3, <2>4, <2>5, <2>6 DEF Inductive
<1>12. ASSUME NEW p \in Plan, NEW byModel \in BOOLEAN, Freeze(p, byModel)
       PROVE  Inductive'
    <2>1. /\ phase = "plan" /\ phase' = "check" /\ Quiet /\ ~Active /\ NoneConfirmed
          /\ bundle' = [plan |-> p, next |-> 0, conf |-> NoTurn] /\ out' = out
          /\ review' \in {"no", "first", "replanned"}
          /\ UNCHANGED <<dag, latch, readback, pending, batch, evidence, counts, history>>
        BY <1>12 DEF Freeze, Choosing, Free, Planning, Outstanding, Quiet, Inductive, TypeOK, Consent,
                     ConfirmedIsAgreed, InOrder, NoneConfirmed
    <2>2. p.steps \in Seq(Step) /\ p.steps # <<>>
        BY PlanAssumption
    <2>3. Len(p.steps) \in Nat \ {0}
        BY <2>2
    <2>4. Active' /\ InOrder' /\ P' = p /\ bundle' \in Bundle /\ Settled'
        BY <2>1, <2>3, FrozenIsActive DEF Active, InOrder, Complete, P, Bundle, Settled
    <2>5. Serial'
        BY <2>1, <2>4 DEF Serial, Quiet, Prepared
    <2>6. Consent'
        BY <2>1, <2>4 DEF Consent, ConfirmedIsAgreed, AskedInTime, NoneConfirmed, Prepared
    <2>7. TypeOK'
        BY <2>1, <2>3, <2>4 DEF Inductive, TypeOK
    <2>8. Once'
        BY <2>1, OnceKept DEF Inductive
    <2> QED
        BY <2>5, <2>6, <2>7, <2>8 DEF Inductive
<1> QED
    BY <1>1, <1>2, <1>4, <1>5, <1>6, <1>7, <1>8, <1>9, <1>10, <1>11, <1>12, <1>13 DEF PlanStep
\* An authorization that the latch gives out is what the user said this turn.
LEMMA AuthorizedIsAgreed ==
    ASSUME Inductive, Active, Authorizes(P)
    PROVE  /\ <<P, userTurns>> \in agreed /\ Settled /\ ~NoneConfirmed
<1>1. PICK t \in Turn : {c \in Confirmed : c[1] = P} = {<<P, t>>}
    BY DEF Authorizes
<1>2. <<P, t>> \in Plan \X Turn /\ Expired[<<P, t>>] = "confirmed"
    BY <1>1 DEF Confirmed, Inductive, TypeOK
<1>3. latch[<<P, t>>] = "confirmed"
    BY <1>2, LatchType DEF Inductive
<1>4. /\ t = bundle.conf /\ <<P, bundle.conf + 1>> \in agreed /\ userTurns >= bundle.conf + 1
    BY <1>2, <1>3 DEF Inductive, Consent, ConfirmedIsAgreed
<1>5. ~(userTurns > t + 1)
    BY <1>2, <1>3 DEF Expired, IsActive, Inductive, TypeOK
<1>6. userTurns = bundle.conf + 1
    BY <1>4, <1>5, SessionAssumption DEF Inductive, TypeOK, Turn
<1> QED
    BY <1>2, <1>3, <1>4, <1>6 DEF Settled, NoneConfirmed

\* The checks of a call that keep the bundle.
LEMMA CheckKeepsBundle ==
    ASSUME Inductive, Check, NEW envelope, Answer(envelope), latch' = Consulted(P),
           envelope \in [kind : {"text", "reads", "set", "complete"}, reads : SUBSET Read,
                         goals : SUBSET Goal, terminal : BOOLEAN],
           envelope.kind = "set" => Allowed,
           envelope.kind = "reads" => CanRead(envelope.reads),
           UNCHANGED <<dag, bundle, readback, pending, batch, evidence, counts, history>>
    PROVE  Inductive'
<1>1. Quiet /\ InOrder /\ Active /\ P \in Plan
    BY BundleType DEF Check, Inductive, Serial, InOrder
<1>2. latch' \in [Plan \X Turn -> LatchStatus]
    BY <1>1, ConsultedType DEF Inductive
<1>3. \A c \in Plan \X Turn : latch'[c] = "confirmed" => latch[c] = "confirmed"
    BY <1>1, ConsultedType DEF Inductive
<1>4. \A c \in Plan \X Turn : latch'[c] = "pending" => latch[c] = "pending"
    BY <1>1, ConsultedType DEF Inductive
<1>5. P' = P /\ Active' /\ InOrder' /\ Quiet'
    BY <1>1 DEF P, Active, InOrder, Complete, Quiet
<1>6. ConfirmedIsAgreed' /\ AskedInTime' /\ (NoneConfirmed => NoneConfirmed')
    <2>1. ConfirmedIsAgreed'
        BY <1>3, <1>5 DEF Inductive, Consent, ConfirmedIsAgreed
    <2>2. AskedInTime'
        BY <1>1, <1>5 DEF Inductive, Consent, AskedInTime
    <2>3. NoneConfirmed => NoneConfirmed'
        BY <1>3 DEF NoneConfirmed
    <2> QED
        BY <2>1, <2>2, <2>3
<1>7. Settled => Settled'
    <2>1. bundle.conf # NoTurn => <<P, bundle.conf>> \in Plan \X Turn
        BY <1>1, BundleType DEF Inductive
    <2>2. bundle.conf # NoTurn =>
              (latch'[<<P, bundle.conf>>] = "pending" => latch[<<P, bundle.conf>>] = "pending")
        BY <1>4, <2>1
    <2> QED
        BY <1>5, <2>2 DEF Settled
<1>8. ASSUME envelope.kind = "set"
      PROVE  Settled' /\ Consented' /\ Current(bundle).call \notin attempted
    <2>1. Allowed
        BY <1>8
    <2>2. Current(bundle).call \notin attempted
        BY <2>1 DEF Allowed, Untried
    <2>3. P.confirm => Settled /\ <<P, userTurns>> \in agreed
        BY <1>1, <2>1, AuthorizedIsAgreed DEF Allowed
    <2>4. Settled
        BY <1>1, <2>3 DEF Inductive, Consent, AskedInTime, Settled
    <2>5. Current(bundle).goal \in authorized \/ <<P, userTurns>> \in agreed
        BY <1>1, <2>1, AuthorizedIsAgreed DEF Allowed
    <2>6. Consented
        BY <2>3, <2>5 DEF Consented
    <2>7. Consented' = Consented
        BY <1>5 DEF Consented, Current
    <2> QED
        BY <1>7, <2>2, <2>4, <2>6, <2>7
<1>9. /\ out' = envelope /\ review' = review
      /\ phase' = IF review = "no" THEN "record" ELSE "review"
    BY DEF Answer
<1>10. Serial'
    <2>1. Current(bundle)' = Current(bundle)
        BY DEF Current
    <2>2. envelope.kind = "reads" => \A r \in envelope.reads : gets[r] < MaxGets
        BY DEF CanRead
    <2> QED
        BY <1>1, <1>5, <1>8, <1>9, <2>1, <2>2 DEF Serial, OneSet, Prepared, Quiet
<1>11. Consent'
    BY <1>1, <1>5, <1>6, <1>7, <1>8, <1>9 DEF Check, Inductive, Consent, Prepared, Quiet
<1>12. TypeOK'
    BY <1>1, <1>2, <1>5, <1>9 DEF Inductive, TypeOK
<1>13. Once'
    BY OnceKept DEF Inductive
<1> QED
    BY <1>10, <1>11, <1>12, <1>13 DEF Inductive

LEMMA CheckStepKeeps ==
    ASSUME Inductive, CheckStep
    PROVE  Inductive'
<1> DEFINE Outbound == [kind : {"text", "reads", "set", "complete"}, reads : SUBSET Read,
                        goals : SUBSET Goal, terminal : BOOLEAN]
<1>1. Check /\ phase = "check" /\ Quiet /\ InOrder /\ Active
    BY DEF CheckStep, CheckAllows, CheckRefuses, CheckRefusesMidway, CheckAsks, CheckReads, CheckStale,
           Check, Inductive, Serial, InOrder
<1>2. /\ P \in Plan /\ bundle = [plan |-> P, next |-> bundle.next, conf |-> bundle.conf]
      /\ P.terminal \in BOOLEAN /\ Len(P.steps) \in Nat \ {0}
    BY <1>1, BundleType DEF Inductive
<1>3. CASE CheckAllows
    <2> DEFINE envelope == Envelope("set", {}, {}, P.terminal /\ bundle.next = Len(P.steps) - 1)
    <2>1. envelope \in Outbound /\ envelope.kind = "set"
        BY DEF Envelope
    <2>2. /\ Allowed /\ latch' = Consulted(P) /\ Answer(envelope)
          /\ UNCHANGED <<dag, bundle, readback, pending, batch, evidence, counts, history>>
        BY <1>3 DEF CheckAllows
    <2> HIDE DEF envelope
    <2> QED
        BY <1>1, <2>1, <2>2, CheckKeepsBundle
<1>4. CASE CheckRefuses
    <2>1. Text \in Outbound /\ Text.kind = "text"
        BY TextType DEF Text, Envelope
    <2> QED
        BY <1>1, <1>4, <2>1, CheckKeepsBundle DEF CheckRefuses
<1>5. ASSUME NEW r \in Read, CheckReads(r)
      PROVE  Inductive'
    <2>1. Reads({r}) \in Outbound /\ Reads({r}).kind = "reads" /\ Reads({r}).reads = {r}
        BY DEF Reads, Envelope
    <2> QED
        BY <1>1, <1>5, <2>1, CheckKeepsBundle DEF CheckReads
<1>6. ASSUME NEW changed \in BOOLEAN, Abort(changed), Answer(Text),
             UNCHANGED <<authorized, batch, counts, history>>
      PROVE  Inductive'
    <2>1. /\ bundle' = NoBundle /\ pendingSets' = {} /\ readback' = NoReadback
          /\ latch' \in [Plan \X Turn -> LatchStatus] /\ NoneConfirmed'
          /\ status' \in [Goal -> Absent \cup GoalStatus] /\ version' \in Nat
          /\ UNCHANGED <<completed, pendingReads, readAt>>
        BY <1>6, AbortEffect DEF Inductive
    <2>2. /\ out' = Text /\ review' = review
          /\ phase' = IF review = "no" THEN "record" ELSE "review"
        BY <1>6 DEF Answer
    <2>3. Serial' /\ Consent'
        BY <1>1, <2>1, <2>2, NothingLeft DEF Quiet, Text, Envelope
    <2>4. TypeOK'
        BY <1>6, <2>1, <2>2, TextType DEF Inductive, TypeOK, Bundle, Active
    <2>5. Once'
        BY <1>6, OnceKept DEF Inductive
    <2> QED
        BY <2>3, <2>4, <2>5 DEF Inductive
<1>7. CASE CheckRefusesMidway
    BY <1>6, <1>7 DEF CheckRefusesMidway
<1>8. ASSUME NEW changed \in BOOLEAN, CheckStale(changed)
      PROVE  Inductive'
    BY <1>6, <1>8 DEF CheckStale
<1>9. CASE CheckAsks
    <2>1. /\ bundle.next = 0 /\ P.confirm /\ ~Authorizes(P) /\ bundle' = [bundle EXCEPT !.conf = userTurns]
          /\ latch' = Armed(Consulted(P), P, userTurns) /\ Answer(Text)
          /\ UNCHANGED <<dag, readback, pending, batch, evidence, counts, history>>
        BY <1>9 DEF CheckAsks
    <2>2. /\ bundle' = [plan |-> P, next |-> 0, conf |-> userTurns] /\ bundle' \in Bundle
          /\ P' = P /\ Active' /\ InOrder' /\ userTurns \in Turn
        BY <1>2, <2>1, FrozenIsActive DEF P, Active, InOrder, Complete, Bundle, Inductive, TypeOK
    <2>3. latch' \in [Plan \X Turn -> LatchStatus] /\ NoneConfirmed'
        <3> DEFINE l == Consulted(P)
        <3>1. l \in [Plan \X Turn -> LatchStatus] /\ \A c \in Plan \X Turn : l[c] # "confirmed"
            BY <1>2, <2>1, ConsultedType DEF Inductive
        <3>2. latch' = Armed(l, P, userTurns)
            BY <2>1
        <3> HIDE DEF l
        <3>3. latch' = [l EXCEPT ![<<P, userTurns>>] = IF IsActive(l[<<P, userTurns>>])
                                                      THEN l[<<P, userTurns>>] ELSE "pending"]
            BY <3>2 DEF Armed
        <3> QED
            BY <3>1, <3>3 DEF NoneConfirmed, LatchStatus
    <2>4. /\ out' = Text /\ review' = review
          /\ phase' = IF review = "no" THEN "record" ELSE "review"
        BY <2>1 DEF Answer
    <2>5. Serial'
        BY <1>1, <2>1, <2>2, <2>4 DEF Serial, Quiet, OneSet, Prepared, Text, Envelope
    <2>6. Consent'
        BY <1>1, <2>1, <2>2, <2>3, <2>4, SessionAssumption
        DEF Consent, ConfirmedIsAgreed, AskedInTime, NoneConfirmed, Prepared, Text, Envelope, Quiet, Turn
    <2>7. TypeOK'
        BY <1>2, <2>1, <2>2, <2>3, <2>4, TextType DEF Inductive, TypeOK
    <2>8. Once'
        BY <2>1, OnceKept DEF Inductive
    <2> QED
        BY <2>5, <2>6, <2>7, <2>8 DEF Inductive
<1> QED
    BY <1>3, <1>4, <1>5, <1>7, <1>8, <1>9 DEF CheckStep
LEMMA ReviewKeeps ==
    ASSUME Inductive, Review
    PROVE  Inductive'
<1>1. phase = "review" /\ Quiet /\ review # "no" /\ NoneConfirmed
    BY DEF Review, ReviewAccepts, ReviewVetoes, ReviewReplans, Inductive, Serial, Consent
<1>2. Once'
    BY OnceKept DEF Review, ReviewAccepts, ReviewVetoes, ReviewReplans, Inductive
<1>3. CASE ReviewAccepts
    <2>1. /\ phase' = "record" /\ out' = out /\ review' = "no"
          /\ UNCHANGED <<dag, frozen, pending, batch, evidence, counts, history>>
        BY <1>3 DEF ReviewAccepts, Send
    <2>2. /\ ConfirmedIsAgreed' /\ AskedInTime' /\ P' = P /\ Active' = Active
          /\ InOrder' = InOrder /\ Settled' = Settled
        BY <2>1, FrozenKept
    <2>3. Current(bundle)' = Current(bundle)
        BY <2>1 DEF Current
    <2>4. Consented' = Consented
        BY <2>1, <2>2, <2>3 DEF Consented
    <2>5. Serial'
        BY <1>1, <2>1, <2>2, <2>3 DEF Inductive, Serial, OneSet, Prepared, Quiet
    <2>6. Consent'
        BY <1>1, <2>1, <2>2, <2>4 DEF Inductive, Consent, Prepared
    <2>7. TypeOK'
        BY <2>1, <2>2 DEF Inductive, TypeOK
    <2> QED
        BY <1>2, <2>5, <2>6, <2>7 DEF Inductive
<1>4. CASE ReviewVetoes \/ ReviewReplans
    <2>1. /\ bundle' = NoBundle
          /\ UNCHANGED <<dag, latch, readback, pending, batch, evidence, counts, history>>
          /\ \/ phase' = "record" /\ out' = Text /\ review' = "no"
             \/ phase' = "plan" /\ out' = out /\ review' = "replanned"
        BY <1>4 DEF ReviewVetoes, ReviewReplans, Say
    <2>2. Serial' /\ Consent'
        BY <1>1, <2>1, NothingLeft DEF Quiet, NoneConfirmed, Text, Envelope
    <2>3. TypeOK'
        BY <2>1, TextType DEF Inductive, TypeOK, Bundle, Active
    <2> QED
        BY <1>2, <2>2, <2>3 DEF Inductive
<1> QED
    BY <1>3, <1>4 DEF Review

\* A bundle's call is sent once the gate allowed it, and then it is the one
\* outstanding call.
LEMMA RecordSetKeeps ==
    ASSUME Inductive, RecordSet
    PROVE  Inductive'
<1> DEFINE call == Current(bundle).call
<1>1. /\ phase = "record" /\ out.kind = "set" /\ steps < MaxSteps /\ steps' = steps + 1
      /\ phase' \in {"idle", "closed"} /\ out' = Text /\ review' = "no"
      /\ attempted' = attempted \cup {call} /\ pendingSets' = pendingSets \cup {CurrentSet}
      /\ sent' = [sent EXCEPT ![call] = @ + 1] /\ tainted' = Read
      /\ UNCHANGED <<dag, frozen, pendingReads, batch, evidence, userTurns, gets, succeeded,
                     agreed, reported>>
    BY DEF RecordSet, Record, Attempts, CurrentSet
<1>2. Quiet /\ InOrder /\ call \notin attempted /\ Settled /\ Active
    BY <1>1 DEF Inductive, Serial, Consent, Prepared, InOrder
<1>3. call \in Call /\ CurrentSet \in PendingSet
    BY <1>2, BundleType DEF Inductive, InOrder, Step, CurrentSet, PendingSet
<1>4. /\ ConfirmedIsAgreed' /\ AskedInTime' /\ P' = P /\ Active' = Active
      /\ InOrder' = InOrder /\ Settled' = Settled
    BY <1>1, FrozenKept
<1>5. CurrentSet' = CurrentSet
    BY <1>1 DEF CurrentSet, Current
<1>6. Serial'
    BY <1>1, <1>2, <1>4, <1>5 DEF Inductive, Serial, OneSet, Quiet, Prepared
<1>7. Consent'
    BY <1>1, <1>2, <1>4 DEF Consent, Prepared
<1>8. steps' \in 0..MaxSteps
    BY <1>1, SessionAssumption DEF Inductive, TypeOK
<1>9. sent[call] = 0 /\ sent' \in [Call -> Nat]
    BY <1>1, <1>2, <1>3 DEF Inductive, Once, TypeOK
<1>10. TypeOK'
    BY <1>1, <1>3, <1>4, <1>8, <1>9, TextType DEF Inductive, TypeOK
<1>11. Once'
    BY <1>1, <1>2, <1>3, <1>9 DEF Inductive, Once, TypeOK
<1> QED
    BY <1>6, <1>7, <1>10, <1>11 DEF Inductive

LEMMA AnsweringKeeps ==
    ASSUME Inductive, Answering
    PROVE  Inductive'
<1>1. CASE RecordExhausted
    <2>1. /\ bundle' = NoBundle /\ pendingSets' = {} /\ readback' = NoReadback
          /\ latch' \in [Plan \X Turn -> LatchStatus] /\ NoneConfirmed'
          /\ status' \in [Goal -> Absent \cup GoalStatus] /\ version' \in Nat
          /\ UNCHANGED <<completed, pendingReads, readAt>>
        BY <1>1, AbortEffect DEF RecordExhausted, Inductive
    <2>2. /\ phase' = "idle" /\ out' = Text /\ review' = "no"
          /\ UNCHANGED <<authorized, batch, counts, history>>
        BY <1>1 DEF RecordExhausted, Answered
    <2>3. Serial' /\ Consent'
        BY <2>1, <2>2, NothingLeft
    <2>4. TypeOK'
        BY <2>1, <2>2, TextType DEF Inductive, TypeOK, Bundle, Active
    <2>5. Once'
        BY <2>2, OnceKept DEF Inductive
    <2> QED
        BY <2>3, <2>4, <2>5 DEF Inductive
<1>2. ASSUME phase = "record", Answered, steps < MaxSteps, steps' = steps + 1,
             status' \in [Goal -> Absent \cup GoalStatus], gets' \in [Read -> 0..MaxGets],
             reported' \subseteq Goal, pendingReads' \subseteq Read,
             pendingReads' = pendingReads \/ pendingSets = {},
             UNCHANGED <<authorized, completed, frozen, pendingSets, batch, evidence, userTurns,
                         attempted, succeeded, sent, agreed, tainted>>
      PROVE  Inductive'
    <2>1. /\ ConfirmedIsAgreed' /\ AskedInTime' /\ P' = P /\ Active' = Active
          /\ InOrder' = InOrder /\ Settled' = Settled
        BY <1>2, FrozenKept
    <2>2. Serial'
        BY <1>2, <2>1 DEF Inductive, Serial, OneSet, CurrentSet, Answered, Prepared
    <2>3. Consent'
        BY <1>2, <2>1 DEF Inductive, Consent, Answered, Prepared
    <2>4. steps' \in 0..MaxSteps
        BY <1>2, SessionAssumption DEF Inductive, TypeOK
    <2>5. TypeOK'
        BY <1>2, <2>1, <2>4, TextType DEF Inductive, TypeOK, Answered
    <2>6. Once'
        BY <1>2, OnceKept DEF Inductive
    <2> QED
        BY <2>2, <2>3, <2>5, <2>6 DEF Inductive
<1>3. CASE RecordText
    BY <1>2, <1>3 DEF RecordText, Record, Inductive, TypeOK
<1>4. CASE RecordComplete
    <2>1. status' \in [Goal -> Absent \cup GoalStatus] /\ reported' \subseteq Goal
        BY <1>4 DEF RecordComplete, Inductive, TypeOK, GoalStatus
    <2> QED
        BY <1>2, <1>4, <2>1 DEF RecordComplete, Record, Inductive, TypeOK
<1>5. CASE RecordReads
    <2>1. out.reads \subseteq Read /\ pendingSets = {} /\ \A r \in out.reads : gets[r] < MaxGets
        BY <1>5 DEF RecordReads, Record, Inductive, TypeOK, Serial, Prepared
    <2>2. gets' \in [Read -> 0..MaxGets]
        BY <1>5, <2>1, SessionAssumption DEF RecordReads, Inductive, TypeOK
    <2>3. pendingReads' \subseteq Read
        BY <1>5, <2>1 DEF RecordReads, Inductive, TypeOK
    <2> QED
        BY <1>2, <1>5, <2>1, <2>2, <2>3 DEF RecordReads, Record, Inductive, TypeOK
<1> QED
    BY <1>1, <1>3, <1>4, <1>5, RecordSetKeeps DEF Answering
-----------------------------------------------------------------------------
(* Results.                                                                *)

LEMMA InductiveInit == Init => Inductive
<1> SUFFICES ASSUME Init PROVE Inductive
    OBVIOUS
<1>1. TypeOK
    BY SessionAssumption, TextType, BatchTypes
    DEF Init, TypeOK, Absent, Bundle, Active, LatchStatus, BatchType, Turn
<1>2. Serial /\ Consent
    BY DEF Init, Serial, OneSet, Quiet, Active, Prepared, Consent, ConfirmedIsAgreed, AskedInTime
<1>3. Once
    BY DEF Init, Once
<1> QED
    BY <1>1, <1>2, <1>3 DEF Inductive

LEMMA InductiveNext == Inductive /\ [Next]_vars => Inductive'
<1> SUFFICES ASSUME Inductive, [Next]_vars PROVE Inductive'
    OBVIOUS
<1>1. CASE Event
    BY <1>1, EventKeeps
<1>2. CASE Handle
    BY <1>2, RequestKeeps, ProcessResultsKeeps, PlanStepKeeps, CheckStepKeeps, ReviewKeeps, AnsweringKeeps
    DEF Handle
<1>3. CASE Fault
    BY <1>3, AbortAndSay DEF Fault, Inductive, TypeOK
<1>4. CASE UNCHANGED vars
    <2>1. /\ ConfirmedIsAgreed' /\ AskedInTime' /\ P' = P /\ Active' = Active
          /\ InOrder' = InOrder /\ Settled' = Settled
        BY <1>4, FrozenKept DEF vars
    <2>2. TypeOK'
        BY <1>4, <2>1 DEF vars, Inductive, TypeOK
    <2>3. CurrentSet' = CurrentSet /\ Current(bundle)' = Current(bundle)
        BY <1>4 DEF vars, CurrentSet, Current
    <2>4. Serial'
        BY <1>4, <2>1, <2>3 DEF vars, Inductive, Serial, OneSet, Quiet, BatchOK, Prepared
    <2>5. Consented' = Consented /\ NoneConfirmed' = NoneConfirmed
        BY <1>4, <2>1, <2>3 DEF vars, Consented, NoneConfirmed
    <2>6. Consent'
        BY <1>4, <2>1, <2>5 DEF vars, Inductive, Consent, Prepared
    <2>7. Once'
        BY <1>4, OnceKept DEF vars, Inductive
    <2> QED
        BY <2>2, <2>4, <2>6, <2>7 DEF Inductive
<1> QED
    BY <1>1, <1>2, <1>3, <1>4 DEF Next

\* In every reachable state the frozen bundle, the calls outstanding for it, the
\* answer being prepared and the confirmation latch agree with each other.
THEOREM AlwaysInductive == Spec => []Inductive
<1>1. Inductive /\ [Next]_vars => Inductive'
    BY InductiveNext
<1> QED
    BY <1>1, InductiveInit, PTL DEF Spec

\* Every variable keeps its type, for any plans and budgets: in particular no
\* bundle runs past its last call and no budget is overdrawn.
THEOREM TypeCorrect == Spec => []TypeOK
<1>1. Inductive => TypeOK
    BY DEF Inductive
<1> QED
    BY <1>1, AlwaysInductive, PTL

\* State changes are serial: between events at most one state-changing call is
\* outstanding, and it is the current call of the frozen bundle.
THEOREM SetsAreSerial == Spec => []OneOutstandingSet
<1>1. Inductive => OneOutstandingSet
    BY DEF Inductive, Serial, OneSet, InOrder, CurrentSet, OneOutstandingSet
<1> QED
    BY <1>1, AlwaysInductive, PTL

\* No state-changing call is sent twice in a session, in the life of any number
\* of bundles, requests, lost results and aborts.
THEOREM SetsAreSentOnce == Spec => []AtMostOnce
<1>1. Inductive => AtMostOnce
    BY DEF Inductive, Once, AtMostOnce
<1> QED
    BY <1>1, AlwaysInductive, PTL

\* record_outbound of a state-changing call is the only step that sends one.
LEMMA OnlyRecordSetSends == Next => sent' = sent \/ RecordSet
<1>1. Event => sent' = sent
    BY DEF Event, UserEvent, UserTurnRefused, UserAside, UserAgrees, UserRefuses, UserUnclear,
           UserConflicts, UserRequests, EmptyEvent, MalformedEvent, CloseEvent, StrayResultsEvent,
           ResultsEvent
<1>2. Request => sent' = sent
    BY DEF Request, NewGoals, RequestAuthorizes, RequestWithdraws, FollowUp, OtherRequest
<1>3. ProcessResults => sent' = sent
    BY DEF ProcessResults, SetVerified, SetNotVerified, SetToReadBack, ReadSucceeds, ReadFails,
           ResultRepeated, ResultUnmatched, ResultsDone
<1>4. PlanStep => sent' = sent
    BY DEF PlanStep, PlanWaits, ReadBack, ReadBackMatches, ReadBackFails, PlanCompleted, PlanNextCall,
           PlanText, PlanLimits, PlanFinishes, PlanExpands, PlanForgets, PlanReads, PlanComplete,
           Freeze
<1>5. CheckStep => sent' = sent
    BY DEF CheckStep, CheckAllows, CheckRefuses, CheckRefusesMidway, CheckAsks, CheckReads, CheckStale
<1>6. Review => sent' = sent
    BY DEF Review, ReviewAccepts, ReviewVetoes, ReviewReplans
<1>7. Answering => sent' = sent \/ RecordSet
    BY DEF Answering, RecordExhausted, RecordText, RecordComplete, RecordReads
<1>8. Fault => sent' = sent
    BY DEF Fault
<1> QED
    BY <1>1, <1>2, <1>3, <1>4, <1>5, <1>6, <1>7, <1>8 DEF Next, Handle

\* A call is sent only for a goal that the user's request authorized, or in a
\* bundle the user agreed to; and where policy asks for a confirmation, only
\* when the user agreed to that very bundle in the turn that is being answered.
THEOREM ConsentComesFirst == Spec => SentOnlyWithConsent
<1>1. Inductive /\ [Next]_vars =>
          [SetSent => /\ Current(bundle).goal \in authorized \/ <<P, userTurns>> \in agreed
                      /\ P.confirm => <<P, userTurns>> \in agreed]_vars
    <2> SUFFICES ASSUME Inductive, Next, SetSent
                 PROVE  Consented
        BY DEF Consented, vars
    <2>1. RecordSet
        BY OnlyRecordSetSends DEF SetSent
    <2> QED
        BY <2>1 DEF RecordSet, Record, Inductive, Consent, Prepared
<1> QED
    BY <1>1, AlwaysInductive, PTL DEF Spec, SentOnlyWithConsent

-----------------------------------------------------------------------------
(* CarActions, and what AgentSession has of it.                            *)

\* Nothing is under way that CarActions could not see.
LEMMA QuietFlight ==
    ASSUME pendingSets = {}, readback = NoReadback
    PROVE  Flight = {}
BY DEF Flight, Unsettled

\* What leaves bundle, outstanding calls and their verdicts alone is no step there.
LEMMA CarStutters ==
    ASSUME UNCHANGED <<bundle, pendingSets, readback, batch, sent, succeeded>>,
           phase' = "results" <=> phase = "results"
    PROVE  UNCHANGED Car!vars
BY DEF Car!vars, Chosen, Advances, Flight, Unsettled, Spent, Active, P

\* Giving up a bundle is giving it up there.
LEMMA CarDrops ==
    ASSUME bundle' = NoBundle, pendingSets' = {}, readback' = NoReadback,
           UNCHANGED <<sent, succeeded>>
    PROVE  Car!Drop
BY DEF Car!Drop, Chosen, Advances, Flight, Unsettled, Spent, Active

LEMMA AbortDrops ==
    ASSUME NEW changed, Abort(changed), UNCHANGED <<sent, succeeded>>
    PROVE  Car!Drop
BY CarDrops DEF Abort, SetsAfterAbort

LEMMA QuietDrops ==
    ASSUME pendingSets = {}, readback = NoReadback, bundle' = NoBundle,
           UNCHANGED <<pendingSets, readback, sent, succeeded>>
    PROVE  Car!Drop
BY CarDrops

\* A bundle whose question is asked again is the same bundle.
LEMMA AskingStutters ==
    ASSUME Inductive, Active, NEW t, bundle' = [bundle EXCEPT !.conf = t],
           UNCHANGED <<pendingSets, readback, batch, sent, succeeded>>,
           phase' = "results" <=> phase = "results"
    PROVE  UNCHANGED Car!vars
<1>1. P \in Plan /\ bundle' = [plan |-> P, next |-> bundle.next, conf |-> t]
    BY BundleType DEF Inductive
<1>2. Active'
    BY <1>1, FrozenIsActive DEF Active
<1>3. P' = P /\ bundle'.next = bundle.next
    BY <1>1 DEF P
<1> QED
    BY <1>2, <1>3 DEF Car!vars, Chosen, Advances, Flight, Unsettled, Spent
-----------------------------------------------------------------------------
(* Each stage of handling an event.                                        *)

LEMMA EventImplements ==
    ASSUME Inductive, Event
    PROVE  [Car!Next]_(Car!vars)
<1>1. CASE UserTurnRefused
    BY <1>1, AbortDrops DEF UserTurnRefused, counts, history, Car!Next
<1>2. CASE UserAside
    BY <1>2, CarStutters DEF UserAside, UserTurn, Say, frozen, pending, history
<1>3. CASE UserAgrees
    BY <1>3, CarStutters DEF UserAgrees, UserReplies, UserTurn, Continue, pending
<1>4. CASE UserRefuses
    <2>1. pendingSets = {} /\ readback = NoReadback
        BY <1>4 DEF UserRefuses, UserReplies, Outstanding, AwaitsAnswer, Inductive, Consent, Settled, P
    <2> QED
        BY <1>4, <2>1, QuietDrops DEF UserRefuses, UserReplies, UserTurn, pending, history, Car!Next
<1>5. CASE UserUnclear
    <2>1. Active /\ phase = "idle"
        BY <1>5 DEF UserUnclear, UserReplies, UserTurn, AwaitsAnswer
    <2>2. UNCHANGED Car!vars
        BY <1>5, <2>1, AskingStutters
        DEF UserUnclear, UserReplies, UserTurn, Say, pending, history
    <2> QED
        BY <2>2
<1>6. CASE UserConflicts
    BY <1>6, AbortDrops DEF UserConflicts, UserReplies, UserTurn, history, Car!Next
<1>7. CASE UserRequests
    <2>1. CASE Active
        BY <1>7, <2>1, AbortDrops DEF UserRequests, UserTurn, history, Car!Next
    <2>2. CASE ~Active
        BY <1>7, <2>2, CarStutters DEF UserRequests, UserTurn, Continue, frozen, pending, history
    <2> QED
        BY <2>1, <2>2
<1>8. CASE EmptyEvent
    BY <1>8, CarStutters DEF EmptyEvent, Say, Continue, frozen, pending, history, counts
<1>9. CASE MalformedEvent
    <2>1. CASE pendingSets # {}
        BY <1>9, <2>1, AbortDrops DEF MalformedEvent, counts, history, Car!Next
    <2>2. CASE pendingSets = {}
        BY <1>9, <2>2, CarStutters DEF MalformedEvent, Say, frozen, pending, counts, history
    <2> QED
        BY <2>1, <2>2
<1>10. CASE CloseEvent
    BY <1>10, CarStutters DEF CloseEvent, frozen, pending, counts, history
<1>11. CASE StrayResultsEvent
    BY <1>11, CarStutters DEF StrayResultsEvent, Say, frozen, pending, counts, history
<1>12. ASSUME NEW n, ResultsEvent(n) PROVE UNCHANGED Car!vars
    <2>1. phase # "results" /\ phase' = "results" /\ batch'.doneSets = {}
        BY <1>12 DEF ResultsEvent, Continue, NoBatch
    <2> QED
        BY <1>12, <2>1
        DEF ResultsEvent, frozen, pending, counts, history,
            Car!vars, Chosen, Advances, Flight, Unsettled, Spent, Active, P
<1> QED
    BY <1>1, <1>2, <1>3, <1>4, <1>5, <1>6, <1>7, <1>8, <1>9, <1>10, <1>11, <1>12
    DEF Event, UserEvent

LEMMA RequestImplements ==
    ASSUME Inductive, Request
    PROVE  [Car!Next]_(Car!vars)
<1>1. pendingSets = {} /\ readback = NoReadback
    BY DEF Inductive, Serial, Quiet, Request, NewGoals, RequestAuthorizes, RequestWithdraws,
           FollowUp, OtherRequest
<1>2. ASSUME NEW G, NEW A, NewGoals(G, A) PROVE Car!Drop
    BY <1>1, <1>2, QuietDrops DEF NewGoals, pending, counts, history
<1>3. ASSUME NEW A, RequestAuthorizes(A) PROVE Car!Drop
    BY <1>1, <1>3, QuietDrops DEF RequestAuthorizes, pending, counts, history
<1>4. ASSUME NEW g, RequestWithdraws(g) PROVE Car!Drop
    BY <1>1, <1>4, QuietDrops DEF RequestWithdraws, pending, counts, history
<1>5. CASE FollowUp
    <2>1. CASE Dangling
        BY <1>5, <2>1, AbortDrops DEF FollowUp, counts, history, Car!Next
    <2>2. CASE ~Dangling
        BY <1>1, <1>5, <2>2, QuietDrops DEF FollowUp, pending, counts, history, Car!Next
    <2> QED
        BY <2>1, <2>2
<1>6. CASE OtherRequest
    BY <1>6, CarStutters DEF OtherRequest, Say, Continue, frozen, pending, counts, history
<1> QED
    BY <1>2, <1>3, <1>4, <1>5, <1>6 DEF Request, Car!Next

\* Advancing keeps the bundle and counts one call more as verified.
LEMMA AdvanceVerifies ==
    ASSUME Inductive, InOrder, Advance, NEW c \in Call, Flight = {c}, Flight' = {},
           succeeded' = succeeded \cup {c}, UNCHANGED sent
    PROVE  Car!Verify
<1>1. P \in Plan /\ bundle' = [plan |-> P, next |-> bundle.next + 1, conf |-> bundle.conf]
    BY BundleType DEF Inductive, InOrder, Advance, Advanced
<1>2. Active' /\ Active
    BY <1>1, FrozenIsActive DEF Active, InOrder
<1>3. P' = P /\ bundle'.next = bundle.next + 1
    BY <1>1 DEF P
<1> QED
    BY <1>2, <1>3 DEF Car!Verify, Chosen, Advances, Spent

\* A result that verifies a call is about the current call of the bundle.
LEMMA SetVerifiedImplements ==
    ASSUME Inductive, NEW s, SetVerified(s)
    PROVE  Car!Next
<1>1. s \in pendingSets \ batch.doneSets
    BY DEF SetVerified, TakeSet, Results, Inductive, Serial, BatchOK
<1>2. InOrder /\ pendingSets = {s} /\ s = CurrentSet /\ readback = NoReadback /\ phase = "results"
    BY <1>1 DEF SetVerified, TakeSet, Results, Inductive, Serial, BatchOK
<1>3. s.index = bundle.next /\ Active
    BY <1>2 DEF CurrentSet, InOrder
<1>4. /\ Advance /\ TookSet(s, FALSE) /\ UNCHANGED <<readback, pendingSets, phase, sent>>
      /\ succeeded' = succeeded \cup {s.call}
    BY <1>3 DEF SetVerified, pending, control, history
<1>5. s.call \in Call /\ batch.doneSets \in SUBSET PendingSet
    BY <1>2 DEF Inductive, TypeOK, PendingSet
<1>6. batch'.doneSets = batch.doneSets \cup {s}
    BY <1>4 DEF TookSet, Next1, Inductive, TypeOK
<1>7. Flight = {s.call} /\ Flight' = {}
    BY <1>1, <1>2, <1>4, <1>6 DEF Flight, Unsettled
<1>8. Car!Verify
    BY <1>2, <1>4, <1>5, <1>7, AdvanceVerifies
<1> QED
    BY <1>8 DEF Car!Next

\* A call that is to be read back stays under way.
LEMMA SetToReadBackImplements ==
    ASSUME Inductive, NEW s, SetToReadBack(s)
    PROVE  UNCHANGED Car!vars
<1>1. s \in pendingSets \ batch.doneSets
    BY DEF SetToReadBack, TakeSet, Results, Inductive, Serial, BatchOK
<1>2. pendingSets = {s} /\ phase = "results" /\ readback = NoReadback
    BY <1>1 DEF SetToReadBack, TakeSet, Results, Inductive, Serial, BatchOK
<1>3. readback' = [of |-> s, seen |-> FALSE] /\ s # None
    BY <1>1, NoneAssumption DEF SetToReadBack, Inductive, TypeOK
<1>4. batch'.doneSets = batch.doneSets \cup {s}
    BY DEF SetToReadBack, TookSet, Next1, Inductive, TypeOK
<1>5. Flight = {s.call} /\ Flight' = {s.call}
    BY <1>1, <1>2, <1>3, <1>4 DEF Flight, Unsettled, SetToReadBack, pending, control, NoReadback
<1> QED
    BY <1>5 DEF SetToReadBack, Car!vars, Chosen, Advances, Spent, Active, P, history

LEMMA ResultsImplement ==
    ASSUME Inductive, ProcessResults
    PROVE  [Car!Next]_(Car!vars)
<1>1. ASSUME NEW s, SetNotVerified(s) PROVE Car!Drop
    BY <1>1, AbortDrops DEF SetNotVerified, counts, history
<1>2. ASSUME NEW r, ReadSucceeds(r) PROVE UNCHANGED Car!vars
    <2>1. batch'.doneSets = batch.doneSets
        BY <1>2 DEF ReadSucceeds, TookRead, Next1, Inductive, TypeOK
    <2>2. readback' = NoReadback <=> readback = NoReadback
        BY <1>2 DEF ReadSucceeds, NoReadback, Inductive, TypeOK
    <2>3. readback # NoReadback => readback'.of = readback.of
        BY <1>2 DEF ReadSucceeds, Inductive, TypeOK
    <2>4. Flight' = Flight
        BY <1>2, <2>1, <2>2, <2>3 DEF ReadSucceeds, Flight, Unsettled, pending, control
    <2> QED
        BY <1>2, <2>4
        DEF ReadSucceeds, counts, Car!vars, Chosen, Advances, Spent, Active, P
<1>3. ASSUME NEW r, NEW bad, ReadFails(r, bad) PROVE [Car!Next]_(Car!vars)
    <2>1. CASE bad /\ r = Readback /\ readback # NoReadback
        BY <1>3, <2>1, AbortDrops DEF ReadFails, counts, history, Car!Next
    <2>2. CASE ~(bad /\ r = Readback /\ readback # NoReadback)
        <3>1. batch'.doneSets = batch.doneSets
            BY <1>3 DEF ReadFails, TookRead, Next1, Inductive, TypeOK
        <3> QED
            BY <1>3, <2>2, <3>1
            DEF ReadFails, counts, history, frozen, pending, control,
                Car!vars, Chosen, Advances, Flight, Unsettled, Spent, Active, P
    <2> QED
        BY <2>1, <2>2
<1>4. CASE ResultRepeated
    <2>1. batch'.doneSets = batch.doneSets
        BY <1>4 DEF ResultRepeated, Next1, Inductive, TypeOK
    <2> QED
        BY <1>4, <2>1
        DEF ResultRepeated, counts, history, frozen, pending, control,
            Car!vars, Chosen, Advances, Flight, Unsettled, Spent, Active, P
<1>5. CASE ResultUnmatched
    <2>1. CASE batch.sets # {}
        BY <1>5, <2>1, AbortDrops DEF ResultUnmatched, counts, history, Car!Next
    <2>2. CASE batch.sets = {}
        <3>1. batch'.doneSets = batch.doneSets
            BY <1>5, <2>2 DEF ResultUnmatched, Next1, Inductive, TypeOK
        <3> QED
            BY <1>5, <2>2, <3>1
            DEF ResultUnmatched, counts, history, frozen, pending, control,
                Car!vars, Chosen, Advances, Flight, Unsettled, Spent, Active, P
    <2> QED
        BY <2>1, <2>2
<1>6. ASSUME NEW F, ResultsDone(F) PROVE UNCHANGED Car!vars
    <2>1. phase = "results" /\ phase' # "results" /\ pendingSets' = pendingSets \ batch.doneSets
        BY <1>6 DEF ResultsDone, Say, Continue
    <2> QED
        BY <1>6, <2>1
        DEF ResultsDone, counts, history, frozen,
            Car!vars, Chosen, Advances, Flight, Unsettled, Spent, Active, P
<1> QED
    BY <1>1, <1>2, <1>3, <1>4, <1>5, <1>6, SetVerifiedImplements, SetToReadBackImplements
    DEF ProcessResults, Car!Next

LEMMA PlanImplements ==
    ASSUME Inductive, PlanStep
    PROVE  [Car!Next]_(Car!vars)
<1>1. CASE PlanWaits \/ ReadBack \/ PlanNextCall \/ PlanText
    BY <1>1, CarStutters
    DEF PlanWaits, ReadBack, PlanNextCall, PlanText, Choosing, Free, Planning, Say, Send, Continue,
        frozen, pending, counts, history
<1>2. CASE ReadBackMatches
    <2>1. readback.of.call \in Call /\ pendingSets = {} /\ phase = "plan" /\ readback # NoReadback
        BY <1>2 DEF ReadBackMatches, Planning, Outstanding, Inductive, TypeOK, PendingSet
    <2>2. Flight = {readback.of.call} /\ Flight' = {}
        BY <1>2, <2>1 DEF ReadBackMatches, Continue, Flight, Unsettled, pending
    <2>3. InOrder /\ Advance /\ succeeded' = succeeded \cup {readback.of.call} /\ UNCHANGED sent
        BY <1>2, <2>1 DEF ReadBackMatches, history, Inductive, Serial
    <2>4. Car!Verify
        BY <2>1, <2>2, <2>3, AdvanceVerifies
    <2> QED
        BY <2>4 DEF Car!Next
<1>3. CASE ReadBackFails
    BY <1>3, AbortDrops DEF ReadBackFails, counts, history, Car!Next
<1>4. CASE PlanCompleted
    BY <1>4, QuietDrops
    DEF PlanCompleted, Free, Planning, Outstanding, Cleared, pending, counts, history, Car!Next
<1>5. ASSUME NEW g, PlanLimits(g) \/ PlanFinishes(g) PROVE UNCHANGED Car!vars
    BY <1>5, CarStutters
    DEF PlanLimits, PlanFinishes, Choosing, Free, Planning, Say, Report, Send, Continue,
        frozen, pending, counts, history
<1>6. ASSUME NEW g, PlanForgets(g) PROVE UNCHANGED Car!vars
    BY <1>6, CarStutters
    DEF PlanForgets, Choosing, Free, Planning, Say, pending, counts, history
<1>7. ASSUME NEW g, NEW G, PlanExpands(g, G) PROVE UNCHANGED Car!vars
    BY <1>7, CarStutters
    DEF PlanExpands, Choosing, Free, Planning, Continue, frozen, pending, counts, history
<1>8. ASSUME NEW R, PlanReads(R) \/ PlanComplete(R) PROVE UNCHANGED Car!vars
    BY <1>8, CarStutters
    DEF PlanReads, PlanComplete, Choosing, Free, Planning, Report, Send, frozen, pending, counts,
        history
<1>9. ASSUME NEW p \in Plan, NEW byModel, Freeze(p, byModel) PROVE Car!Next
    <2>1. ~Active /\ pendingSets = {} /\ readback = NoReadback /\ phase = "plan" /\ phase' = "check"
        BY <1>9 DEF Freeze, Choosing, Free, Planning, Outstanding
    <2>2. bundle' = [plan |-> p, next |-> 0, conf |-> NoTurn] /\ Active' /\ P' = p
        BY <1>9, FrozenIsActive DEF Freeze, Active, P
    <2>3. Chosen = <<>> /\ Chosen' = [i \in DOMAIN p.steps |-> p.steps[i].call] /\ Advances' = 0
        BY <2>1, <2>2 DEF Chosen, Advances
    <2>4. UNCHANGED <<Flight, Spent, succeeded>>
        BY <1>9, <2>1 DEF Freeze, Flight, Unsettled, Spent, pending, counts, history
    <2>5. Car!Choose([i \in DOMAIN p.steps |-> p.steps[i].call])
        BY <2>3, <2>4 DEF Car!Choose
    <2> QED
        BY <2>5 DEF Car!Next
<1> QED
    BY <1>1, <1>2, <1>3, <1>4, <1>5, <1>6, <1>7, <1>8, <1>9 DEF PlanStep, Car!Next

LEMMA CheckImplements ==
    ASSUME Inductive, CheckStep
    PROVE  [Car!Next]_(Car!vars)
<1>1. phase = "check" /\ Active
    BY DEF CheckStep, CheckAllows, CheckRefuses, CheckRefusesMidway, CheckAsks, CheckReads,
           CheckStale, Check, Inductive, Serial, InOrder
<1>2. CASE CheckAllows \/ CheckRefuses
    BY <1>1, <1>2, CarStutters
    DEF CheckAllows, CheckRefuses, Answer, pending, counts, history
<1>3. CASE CheckRefusesMidway
    BY <1>3, AbortDrops DEF CheckRefusesMidway, counts, history, Car!Next
<1>4. CASE CheckAsks
    BY <1>1, <1>4, AskingStutters DEF CheckAsks, Answer, pending, counts, history
<1>5. ASSUME NEW r, CheckReads(r) PROVE UNCHANGED Car!vars
    BY <1>1, <1>5, CarStutters DEF CheckReads, Answer, pending, counts, history
<1>6. ASSUME NEW changed, CheckStale(changed) PROVE Car!Next
    BY <1>6, AbortDrops DEF CheckStale, counts, history, Car!Next
<1> QED
    BY <1>2, <1>3, <1>4, <1>5, <1>6 DEF CheckStep

LEMMA ReviewImplements ==
    ASSUME Inductive, Review
    PROVE  [Car!Next]_(Car!vars)
<1>1. pendingSets = {} /\ readback = NoReadback
    BY DEF Inductive, Serial, Quiet, Review, ReviewAccepts, ReviewVetoes, ReviewReplans
<1>2. CASE ReviewAccepts
    BY <1>2, CarStutters DEF ReviewAccepts, Send, frozen, pending, counts, history
<1>3. CASE ReviewVetoes \/ ReviewReplans
    BY <1>1, <1>3, QuietDrops DEF ReviewVetoes, ReviewReplans, pending, counts, history, Car!Next
<1> QED
    BY <1>2, <1>3 DEF Review

\* record_outbound of a state-changing call sends the next call of the bundle.
LEMMA RecordSetImplements ==
    ASSUME Inductive, RecordSet
    PROVE  Car!SendNext
<1> DEFINE c == Current(bundle).call
<1>1. Quiet /\ InOrder /\ c \notin attempted /\ phase = "record"
    BY DEF RecordSet, Record, Prepared, Inductive, Serial
<1>2. P.steps \in Seq(Step) /\ bundle.next \in Nat /\ bundle.next + 1 \in DOMAIN P.steps /\ c \in Call
    BY <1>1, BundleType DEF InOrder, Complete, P, Inductive, Step
<1>3. Active /\ UNCHANGED <<bundle, succeeded, readback>>
    BY <1>1 DEF RecordSet, InOrder, frozen
<1>4. UNCHANGED <<Chosen, Advances, succeeded>>
    BY <1>3 DEF Chosen, Advances, Active, P
<1>5. Advances < Len(Chosen) /\ Chosen[Advances + 1] = c
    BY <1>2, <1>3 DEF Chosen, Advances, Current, P
<1>6. Flight = {} /\ Flight' = {c}
    <2>1. phase' # "results" /\ \A s \in pendingSets' : s.call = c
        BY <1>1 DEF RecordSet, Quiet
    <2>2. \E s \in pendingSets' : s.call = c
        BY <1>1 DEF RecordSet, Quiet
    <2> QED
        BY <1>1, <1>3, <2>1, <2>2 DEF Flight, Unsettled, Quiet
<1>7. c \notin Spent /\ Spent' = Spent \cup {c}
    <2>1. sent[c] = 0 /\ sent \in [Call -> Nat]
        BY <1>1, <1>2 DEF Inductive, Once, TypeOK
    <2>2. sent' = [sent EXCEPT ![c] = @ + 1]
        BY DEF RecordSet
    <2> QED
        BY <1>2, <2>1, <2>2 DEF Spent
<1> QED
    BY <1>4, <1>5, <1>6, <1>7 DEF Car!SendNext

LEMMA AnsweringImplements ==
    ASSUME Inductive, Answering
    PROVE  [Car!Next]_(Car!vars)
<1>1. CASE RecordExhausted
    BY <1>1, AbortDrops DEF RecordExhausted, counts, history, Car!Next
<1>2. CASE RecordText \/ RecordComplete \/ RecordReads
    BY <1>2, CarStutters
    DEF RecordText, RecordComplete, RecordReads, Record, Answered, frozen, pending, history
<1> QED
    BY <1>1, <1>2, RecordSetImplements DEF Answering, Car!Next
-----------------------------------------------------------------------------
(* Results.                                                                *)

\* For any goals, plans and budgets, and whatever the user, the evaluator and the model
\* do: the car sees one bundle after the other, each call by call and each call only after
\* the one before took effect, and no call twice.
THEOREM SessionImplementsCarActions == Spec => ImplementsCarActions
<1>1. Init => Car!Init
    BY DEF Init, Car!Init, Chosen, Advances, Flight, Unsettled, Spent, Active
<1>2. ASSUME Inductive, [Next]_vars
      PROVE  [Car!Next]_(Car!vars)
    <2>1. CASE Handle
        BY <1>2, <2>1, RequestImplements, ResultsImplement, PlanImplements, CheckImplements,
           ReviewImplements, AnsweringImplements
        DEF Handle
    <2>2. CASE Fault
        BY <2>2, AbortDrops DEF Fault, counts, history, Car!Next
    <2>3. CASE UNCHANGED vars
        BY <2>3, CarStutters DEF vars
    <2> QED
        BY <1>2, <2>1, <2>2, <2>3, EventImplements DEF Next
<1> QED
    BY <1>1, <1>2, AlwaysInductive, PTL DEF Spec, ImplementsCarActions, Car!Spec

\* In the abstract specification, whatever bundles are chosen and given up: a call is under
\* way only after all the calls before it in its bundle took effect.
THEOREM AlwaysInOrder == Car!Spec => []Car!InOrder
<1> DEFINE Inv == Advances \in Nat /\ Car!InOrder
<1>1. Car!Init => Inv
    BY DEF Car!Init, Car!InOrder
<1>2. ASSUME Inv, [Car!Next]_(Car!vars) PROVE Inv'
    <2>1. ASSUME NEW b, Car!Choose(b) PROVE Inv'
        <3>1. Flight = {}
            BY <1>2, <2>1 DEF Car!InOrder, Car!Choose
        <3> QED
            BY <1>2, <2>1, <3>1 DEF Car!InOrder, Car!Choose
    <2>2. CASE Car!SendNext
        BY <1>2, <2>2 DEF Car!InOrder, Car!SendNext
    <2>3. CASE Car!Verify
        BY <1>2, <2>3 DEF Car!InOrder, Car!Verify
    <2>4. CASE Car!Drop
        BY <1>2, <2>4 DEF Car!InOrder, Car!Drop
    <2>5. CASE UNCHANGED Car!vars
        BY <1>2, <2>5 DEF Car!InOrder, Car!vars
    <2> QED
        BY <1>2, <2>1, <2>2, <2>3, <2>4, <2>5 DEF Car!Next
<1>3. Inv => Car!InOrder
    OBVIOUS
<1> QED
    BY <1>1, <1>2, <1>3, PTL DEF Car!Spec

\* While a call is under way every call before it in its bundle took effect, and no call
\* beside it is.
THEOREM CarSeesOrder == Spec => []Car!InOrder
    BY SessionImplementsCarActions, AlwaysInOrder DEF ImplementsCarActions

-----------------------------------------------------------------------------
(* What becomes of goals.                                                  *)

\* The goals of the frozen bundle are goals of the present request, not reported yet, and
\* what they depend on is done.
DepsDone == \A g \in Goals(P) : \A d \in Deps[g] \cap Present : status[d] = "done"
BundleOK == Active =>
    /\ Goals(P) \subseteq Present /\ Goals(P) \cap reported = {} /\ DepsDone
    /\ Complete(bundle) => Goals(P) \subseteq completed

\* A call that is outstanding is for a goal of the frozen bundle.
PendingOK == \A s \in pendingSets : Active /\ s.goal \in Goals(P)

\* What is about to be reported complete is done, or was only asked for.
ReportOK == Prepared("complete") =>
    ~Active /\ out.goals \subseteq Present /\ out.goals \ ReadGoal \subseteq completed

\* The critic sees a bundle only before its first call.
FirstProposal == phase \in {"check", "review"} /\ review # "no" => bundle.next = 0

Ledger == /\ DoneMeansVerified /\ ReportedStaysDone
          /\ BundleOK /\ PendingOK /\ ReportOK /\ FirstProposal
-----------------------------------------------------------------------------
(* What failing goals does.                                                *)

LEMMA DependentsPresent == ASSUME NEW F PROVE Dependents(F) \subseteq Present
BY DEF Dependents

\* Goals that fail take their unfinished dependents along, and nothing else.
LEMMA FailedEffect ==
    ASSUME TypeOK, NEW F
    PROVE  /\ \A g \in Goal : Failed(F)[g] = "done" => status[g] = "done"
           /\ \A g \in Goal : g \notin Present => Failed(F)[g] = status[g]
           /\ \A g \in Present : Failed(F)[g] \notin Absent
           /\ \A g \in Goal \ F : status[g] = "done" => Failed(F)[g] = "done"
           /\ \A g \in F \cap Present : Failed(F)[g] = "failed"
<1>1. \A g \in Goal : status[g] \in Absent \cup GoalStatus
    BY DEF TypeOK
<1> QED
    BY <1>1, DependentsPresent DEF Failed, Present, Absent

\* Where goals fail, the present goals stay the present ones.
LEMMA FailedPresent ==
    ASSUME TypeOK, NEW F, status' = Failed(F)
    PROVE  Present' = Present
BY FailedEffect DEF Present

\* An outcome that was reported does not fail with a bundle it does not belong to.
LEMMA AffectedUnreported ==
    ASSUME Inductive, BundleOK, PendingOK
    PROVE  Affected \cap reported = {} /\ Affected \subseteq Present
BY DEF BundleOK, PendingOK, Affected, P

\* Giving up keeps the ledger.
LEMMA AbortKeepsLedger ==
    ASSUME Inductive, Ledger, NEW changed, Abort(changed), reported' = reported,
           succeeded \subseteq succeeded', ~Prepared("complete")'
    PROVE  Ledger'
<1>1. bundle' = NoBundle /\ ~Active' /\ pendingSets' = {} /\ completed' = completed
      /\ status' = Failed(Affected)
    BY DEF Abort, Active, SetsAfterAbort
<1>2. DoneMeansVerified'
    BY <1>1, FailedEffect DEF DoneMeansVerified, Ledger, Inductive
<1>3. ReportedStaysDone'
    <2>1. ASSUME NEW g \in reported PROVE status'[g] \in {"done", "dropped"}
        <3>1. g \in Goal /\ g \notin Affected /\ status[g] \in {"done", "dropped"}
            BY AffectedUnreported DEF Ledger, Inductive, TypeOK, ReportedStaysDone
        <3>2. g \notin Present => status'[g] = status[g]
            BY <1>1, <3>1, FailedEffect DEF Inductive
        <3>3. status[g] = "done" => status'[g] = "done"
            BY <1>1, <3>1, FailedEffect DEF Inductive
        <3> QED
            BY <3>1, <3>2, <3>3 DEF Present, Absent
    <2> QED
        BY <2>1 DEF ReportedStaysDone
<1>4. BundleOK' /\ PendingOK' /\ ReportOK' /\ FirstProposal'
    BY <1>1 DEF BundleOK, PendingOK, ReportOK, FirstProposal, NoBundle
<1> QED
    BY <1>2, <1>3, <1>4 DEF Ledger

\* What leaves goals, bundle and outstanding calls alone keeps the ledger, when nothing
\* new is about to be reported.
LEMMA LedgerStutters ==
    ASSUME Ledger, UNCHANGED <<status, completed, bundle, pendingSets, reported, succeeded>>,
           ReportOK', FirstProposal'
    PROVE  Ledger'
<1>1. Active' = Active /\ P' = P /\ Present' = Present
    BY DEF Active, P, Present
<1>2. DoneMeansVerified' /\ ReportedStaysDone'
    BY DEF Ledger, DoneMeansVerified, ReportedStaysDone
<1>3. BundleOK' /\ PendingOK'
    BY <1>1 DEF Ledger, BundleOK, PendingOK, DepsDone, Complete
<1> QED
    BY <1>2, <1>3 DEF Ledger

\* Nothing that is done is undone, and only a goal that evidence can finish gets done.
Steady == /\ \A g \in Goal : status[g] = "done" => status'[g] = "done"
          /\ \A g \in Goal \ ReadGoal : status'[g] = "done" => status[g] = "done"
          /\ \A g \in Goal \ Present : status'[g] = status[g]
          /\ Present' = Present

LEMMA SteadyKeepsLedger ==
    ASSUME Ledger, TypeOK, Steady, UNCHANGED <<completed, reported, succeeded>>,
           Active' = Active, P' = P, Complete(bundle)' = Complete(bundle),
           pendingSets' \subseteq pendingSets, ReportOK', FirstProposal'
    PROVE  Ledger'
<1>1. DoneMeansVerified'
    BY DEF Ledger, DoneMeansVerified, Steady
<1>2. ReportedStaysDone'
    <2>1. ASSUME NEW g \in reported PROVE status'[g] \in {"done", "dropped"}
        <3>1. g \in Goal /\ status[g] \in {"done", "dropped"}
            BY DEF Ledger, TypeOK, ReportedStaysDone
        <3> QED
            BY <3>1 DEF Steady, Present, Absent
    <2> QED
        BY <2>1 DEF ReportedStaysDone
<1>3. BundleOK'
    <2>1. \A g \in Goals(P) : Deps[g] \cap Present \subseteq Goal
        BY DEF Present
    <2> QED
        BY <2>1 DEF Ledger, BundleOK, DepsDone, Steady
<1>4. PendingOK'
    BY DEF Ledger, PendingOK
<1> QED
    BY <1>1, <1>2, <1>3, <1>4 DEF Ledger

\* Without a bundle only goals and reports matter.
LEMMA DroppedKeepsLedger ==
    ASSUME Ledger, bundle' = NoBundle, pendingSets' = {},
           UNCHANGED <<completed, reported, succeeded>>,
           \A g \in Goal \ ReadGoal : status'[g] = "done" => status[g] = "done",
           \A g \in reported : status'[g] \in {"done", "dropped"},
           ReportOK'
    PROVE  Ledger'
<1>1. ~Active' /\ bundle'.next = 0
    BY DEF Active, NoBundle
<1>2. DoneMeansVerified' /\ ReportedStaysDone'
    BY DEF Ledger, DoneMeansVerified, ReportedStaysDone
<1> QED
    BY <1>1, <1>2 DEF Ledger, BundleOK, PendingOK, FirstProposal

\* A request replaces what was reported, it does not undo it.
LEMMA ReplacedKeepsReports ==
    ASSUME Ledger, TypeOK, NEW G, Unused(G)
    PROVE  /\ \A g \in reported : Replaced(G)[g] \in {"done", "dropped"}
           /\ \A g \in Goal : Replaced(G)[g] # "done"
<1>1. \A g \in reported : g \in Goal /\ status[g] \in {"done", "dropped"}
    BY DEF Ledger, TypeOK, ReportedStaysDone
<1> QED
    BY <1>1 DEF Unused, Replaced

\* A question asked again is about the same bundle.
LEMMA AskingKeepsLedger ==
    ASSUME Inductive, Ledger, Active, NEW t, bundle' = [bundle EXCEPT !.conf = t],
           UNCHANGED <<status, completed, pendingSets, reported, succeeded>>,
           ReportOK', FirstProposal'
    PROVE  Ledger'
<1>1. P \in Plan /\ bundle' = [plan |-> P, next |-> bundle.next, conf |-> t]
    BY BundleType DEF Inductive
<1>2. Active'
    BY <1>1, FrozenIsActive DEF Active
<1>3. P' = P /\ Complete(bundle)' = Complete(bundle) /\ Present' = Present
    BY <1>1 DEF P, Complete, Present
<1>4. DoneMeansVerified' /\ ReportedStaysDone'
    BY DEF Ledger, DoneMeansVerified, ReportedStaysDone
<1>5. BundleOK' /\ PendingOK'
    BY <1>2, <1>3 DEF Ledger, BundleOK, PendingOK, DepsDone
<1> QED
    BY <1>4, <1>5 DEF Ledger
-----------------------------------------------------------------------------
(* Each stage of handling an event.                                        *)

LEMMA EventKeepsLedger ==
    ASSUME Inductive, Ledger, Event
    PROVE  Ledger'
<1> USE DEF Prepared, ReportOK, FirstProposal
<1>1. CASE UserTurnRefused
    BY <1>1, AbortKeepsLedger DEF UserTurnRefused, Say, Send, Text, Envelope, counts, history
<1>2. CASE UserAside
    BY <1>2, LedgerStutters DEF UserAside, UserTurn, Say, Text, Envelope, dag, frozen, pending, history
<1>3. CASE UserAgrees
    BY <1>3, LedgerStutters DEF UserAgrees, UserReplies, UserTurn, Continue, dag, pending
<1>4. CASE UserRefuses
    <2>1. pendingSets = {} /\ reported' = reported
        BY <1>4 DEF UserRefuses, UserReplies, Outstanding, history
    <2> QED
        BY <1>4, <2>1, DroppedKeepsLedger
        DEF UserRefuses, UserReplies, UserTurn, Say, Text, Envelope, dag, pending, history,
            Ledger, ReportedStaysDone
<1>5. CASE UserUnclear
    <2>1. Active
        BY <1>5 DEF UserUnclear, UserReplies, AwaitsAnswer
    <2> QED
        BY <1>5, <2>1, AskingKeepsLedger
        DEF UserUnclear, UserReplies, UserTurn, Say, Text, Envelope, dag, pending, history
<1>6. CASE UserConflicts
    BY <1>6, AbortKeepsLedger DEF UserConflicts, UserReplies, UserTurn, Say, Text, Envelope, history
<1>7. CASE UserRequests
    <2>1. CASE Active
        BY <1>7, <2>1, AbortKeepsLedger DEF UserRequests, UserTurn, Continue, history
    <2>2. CASE ~Active
        BY <1>7, <2>2, LedgerStutters DEF UserRequests, UserTurn, Continue, frozen, pending, history
    <2> QED
        BY <2>1, <2>2
<1>8. CASE EmptyEvent
    BY <1>8, LedgerStutters
    DEF EmptyEvent, Say, Continue, Text, Envelope, dag, frozen, pending, history, counts
<1>9. CASE MalformedEvent
    <2>1. CASE pendingSets # {}
        BY <1>9, <2>1, AbortKeepsLedger DEF MalformedEvent, Say, Text, Envelope, counts, history
    <2>2. CASE pendingSets = {}
        BY <1>9, <2>2, LedgerStutters
        DEF MalformedEvent, Say, Text, Envelope, frozen, pending, counts, history
    <2> QED
        BY <2>1, <2>2
<1>10. CASE CloseEvent
    BY <1>10, LedgerStutters DEF CloseEvent, dag, frozen, pending, counts, history
<1>11. CASE StrayResultsEvent
    BY <1>11, LedgerStutters
    DEF StrayResultsEvent, Say, Text, Envelope, dag, frozen, pending, counts, history
<1>12. ASSUME NEW n, ResultsEvent(n) PROVE Ledger'
    BY <1>12, LedgerStutters DEF ResultsEvent, Continue, dag, frozen, pending, counts, history
<1> QED
    BY <1>1, <1>2, <1>3, <1>4, <1>5, <1>6, <1>7, <1>8, <1>9, <1>10, <1>11, <1>12
    DEF Event, UserEvent

LEMMA RequestKeepsLedger ==
    ASSUME Inductive, Ledger, Request
    PROVE  Ledger'
<1> USE DEF Prepared, ReportOK, FirstProposal
<1>1. pendingSets = {} /\ phase = "request"
    BY DEF Inductive, Serial, Quiet, Request, NewGoals, RequestAuthorizes, RequestWithdraws,
           FollowUp, OtherRequest
<1>2. TypeOK
    BY DEF Inductive
<1>3. ASSUME NEW G, NEW A, NewGoals(G, A) PROVE Ledger'
    BY <1>1, <1>2, <1>3, DroppedKeepsLedger, ReplacedKeepsReports
    DEF NewGoals, Say, Continue, Text, Envelope, pending, counts, history
<1>4. ASSUME NEW A, RequestAuthorizes(A) PROVE Ledger'
    BY <1>1, <1>4, DroppedKeepsLedger
    DEF RequestAuthorizes, Continue, pending, counts, history, Ledger, ReportedStaysDone
<1>5. ASSUME NEW g, RequestWithdraws(g) PROVE Ledger'
    <2>1. g \in Unfinished /\ status' = Failed({g})
        BY <1>5 DEF RequestWithdraws
    <2>2. \A h \in reported : h \in Goal /\ h # g /\ status[h] \in {"done", "dropped"}
        BY <1>2, <2>1 DEF Ledger, ReportedStaysDone, TypeOK, Unfinished, Present, Absent
    <2>3. \A h \in reported : status'[h] \in {"done", "dropped"}
        BY <1>2, <2>1, <2>2, FailedEffect DEF Present, Absent
    <2>4. \A h \in Goal : status'[h] = "done" => status[h] = "done"
        BY <1>2, <2>1, FailedEffect
    <2> QED
        BY <1>1, <1>5, <2>3, <2>4, DroppedKeepsLedger
        DEF RequestWithdraws, Say, Text, Envelope, pending, counts, history
<1>6. CASE FollowUp
    <2>1. CASE Dangling
        <3>1. Abort(FALSE) /\ Say /\ UNCHANGED <<succeeded, reported>>
            BY <1>6, <2>1 DEF FollowUp, counts, history
        <3>2. ~Prepared("complete")'
            BY <3>1 DEF Say, Text, Envelope
        <3> QED
            BY <3>1, <3>2, AbortKeepsLedger
    <2>2. CASE ~Dangling
        <3>1. /\ \A h \in reported : status'[h] \in {"done", "dropped"}
              /\ \A h \in Goal : status'[h] = "done" => status[h] = "done"
            BY <1>2, <1>6, <2>2 DEF FollowUp, Ledger, ReportedStaysDone, TypeOK
        <3> QED
            BY <1>1, <1>6, <2>2, <3>1, DroppedKeepsLedger
            DEF FollowUp, Continue, pending, counts, history
    <2> QED
        BY <2>1, <2>2
<1>7. CASE OtherRequest
    BY <1>7, LedgerStutters
    DEF OtherRequest, Say, Continue, Text, Envelope, dag, frozen, pending, counts, history
<1> QED
    BY <1>3, <1>4, <1>5, <1>6, <1>7 DEF Request

\* Advancing keeps the ledger: the goals of a complete bundle are done, since all its calls
\* were verified.
LEMMA AdvanceKeepsLedger ==
    ASSUME Inductive, Ledger, InOrder, Advance, Car!InOrder',
           succeeded \subseteq succeeded', reported' = reported, pendingSets' \subseteq pendingSets,
           phase' \notin {"check", "review", "record"}
    PROVE  Ledger'
<1>1. /\ P \in Plan /\ bundle.next \in Nat /\ Len(P.steps) \in Nat /\ P.steps \in Seq(Step)
      /\ bundle' = [plan |-> P, next |-> bundle.next + 1, conf |-> bundle.conf]
    BY BundleType DEF Inductive, InOrder, Advance, Advanced
<1>2. Active' /\ Active /\ P' = P /\ Goals(P)' = Goals(P)
    BY <1>1, FrozenIsActive DEF Active, InOrder, P, Goals
<1>3. Complete(Advanced(bundle)) <=> Complete(bundle)'
    BY DEF Advance, Complete
<1>4. CASE ~Complete(bundle)'
    <2>1. UNCHANGED <<completed, status>> /\ Present' = Present
        BY <1>3, <1>4 DEF Advance, Present
    <2>2. DoneMeansVerified' /\ ReportedStaysDone'
        BY <2>1 DEF Ledger, DoneMeansVerified, ReportedStaysDone
    <2>3. BundleOK' /\ PendingOK'
        BY <1>2, <1>4, <2>1 DEF Ledger, BundleOK, PendingOK, DepsDone
    <2> QED
        BY <2>2, <2>3 DEF Ledger, ReportOK, Prepared, FirstProposal
<1>5. CASE Complete(bundle)'
    <2>1. /\ completed' = completed \cup Goals(P)
          /\ status' = [g \in Goal |-> IF g \in Goals(P) \cap Present THEN "done" ELSE status[g]]
        BY <1>3, <1>5 DEF Advance, P
    <2>2. Goals(P) \subseteq Present
        BY <1>2 DEF Ledger, BundleOK
    <2>3. Present' = Present
        BY <2>1 DEF Present, Absent
    <2>4. Calls(P) \subseteq succeeded'
        <3>1. \A i \in 1 .. Advances' : Chosen'[i] \in succeeded'
            BY DEF Car!InOrder
        <3>2. Advances' = bundle.next + 1 /\ Chosen' = [i \in DOMAIN P.steps |-> P.steps[i].call]
            BY <1>1, <1>2 DEF Advances, Chosen
        <3>3. DOMAIN P.steps \subseteq 1 .. (bundle.next + 1)
            BY <1>1, <1>2, <1>5 DEF Complete, P
        <3>4. \A i \in DOMAIN P.steps : P.steps[i].call \in succeeded'
            BY <3>1, <3>2, <3>3
        <3> QED
            BY <3>4 DEF Calls
    <2>5. DoneMeansVerified'
        BY <1>1, <2>1, <2>4 DEF Ledger, DoneMeansVerified
    <2>6. ReportedStaysDone'
        BY <2>1 DEF Ledger, ReportedStaysDone, Inductive, TypeOK
    <2>7. DepsDone'
        BY <1>2, <2>1, <2>3 DEF Ledger, BundleOK, DepsDone, Present
    <2>8. BundleOK'
        BY <1>2, <2>1, <2>2, <2>3, <2>7 DEF Ledger, BundleOK
    <2>9. PendingOK'
        BY <1>2 DEF Ledger, PendingOK
    <2> QED
        BY <2>5, <2>6, <2>8, <2>9 DEF Ledger, ReportOK, Prepared, FirstProposal
<1> QED
    BY <1>4, <1>5

LEMMA ResultsKeepLedger ==
    ASSUME Inductive, Ledger, ProcessResults, Car!InOrder'
    PROVE  Ledger'
<1> USE DEF Prepared, ReportOK, FirstProposal
<1>1. phase = "results"
    BY DEF ProcessResults, SetVerified, SetNotVerified, SetToReadBack, ReadSucceeds, ReadFails,
           ResultRepeated, ResultUnmatched, ResultsDone, TakeSet, TakeRead, Results
<1>2. ASSUME NEW s, SetVerified(s) PROVE Ledger'
    <2>1. s \in pendingSets \ batch.doneSets
        BY <1>2 DEF SetVerified, TakeSet, Results, Inductive, Serial, BatchOK
    <2>2. InOrder /\ s = CurrentSet
        BY <1>1, <2>1 DEF Inductive, Serial, BatchOK
    <2>3. Advance /\ UNCHANGED <<pendingSets, phase, reported>> /\ succeeded \subseteq succeeded'
        BY <1>2, <2>2 DEF SetVerified, pending, control, history, CurrentSet, InOrder
    <2> QED
        BY <1>1, <2>2, <2>3, AdvanceKeepsLedger
<1>3. ASSUME NEW s, SetNotVerified(s) PROVE Ledger'
    BY <1>1, <1>3, AbortKeepsLedger DEF SetNotVerified, control, counts, history
<1>4. ASSUME NEW s, SetToReadBack(s) PROVE Ledger'
    BY <1>1, <1>4, LedgerStutters DEF SetToReadBack, control, dag, pending, history
<1>5. ASSUME NEW r, ReadSucceeds(r) PROVE Ledger'
    BY <1>1, <1>5, LedgerStutters DEF ReadSucceeds, control, dag, pending, counts
<1>6. ASSUME NEW r, NEW bad, ReadFails(r, bad) PROVE Ledger'
    BY <1>1, <1>6, LedgerStutters, AbortKeepsLedger
    DEF ReadFails, control, frozen, pending, counts, history
<1>7. CASE ResultRepeated
    BY <1>1, <1>7, LedgerStutters DEF ResultRepeated, control, dag, frozen, pending, counts, history
<1>8. CASE ResultUnmatched
    BY <1>1, <1>8, LedgerStutters, AbortKeepsLedger
    DEF ResultUnmatched, control, frozen, pending, counts, history
<1>9. ASSUME NEW F, ResultsDone(F) PROVE Ledger'
    <2>1. status' = Failed(F) /\ \A g \in F : status[g] = "pending"
        BY <1>9 DEF ResultsDone, Limits, Ready
    <2>2. Steady
        BY <2>1, FailedEffect, FailedPresent DEF Steady, Inductive
    <2> QED
        BY <1>9, <2>2, SteadyKeepsLedger
        DEF ResultsDone, Say, Continue, Text, Envelope, frozen, counts, history, Inductive, Active, P,
            Complete
<1> QED
    BY <1>2, <1>3, <1>4, <1>5, <1>6, <1>7, <1>8, <1>9 DEF ProcessResults

LEMMA PlanKeepsLedger ==
    ASSUME Inductive, Ledger, PlanStep, Car!InOrder'
    PROVE  Ledger'
<1> USE DEF Prepared, ReportOK, FirstProposal
<1>1. phase = "plan" /\ TypeOK /\ \A g \in Ready : g \in Present /\ status[g] = "pending"
    BY DEF PlanStep, PlanWaits, ReadBack, ReadBackMatches, ReadBackFails, PlanCompleted, PlanNextCall,
           PlanText, PlanLimits, PlanFinishes, PlanExpands, PlanForgets, PlanReads, PlanComplete,
           Freeze, Choosing, Free, Planning, Inductive, Ready, Present, Absent
<1>2. CASE PlanWaits \/ ReadBack \/ PlanText
    BY <1>2, LedgerStutters
    DEF PlanWaits, ReadBack, PlanText, Reads, Say, Send, Text, Envelope, dag, frozen, pending, counts,
        history
<1>3. CASE ReadBackMatches
    <2>1. InOrder /\ Advance /\ UNCHANGED <<pendingSets, reported>> /\ phase' = "plan"
        BY <1>3 DEF ReadBackMatches, Inductive, Serial, Continue, pending, history
    <2>2. succeeded \subseteq succeeded'
        BY <1>3 DEF ReadBackMatches
    <2> QED
        BY <1>1, <2>1, <2>2, AdvanceKeepsLedger
<1>4. CASE ReadBackFails
    BY <1>4, AbortKeepsLedger DEF ReadBackFails, Say, Text, Envelope, counts, history
<1>5. CASE PlanCompleted
    <2>1. Active /\ Complete(bundle) /\ pendingSets = {} /\ P = bundle.plan
        BY <1>5 DEF PlanCompleted, Free, Planning, Outstanding, P
    <2>2. bundle' = NoBundle /\ UNCHANGED <<pendingSets, completed, status, reported, succeeded>>
        BY <1>5 DEF PlanCompleted, Cleared, dag, pending, counts, history
    <2>3. Present' = Present /\ ~Active'
        BY <2>2 DEF Present, Active
    <2>4. ReportOK'
        <3>1. CASE Continue("plan")
            BY <3>1 DEF Continue
        <3>2. CASE Report({g \in Goal : status[g] = "done"})
            BY <2>2, <2>3, <3>2
            DEF Report, Send, Envelope, Ledger, DoneMeansVerified, Present, Absent
        <3>3. CASE Report(Goals(bundle.plan))
            BY <2>1, <2>2, <2>3, <3>3 DEF Report, Send, Envelope, Ledger, BundleOK
        <3> QED
            BY <1>5, <3>1, <3>2, <3>3 DEF PlanCompleted
    <2> QED
        BY <2>1, <2>2, <2>4, DroppedKeepsLedger DEF Ledger, ReportedStaysDone
<1>6. CASE PlanNextCall
    <2>1. review' = "no"
        BY <1>1, <1>6 DEF PlanNextCall, Free, Continue, Inductive, Consent
    <2> QED
        BY <1>6, <2>1, LedgerStutters
        DEF PlanNextCall, Continue, dag, frozen, pending, counts, history
<1>7. ASSUME NEW g, PlanLimits(g) PROVE Ledger'
    <2>1. g \in Ready /\ phase' # "check" /\ (Say \/ Continue("plan"))
        BY <1>1, <1>7 DEF PlanLimits, Say, Continue
    <2>2. Steady
        <3>1. CASE status' = Failed({g})
            BY <1>1, <2>1, <3>1, FailedEffect, FailedPresent DEF Steady
        <3>2. CASE \E s \in {"failed", "blocked"} : status' = [status EXCEPT ![g] = s]
            BY <1>1, <2>1, <3>2 DEF Steady, Present, Absent, TypeOK
        <3> QED
            BY <1>7, <3>1, <3>2 DEF PlanLimits
    <2> QED
        BY <1>1, <1>7, <2>1, <2>2, SteadyKeepsLedger
        DEF PlanLimits, Say, Continue, Text, Envelope, frozen, pending, counts, history, Active, P,
            Complete
<1>8. ASSUME NEW g, PlanFinishes(g) PROVE Ledger'
    <2>1. g \in Ready /\ g \in ReadGoal /\ status' = [status EXCEPT ![g] = "done"] /\ g \in Present
        BY <1>1, <1>8 DEF PlanFinishes
    <2>2. Steady
        BY <1>1, <2>1 DEF Steady, Present, Absent, TypeOK
    <2>3. ~Active' /\ UNCHANGED <<bundle, pendingSets, completed, reported, succeeded>>
        BY <1>8 DEF PlanFinishes, Choosing, frozen, pending, counts, history, Active
    <2>4. ReportOK' /\ phase' = "record"
        BY <1>8, <2>1, <2>2, <2>3 DEF PlanFinishes, Say, Report, Send, Text, Envelope, Steady
    <2> QED
        BY <1>1, <2>2, <2>3, <2>4, SteadyKeepsLedger DEF Active, P, Complete
<1>9. ASSUME NEW g, PlanForgets(g) PROVE Ledger'
    <2>1. bundle' = NoBundle /\ pendingSets' = {} /\ status' = Replaced({}) /\ Unused({})
        BY <1>9 DEF PlanForgets, Choosing, Free, Planning, Outstanding, Active, pending, Unused
    <2> QED
        BY <1>1, <1>9, <2>1, DroppedKeepsLedger, ReplacedKeepsReports
        DEF PlanForgets, Say, Text, Envelope, counts, history
<1>10. ASSUME NEW g, NEW G, PlanExpands(g, G) PROVE Ledger'
    <2>1. bundle' = NoBundle /\ pendingSets' = {} /\ status' = Replaced(G) /\ Unused(G)
        BY <1>10 DEF PlanExpands, Choosing, Free, Planning, Outstanding, Active, pending, frozen
    <2> QED
        BY <1>1, <1>10, <2>1, DroppedKeepsLedger, ReplacedKeepsReports
        DEF PlanExpands, Continue, counts, history
<1>11. ASSUME NEW R, PlanReads(R) PROVE Ledger'
    BY <1>11, LedgerStutters
    DEF PlanReads, Reads, Send, Envelope, dag, frozen, pending, counts, history
<1>12. ASSUME NEW G, PlanComplete(G) PROVE Ledger'
    <2>1. ~Active' /\ Present' = Present
        BY <1>12 DEF PlanComplete, Choosing, Active, frozen, Present, dag
    <2> QED
        BY <1>1, <1>12, <2>1, LedgerStutters
        DEF PlanComplete, Report, Send, Envelope, dag, frozen, pending, counts, history
<1>13. ASSUME NEW p \in Plan, NEW byModel, Freeze(p, byModel) PROVE Ledger'
    <2>1. bundle' = [plan |-> p, next |-> 0, conf |-> NoTurn] /\ Active' /\ P' = p
        BY <1>13, FrozenIsActive DEF Freeze, Active, P
    <2>2. Goals(p) \subseteq Ready /\ pendingSets' = {} /\ phase' = "check"
          /\ UNCHANGED <<status, completed, reported, succeeded>>
        BY <1>13 DEF Freeze, CanFreeze, Choosing, Free, Planning, Outstanding, dag, pending, counts, history
    <2>3. ~Complete(bundle)' /\ Present' = Present
        BY <2>1, <2>2, PlanAssumption DEF Complete, Present
    <2>4. DepsDone' /\ Goals(p) \cap reported = {}
        BY <1>1, <2>1, <2>2, <2>3 DEF DepsDone, Ready, Ledger, ReportedStaysDone
    <2>5. BundleOK' /\ PendingOK'
        BY <1>1, <2>1, <2>2, <2>3, <2>4 DEF BundleOK, PendingOK
    <2>6. DoneMeansVerified' /\ ReportedStaysDone'
        BY <2>2 DEF Ledger, DoneMeansVerified, ReportedStaysDone
    <2> QED
        BY <2>1, <2>2, <2>5, <2>6 DEF Ledger
<1> QED
    BY <1>2, <1>3, <1>4, <1>5, <1>6, <1>7, <1>8, <1>9, <1>10, <1>11, <1>12, <1>13 DEF PlanStep

LEMMA CheckKeepsLedger ==
    ASSUME Inductive, Ledger, CheckStep
    PROVE  Ledger'
<1> USE DEF Prepared, ReportOK, FirstProposal
<1>1. phase = "check" /\ Active
    BY DEF CheckStep, CheckAllows, CheckRefuses, CheckRefusesMidway, CheckAsks, CheckReads,
           CheckStale, Check, Inductive, Serial, InOrder
<1>2. CASE CheckAllows \/ CheckRefuses
    BY <1>1, <1>2, LedgerStutters
    DEF CheckAllows, CheckRefuses, Answer, Text, Envelope, dag, pending, counts, history, Ledger
<1>3. CASE CheckRefusesMidway
    BY <1>3, AbortKeepsLedger DEF CheckRefusesMidway, Answer, Text, Envelope, counts, history
<1>4. CASE CheckAsks
    <2>1. bundle'.next = bundle.next
        BY <1>1, <1>4, BundleType DEF CheckAsks, Inductive
    <2> QED
        BY <1>1, <1>4, <2>1, AskingKeepsLedger
        DEF CheckAsks, Answer, Text, Envelope, dag, pending, counts, history, Ledger
<1>5. ASSUME NEW r, CheckReads(r) PROVE Ledger'
    BY <1>1, <1>5, LedgerStutters
    DEF CheckReads, Answer, Reads, Envelope, dag, pending, counts, history, Ledger
<1>6. ASSUME NEW changed, CheckStale(changed) PROVE Ledger'
    BY <1>6, AbortKeepsLedger DEF CheckStale, Answer, Text, Envelope, counts, history
<1> QED
    BY <1>2, <1>3, <1>4, <1>5, <1>6 DEF CheckStep

LEMMA ReviewKeepsLedger ==
    ASSUME Inductive, Ledger, Review
    PROVE  Ledger'
<1> USE DEF Prepared, ReportOK, FirstProposal
<1>1. pendingSets = {} /\ phase = "review"
    BY DEF Inductive, Serial, Quiet, Review, ReviewAccepts, ReviewVetoes, ReviewReplans
<1>2. CASE ReviewAccepts
    <2>1. Active' = Active /\ Present' = Present
        BY <1>2 DEF ReviewAccepts, Active, frozen, dag, Present
    <2> QED
        BY <1>1, <1>2, <2>1, LedgerStutters
        DEF ReviewAccepts, Send, dag, frozen, pending, counts, history, Ledger
<1>3. CASE ReviewVetoes \/ ReviewReplans
    BY <1>1, <1>3, DroppedKeepsLedger
    DEF ReviewVetoes, ReviewReplans, Say, Text, Envelope, dag, pending, counts, history, Ledger,
        ReportedStaysDone
<1> QED
    BY <1>2, <1>3 DEF Review

LEMMA AnsweringKeepsLedger ==
    ASSUME Inductive, Ledger, Answering
    PROVE  Ledger'
<1> USE DEF Prepared, ReportOK, FirstProposal
<1>1. CASE RecordExhausted
    BY <1>1, AbortKeepsLedger DEF RecordExhausted, Answered, counts, history
<1>2. CASE RecordText \/ RecordReads
    BY <1>2, LedgerStutters
    DEF RecordText, RecordReads, Record, Answered, dag, frozen, pending, history
<1>3. CASE RecordComplete
    <2>1. /\ ~Active /\ out.goals \subseteq Present /\ out.goals \ ReadGoal \subseteq completed
          /\ phase = "record"
        BY <1>3 DEF RecordComplete, Record, Ledger
    <2>2. pendingSets = {} /\ bundle = NoBundle
        BY <2>1 DEF Ledger, PendingOK, Active
    <2>3. /\ status' = [g \in Goal |-> IF g \in out.goals \cap Present THEN "done" ELSE status[g]]
          /\ reported' = reported \cup out.goals /\ phase' = "idle"
          /\ UNCHANGED <<bundle, pendingSets, completed, succeeded>>
        BY <1>3 DEF RecordComplete, Answered, frozen, pending
    <2>4. DoneMeansVerified'
        BY <2>1, <2>3 DEF Ledger, DoneMeansVerified
    <2>5. ReportedStaysDone'
        BY <2>1, <2>3 DEF Ledger, ReportedStaysDone, Present, Inductive, TypeOK
    <2> QED
        BY <2>2, <2>3, <2>4, <2>5 DEF Ledger, BundleOK, PendingOK, Active
<1>4. CASE RecordSet
    <2>1. InOrder /\ Quiet
        BY <1>4 DEF RecordSet, Record, Inductive, Serial, Prepared
    <2>2. UNCHANGED <<status, completed, bundle, reported, succeeded>> /\ phase' \in {"idle", "closed"}
        BY <1>4 DEF RecordSet, dag, frozen
    <2>3. Active' /\ P' = P /\ Active /\ Present' = Present
        BY <2>1, <2>2 DEF Active, P, InOrder, Present
    <2>4. Current(bundle).goal \in Goals(P)
        BY <2>1, BundleType DEF Inductive, InOrder, Complete, Current, Goals, P
    <2>5. PendingOK'
        BY <1>4, <2>1, <2>3, <2>4 DEF RecordSet, PendingOK, Quiet
    <2>6. DoneMeansVerified' /\ ReportedStaysDone'
        BY <2>2 DEF Ledger, DoneMeansVerified, ReportedStaysDone
    <2>7. BundleOK'
        BY <2>2, <2>3 DEF Ledger, BundleOK, DepsDone, Complete
    <2> QED
        BY <2>2, <2>5, <2>6, <2>7 DEF Ledger
<1> QED
    BY <1>1, <1>2, <1>3, <1>4 DEF Answering
-----------------------------------------------------------------------------
(* Results.                                                                *)

LEMMA LedgerInit == Init => Ledger
BY DEF Init, Ledger, DoneMeansVerified, ReportedStaysDone, BundleOK, PendingOK, ReportOK, Prepared,
       FirstProposal, Active

LEMMA LedgerNext == Inductive /\ Car!InOrder' /\ Ledger /\ [Next]_vars => Ledger'
<1> SUFFICES ASSUME Inductive, Car!InOrder', Ledger, [Next]_vars PROVE Ledger'
    OBVIOUS
<1>1. CASE Handle
    BY <1>1, RequestKeepsLedger, ResultsKeepLedger, PlanKeepsLedger, CheckKeepsLedger,
       ReviewKeepsLedger, AnsweringKeepsLedger
    DEF Handle
<1>2. CASE Fault
    BY <1>2, AbortKeepsLedger DEF Fault, Say, Text, Envelope, Prepared, counts, history
<1>3. CASE UNCHANGED vars
    <2>1. Active' = Active /\ Present' = Present
        BY <1>3 DEF vars, Active, Present
    <2> QED
        BY <1>3, <2>1, LedgerStutters DEF vars, Ledger, ReportOK, Prepared, FirstProposal
<1> QED
    BY <1>1, <1>2, <1>3, EventKeepsLedger DEF Next

LEMMA AlwaysLedger == Spec => []Ledger
<1>1. Inductive /\ Car!InOrder' /\ Ledger /\ [Next]_vars => Ledger'
    BY LedgerNext
<1> QED
    BY <1>1, LedgerInit, AlwaysInductive, CarSeesOrder, PTL DEF Spec

\* A goal that asks for an action counts as done only when every call of a bundle for it
\* was verified, whatever results were late, repeated or lost.
THEOREM DoneIsVerified == Spec => []DoneMeansVerified
<1>1. Ledger => DoneMeansVerified
    BY DEF Ledger
<1> QED
    BY <1>1, AlwaysLedger, PTL

\* What was reported as complete stays so until a later request replaces it.
THEOREM ReportsStand == Spec => []ReportedStaysDone
<1>1. Ledger => ReportedStaysDone
    BY DEF Ledger
<1> QED
    BY <1>1, AlwaysLedger, PTL

\* A call is sent only when every goal that the goals of its bundle depend on is done.
THEOREM GoalsInOrder == Spec => SentInGoalOrder
<1>1. Inductive /\ Ledger /\ [Next]_vars =>
          [SetSent => \A g \in Goals(P) : \A d \in Deps[g] \cap Present : status[d] = "done"]_vars
    <2> SUFFICES ASSUME Inductive, Ledger, Next, SetSent PROVE DepsDone
        BY DEF DepsDone, vars
    <2>1. RecordSet
        BY OnlyRecordSetSends DEF SetSent
    <2>2. Active
        BY <2>1 DEF RecordSet, Record, Inductive, Serial, Prepared, InOrder
    <2> QED
        BY <2>2 DEF Ledger, BundleOK
<1> QED
    BY <1>1, AlwaysInductive, AlwaysLedger, PTL DEF Spec, SentInGoalOrder

\* A bundle that is given up halfway is always given up by _abort_execution_bundle.
LEMMA HalfwayAborts ==
    ASSUME Inductive, Ledger, Next, Halfway, bundle' = NoBundle
    PROVE  \E changed \in BOOLEAN : Abort(changed)
<1>1. /\ Active /\ bundle' # bundle /\ ~Complete(bundle)
      /\ bundle.next > 0 \/ pendingSets # {} \/ readback # NoReadback
      /\ P \in Plan /\ phase # "request" /\ \A n, t : [plan |-> P, next |-> n, conf |-> t] # bundle'
      /\ bundle = [plan |-> P, next |-> bundle.next, conf |-> bundle.conf]
    BY BundleType, FrozenIsActive DEF Halfway, Active, Inductive, Serial
<1>2. phase # "review"
    BY <1>1 DEF Inductive, Serial, Quiet, Consent, Ledger, FirstProposal
<1>3. ~AwaitsAnswer
    BY <1>1 DEF AwaitsAnswer, Inductive, Consent, Settled, P
<1>4. ASSUME Event PROVE \E changed \in BOOLEAN : Abort(changed)
    BY <1>1, <1>3, <1>4
    DEF Event, UserEvent, UserTurnRefused, UserAside, UserAgrees, UserRefuses, UserUnclear, UserReplies,
        UserConflicts, UserRequests, EmptyEvent, MalformedEvent, CloseEvent, StrayResultsEvent,
        ResultsEvent, frozen
<1>5. ~Request /\ ~Review
    BY <1>1, <1>2
    DEF Request, NewGoals, RequestAuthorizes, RequestWithdraws, FollowUp, OtherRequest,
        Review, ReviewAccepts, ReviewVetoes, ReviewReplans
<1>6. ~Advance
    BY <1>1 DEF Advance, Advanced
<1>7. ASSUME ProcessResults PROVE \E changed \in BOOLEAN : Abort(changed)
    BY <1>1, <1>6, <1>7
    DEF ProcessResults, SetVerified, SetNotVerified, SetToReadBack, ReadSucceeds, ReadFails,
        ResultRepeated, ResultUnmatched, ResultsDone, frozen
<1>8. ASSUME PlanStep PROVE \E changed \in BOOLEAN : Abort(changed)
    BY <1>1, <1>6, <1>8
    DEF PlanStep, PlanWaits, ReadBack, ReadBackMatches, ReadBackFails, PlanCompleted, PlanNextCall,
        PlanText, PlanLimits, PlanFinishes, PlanExpands, PlanForgets, PlanReads, PlanComplete,
        Freeze, Choosing, frozen
<1>9. ASSUME CheckStep PROVE \E changed \in BOOLEAN : Abort(changed)
    <2>1. ~CheckAsks
        BY <1>1 DEF CheckAsks
    <2> QED
        BY <1>1, <1>9, <2>1
        DEF CheckStep, CheckAllows, CheckRefuses, CheckRefusesMidway, CheckReads, CheckStale, frozen
<1>10. ASSUME Answering PROVE \E changed \in BOOLEAN : Abort(changed)
    BY <1>1, <1>10
    DEF Answering, RecordExhausted, RecordText, RecordComplete, RecordReads, RecordSet, frozen
<1>11. ASSUME Fault PROVE \E changed \in BOOLEAN : Abort(changed)
    BY <1>11 DEF Fault
<1> QED
    BY <1>4, <1>5, <1>7, <1>8, <1>9, <1>10, <1>11 DEF Next, Handle

\* However a bundle ends that has sent a call and not completed, its goals are failed; and
\* the evidence is declared stale, unless the first call is only waiting to be read back.
THEOREM HalfwayIsHonest == Spec => NoSilentHalfway
<1>1. Inductive /\ Ledger /\ [Next]_vars =>
          [Halfway /\ bundle' # bundle /\ bundle' = NoBundle =>
              /\ \A g \in Goals(P) \cap Present : status'[g] = "failed"
              /\ version' > version \/ FirstToReadBack]_vars
    <2> SUFFICES ASSUME Inductive, Ledger, Next, Halfway, bundle' = NoBundle
                 PROVE  /\ \A g \in Goals(P) \cap Present : status'[g] = "failed"
                        /\ version' > version \/ FirstToReadBack
        BY DEF vars
    <2>1. PICK changed \in BOOLEAN : Abort(changed)
        BY HalfwayAborts
    <2>2. Goals(P) \subseteq Affected /\ version \in Nat
        BY DEF Affected, Halfway, P, Inductive, TypeOK
    <2>3. MayHaveChanged(changed) \/ FirstToReadBack
        <3>1. bundle.next \in Nat
            BY BundleType DEF Halfway, Active, Inductive
        <3> QED
            BY <3>1 DEF MayHaveChanged, FirstToReadBack, Halfway
    <2> QED
        BY <2>1, <2>2, <2>3, FailedEffect DEF Abort, Inductive
<1> QED
    BY <1>1, AlwaysInductive, AlwaysLedger, PTL DEF Spec, NoSilentHalfway
-----------------------------------------------------------------------------
(* Evidence.  When no call is read back, evidence gathered before a change *)
(* is never current after it; with readbacks that is not so.               *)

\* A call of the bundle is outstanding or was verified, and others are not.
Moving == Active /\ ~Complete(bundle) /\ (bundle.next > 0 \/ pendingSets # {})

\* Evidence older than the latest change is out of date by now, unless the bundle that made
\* the change is still in execution.
Dated == /\ \A r \in Read : readAt[r] <= version
         /\ Moving \/ \A r \in tainted : readAt[r] < version

\* While results are processed, a bundle without a verified call still waits for one.
Waiting == phase = "results" /\ Active /\ bundle.next = 0 /\ pendingSets # {} =>
               pendingSets \ batch.doneSets # {}

Timely == readback = NoReadback /\ Dated /\ Waiting

LEMMA TimelyStep ==
    ASSUME Timely, TypeOK, TypeOK', readback' = NoReadback, UNCHANGED <<readAt, tainted>>,
           version' >= version, Moving => Moving' \/ version' > version, Waiting'
    PROVE  Timely'
<1>1. version \in Nat /\ version' \in Nat /\ readAt \in [Read -> Nat \cup {-1}] /\ tainted \subseteq Read
    BY DEF TypeOK
<1>2. \A r \in Read : readAt'[r] <= version' /\ (readAt[r] < version => readAt'[r] < version')
    BY <1>1 DEF Timely, Dated
<1>3. version' > version => \A r \in Read : readAt'[r] < version'
    BY <1>1 DEF Timely, Dated
<1> QED
    BY <1>1, <1>2, <1>3 DEF Timely, Dated

\* Giving up a bundle halfway dates the evidence.
LEMMA AbortTimely ==
    ASSUME Timely, TypeOK, TypeOK', NEW changed, Abort(changed), tainted' = tainted
    PROVE  Timely'
<1>1. readback' = NoReadback /\ UNCHANGED readAt /\ ~Active' /\ version \in Nat
    BY DEF Abort, Active, TypeOK
<1>2. version' >= version /\ (Moving => version' > version)
    BY <1>1 DEF Abort, MayHaveChanged, Moving
<1>3. Waiting'
    BY <1>1 DEF Waiting
<1> QED
    BY <1>1, <1>2, <1>3, TimelyStep

\* What leaves bundle and evidence alone changes nothing about it.
LEMMA TimelyStutters ==
    ASSUME Timely, TypeOK, TypeOK', UNCHANGED <<bundle, pendingSets, readback, version, readAt, tainted>>,
           phase' = "results" => phase = "results" /\ batch'.doneSets = batch.doneSets
    PROVE  Timely'
<1>1. Active' = Active /\ Complete(bundle)' = Complete(bundle)
    BY DEF Active, Complete
<1>2. Moving' = Moving /\ Waiting'
    BY <1>1 DEF Moving, Waiting, Timely
<1>3. version' >= version
    BY DEF TypeOK
<1> QED
    BY <1>2, <1>3, TimelyStep DEF Timely

\* Without a bundle there is nothing halfway.
LEMMA TimelyUnfrozen ==
    ASSUME Timely, TypeOK, TypeOK', ~Moving, UNCHANGED <<readback, version, readAt, tainted>>,
           phase' # "results"
    PROVE  Timely'
<1>1. Waiting' /\ version' >= version
    BY DEF Waiting, TypeOK
<1> QED
    BY <1>1, TimelyStep DEF Timely

LEMMA AskingTimely ==
    ASSUME Inductive, Timely, TypeOK', Active, NEW t, bundle' = [bundle EXCEPT !.conf = t],
           UNCHANGED <<pendingSets, readback, version, readAt, tainted>>, phase' # "results"
    PROVE  Timely'
<1>1. P \in Plan /\ bundle' = [plan |-> P, next |-> bundle.next, conf |-> t]
    BY BundleType DEF Inductive
<1>2. Active' /\ Complete(bundle)' = Complete(bundle)
    BY <1>1, FrozenIsActive DEF Active, Complete, P
<1>3. Moving' = Moving /\ Waiting' /\ version' >= version
    BY <1>1, <1>2 DEF Moving, Waiting, Inductive, TypeOK
<1> QED
    BY <1>3, TimelyStep DEF Timely, Inductive

LEMMA EventTimely ==
    ASSUME Inductive, Timely, TypeOK', Event
    PROVE  Timely'
<1> USE DEF Inductive
<1>1. CASE UserTurnRefused \/ UserConflicts
    BY <1>1, AbortTimely DEF UserTurnRefused, UserConflicts, history
<1>2. CASE UserAside \/ UserAgrees
    BY <1>2, TimelyStutters
    DEF UserAside, UserAgrees, UserReplies, UserTurn, Say, Send, Continue, frozen, pending, evidence, history
<1>3. CASE UserRefuses
    <2>1. ~Moving
        BY <1>3 DEF UserRefuses, UserReplies, AwaitsAnswer, Outstanding, Moving, Consent, Settled, P
    <2> QED
        BY <1>3, <2>1, TimelyUnfrozen
        DEF UserRefuses, UserReplies, UserTurn, Say, evidence, history
<1>4. CASE UserUnclear
    BY <1>4, AskingTimely
    DEF UserUnclear, UserReplies, UserTurn, AwaitsAnswer, Say, pending, evidence, history
<1>5. CASE UserRequests
    <2>1. CASE Active
        BY <1>5, <2>1, AbortTimely DEF UserRequests, history
    <2>2. CASE ~Active
        BY <1>5, <2>2, TimelyStutters
        DEF UserRequests, UserTurn, Continue, frozen, pending, evidence, history
    <2> QED
        BY <2>1, <2>2
<1>6. CASE EmptyEvent \/ CloseEvent \/ StrayResultsEvent
    BY <1>6, TimelyStutters
    DEF EmptyEvent, CloseEvent, StrayResultsEvent, Say, Continue, frozen, pending, evidence, history
<1>7. CASE MalformedEvent
    <2>1. CASE pendingSets # {}
        BY <1>7, <2>1, AbortTimely DEF MalformedEvent, history
    <2>2. CASE pendingSets = {}
        BY <1>7, <2>2, TimelyStutters DEF MalformedEvent, Say, frozen, pending, evidence, history
    <2> QED
        BY <2>1, <2>2
<1>8. ASSUME NEW n, ResultsEvent(n) PROVE Timely'
    <2>1. batch'.doneSets = {} /\ UNCHANGED <<bundle, pendingSets, readback, version, readAt, tainted>>
        BY <1>8 DEF ResultsEvent, NoBatch, frozen, pending, evidence, history
    <2>2. Moving' = Moving /\ Waiting' /\ version' >= version
        BY <2>1 DEF Moving, Waiting, Active, Complete, TypeOK
    <2> QED
        BY <2>1, <2>2, TimelyStep DEF Timely
<1> QED
    BY <1>1, <1>2, <1>3, <1>4, <1>5, <1>6, <1>7, <1>8 DEF Event, UserEvent

LEMMA RequestTimely ==
    ASSUME Inductive, Timely, TypeOK', Request
    PROVE  Timely'
<1> USE DEF Inductive
<1>1. phase = "request" /\ ~Moving
    BY DEF Serial, Moving, Request, NewGoals, RequestAuthorizes, RequestWithdraws,
           FollowUp, OtherRequest
<1>2. ASSUME NEW G, NEW A, NewGoals(G, A) PROVE Timely'
    BY <1>1, <1>2, TimelyUnfrozen DEF NewGoals, Say, Continue, evidence, history
<1>3. ASSUME NEW A, RequestAuthorizes(A) \/ RequestWithdraws(A) PROVE Timely'
    BY <1>1, <1>3, TimelyUnfrozen
    DEF RequestAuthorizes, RequestWithdraws, Say, Continue, evidence, history
<1>4. CASE FollowUp
    <2>1. CASE Dangling
        BY <1>4, <2>1, AbortTimely DEF FollowUp, history
    <2>2. CASE ~Dangling
        BY <1>1, <1>4, <2>2, TimelyUnfrozen DEF FollowUp, Continue, evidence, history
    <2> QED
        BY <2>1, <2>2
<1>5. CASE OtherRequest
    BY <1>1, <1>5, TimelyUnfrozen DEF OtherRequest, Say, Continue, frozen, evidence, history
<1> QED
    BY <1>2, <1>3, <1>4, <1>5 DEF Request

\* An advancing bundle is halfway, or complete with all evidence out of date.
LEMMA AdvanceTimely ==
    ASSUME Inductive, Timely, TypeOK', InOrder, Advance, UNCHANGED <<readback, readAt, tainted>>
    PROVE  Timely'
<1>1. /\ P \in Plan /\ bundle.next \in Nat
      /\ bundle' = [plan |-> P, next |-> bundle.next + 1, conf |-> bundle.conf]
    BY BundleType DEF Inductive, InOrder, Advance, Advanced
<1>2. Active' /\ version \in Nat
    BY <1>1, FrozenIsActive DEF Active, Inductive, TypeOK
<1>3. Complete(Advanced(bundle)) <=> Complete(bundle)'
    BY DEF Advance, Complete
<1>4. version' >= version /\ (Moving' \/ version' > version)
    BY <1>1, <1>2, <1>3 DEF Advance, Moving
<1>5. Waiting'
    BY <1>1 DEF Waiting
<1> QED
    BY <1>4, <1>5, TimelyStep DEF Timely, Inductive

LEMMA ResultsTimely ==
    ASSUME Readable = {}, Inductive, Timely, TypeOK', ProcessResults
    PROVE  Timely'
<1> USE DEF Inductive
<1>1. ASSUME NEW s, SetVerified(s) PROVE Timely'
    <2>1. s \in pendingSets \ batch.doneSets
        BY <1>1 DEF SetVerified, TakeSet, Results, Serial, BatchOK
    <2>2. InOrder /\ s = CurrentSet
        BY <1>1, <2>1 DEF SetVerified, TakeSet, Results, Serial, BatchOK
    <2>3. Advance /\ UNCHANGED <<readback, readAt, tainted>>
        BY <1>1, <2>2 DEF SetVerified, history, CurrentSet, InOrder
    <2> QED
        BY <2>2, <2>3, AdvanceTimely
<1>2. ASSUME NEW s, SetNotVerified(s) PROVE Timely'
    BY <1>2, AbortTimely DEF SetNotVerified, history
<1>3. ASSUME NEW s PROVE ~SetToReadBack(s)
    BY DEF SetToReadBack
<1>4. ASSUME NEW r \in Read, ReadSucceeds(r) PROVE Timely'
    <2>1. /\ UNCHANGED <<bundle, pendingSets, version, phase>> /\ readback' = NoReadback
          /\ readAt' = [readAt EXCEPT ![r] = version] /\ tainted' = tainted \ {r}
        BY <1>4 DEF ReadSucceeds, pending, control, Timely
    <2>2. batch'.doneSets = batch.doneSets
        BY <1>4 DEF ReadSucceeds, TookRead, Next1, TypeOK
    <2>3. Moving' = Moving /\ Waiting'
        BY <2>1, <2>2 DEF Moving, Waiting, Timely, Active, Complete
    <2>4. Dated'
        BY <2>1, <2>3 DEF Timely, Dated, TypeOK
    <2> QED
        BY <2>1, <2>3, <2>4 DEF Timely
<1>5. ASSUME NEW r, NEW bad, ReadFails(r, bad) PROVE Timely'
    <2>1. batch'.doneSets = batch.doneSets
        BY <1>5 DEF ReadFails, TookRead, Next1, TypeOK
    <2> QED
        BY <1>5, <2>1, TimelyStutters, AbortTimely
        DEF ReadFails, control, frozen, pending, evidence, history
<1>6. CASE ResultRepeated
    <2>1. batch'.doneSets = batch.doneSets
        BY <1>6 DEF ResultRepeated, Next1, TypeOK
    <2> QED
        BY <1>6, <2>1, TimelyStutters DEF ResultRepeated, control, frozen, pending, evidence, history
<1>7. CASE ResultUnmatched
    <2>1. CASE batch.sets # {}
        BY <1>7, <2>1, AbortTimely DEF ResultUnmatched, history
    <2>2. CASE batch.sets = {}
        <3>1. batch'.doneSets = batch.doneSets
            BY <1>7, <2>2 DEF ResultUnmatched, Next1, TypeOK
        <3> QED
            BY <1>7, <2>2, <3>1, TimelyStutters
            DEF ResultUnmatched, control, frozen, pending, evidence, history
    <2> QED
        BY <2>1, <2>2
<1>8. ASSUME NEW F, ResultsDone(F) PROVE Timely'
    <2>1. /\ UNCHANGED <<bundle, readback, version, readAt, tainted>> /\ phase = "results"
          /\ phase' # "results" /\ pendingSets' = pendingSets \ batch.doneSets
        BY <1>8 DEF ResultsDone, Say, Continue, frozen, evidence, history
    <2>2. bundle.next \in Nat
        BY BundleType DEF NoBundle, Active
    <2>3. Moving => Moving'
        BY <2>1, <2>2 DEF Moving, Waiting, Timely, Active, Complete
    <2>4. Waiting' /\ version' >= version
        BY <2>1 DEF Waiting, TypeOK
    <2> QED
        BY <2>1, <2>3, <2>4, TimelyStep DEF Timely
<1>9. batch.reads \subseteq Read
    BY DEF TypeOK
<1> QED
    BY <1>1, <1>2, <1>3, <1>4, <1>5, <1>6, <1>7, <1>8, <1>9 DEF ProcessResults

LEMMA PlanTimely ==
    ASSUME Inductive, Timely, TypeOK', PlanStep
    PROVE  Timely'
<1> USE DEF Inductive
<1>1. CASE PlanWaits \/ PlanText \/ PlanNextCall
    BY <1>1, TimelyStutters
    DEF PlanWaits, PlanText, PlanNextCall, Say, Continue, frozen, pending, evidence, history
<1>2. ~ReadBack /\ ~ReadBackMatches /\ ~ReadBackFails
    BY DEF ReadBack, ReadBackMatches, ReadBackFails, Timely
<1>3. CASE PlanCompleted
    BY <1>3, TimelyUnfrozen
    DEF PlanCompleted, Free, Planning, Continue, Report, Send, Moving, evidence, history
<1>4. ASSUME NEW g, PlanLimits(g) \/ PlanFinishes(g) PROVE Timely'
    BY <1>4, TimelyUnfrozen
    DEF PlanLimits, PlanFinishes, Choosing, Free, Planning, Say, Continue, Report, Send, Moving, frozen,
        evidence, history
<1>5. ASSUME NEW g, PlanForgets(g) PROVE Timely'
    BY <1>5, TimelyUnfrozen DEF PlanForgets, Choosing, Say, Moving, evidence, history
<1>6. ASSUME NEW g, NEW G, PlanExpands(g, G) PROVE Timely'
    BY <1>6, TimelyUnfrozen
    DEF PlanExpands, Choosing, Continue, Moving, frozen, evidence, history
<1>7. ASSUME NEW R, PlanReads(R) \/ PlanComplete(R) PROVE Timely'
    BY <1>7, TimelyUnfrozen
    DEF PlanReads, PlanComplete, Choosing, Report, Send, Moving, frozen, evidence, history
<1>8. ASSUME NEW p, NEW byModel, Freeze(p, byModel) PROVE Timely'
    BY <1>8, TimelyUnfrozen DEF Freeze, Choosing, Moving, evidence, history
<1> QED
    BY <1>1, <1>2, <1>3, <1>4, <1>5, <1>6, <1>7, <1>8 DEF PlanStep

LEMMA CheckTimely ==
    ASSUME Inductive, Timely, TypeOK', CheckStep
    PROVE  Timely'
<1> USE DEF Inductive
<1>1. phase = "check" /\ Active
    BY DEF CheckStep, CheckAllows, CheckRefuses, CheckRefusesMidway, CheckAsks, CheckReads,
           CheckStale, Check, Serial, InOrder
<1>2. CASE CheckAllows \/ CheckRefuses
    BY <1>1, <1>2, TimelyStutters
    DEF CheckAllows, CheckRefuses, Answer, pending, evidence, history
<1>3. CASE CheckRefusesMidway
    BY <1>3, AbortTimely DEF CheckRefusesMidway, history
<1>4. CASE CheckAsks
    BY <1>1, <1>4, AskingTimely DEF CheckAsks, Answer, pending, evidence, history
<1>5. ASSUME NEW r, CheckReads(r) PROVE Timely'
    BY <1>1, <1>5, TimelyStutters DEF CheckReads, Answer, pending, evidence, history
<1>6. ASSUME NEW changed, CheckStale(changed) PROVE Timely'
    BY <1>6, AbortTimely DEF CheckStale, history
<1> QED
    BY <1>2, <1>3, <1>4, <1>5, <1>6 DEF CheckStep

LEMMA ReviewTimely ==
    ASSUME Inductive, Ledger, Timely, TypeOK', Review
    PROVE  Timely'
<1> USE DEF Inductive
<1>1. phase = "review" /\ ~Moving
    BY DEF Serial, Quiet, Consent, Ledger, FirstProposal, Moving,
           Review, ReviewAccepts, ReviewVetoes, ReviewReplans
<1> QED
    BY <1>1, TimelyUnfrozen
    DEF Review, ReviewAccepts, ReviewVetoes, ReviewReplans, Say, Send, frozen, evidence, history

LEMMA AnsweringTimely ==
    ASSUME Inductive, Timely, TypeOK', Answering
    PROVE  Timely'
<1> USE DEF Inductive
<1>1. CASE RecordExhausted
    BY <1>1, AbortTimely DEF RecordExhausted, history
<1>2. CASE RecordText \/ RecordReads \/ RecordComplete
    BY <1>2, TimelyStutters
    DEF RecordText, RecordReads, RecordComplete, Answered, frozen, pending, evidence, history
<1>3. CASE RecordSet
    <2>1. InOrder /\ UNCHANGED <<bundle, version, readAt, readback>> /\ pendingSets' # {}
          /\ phase' # "results"
        BY <1>3 DEF RecordSet, Record, Serial, Prepared, frozen, evidence
    <2>2. Moving' /\ Waiting'
        BY <2>1 DEF Moving, Waiting, InOrder, Active, Complete
    <2> QED
        BY <2>1, <2>2 DEF Timely, Dated
<1> QED
    BY <1>1, <1>2, <1>3 DEF Answering

\* A reading that the planners take for current was made after the latest change, when no
\* call has to be read back.  With readbacks it may be older.
THEOREM EvidenceIsFresh == Readable = {} => (Spec => []NoStaleEvidence)
<1> SUFFICES ASSUME Readable = {} PROVE Spec => []NoStaleEvidence
    OBVIOUS
<1>1. Init => Timely
    BY DEF Init, Timely, Dated, Waiting
<1>2. ASSUME Inductive, TypeOK', Ledger, Timely, [Next]_vars PROVE Timely'
    <2>1. CASE Handle
        BY <1>2, <2>1, RequestTimely, ResultsTimely, PlanTimely, CheckTimely, ReviewTimely, AnsweringTimely
        DEF Handle
    <2>2. CASE Fault
        BY <1>2, <2>2, AbortTimely DEF Fault, history, Inductive
    <2>3. CASE UNCHANGED vars
        BY <1>2, <2>3, TimelyStutters DEF vars, Inductive
    <2> QED
        BY <1>2, <2>1, <2>2, <2>3, EventTimely DEF Next
<1>3. Timely /\ TypeOK => NoStaleEvidence
    BY DEF Timely, Dated, Moving, NoStaleEvidence, TypeOK
<1> QED
    BY <1>1, <1>2, <1>3, TypeCorrect, AlwaysInductive, AlwaysLedger, PTL DEF Spec
=============================================================================
