----------------------------- MODULE CarActions -----------------------------
(***************************************************************************)
(* What a conversation promises about the changes it makes to the car,     *)
(* without goals, evidence, budgets, confirmations or the language model:  *)
(* a bundle of calls is worked through in order, one call under way at a   *)
(* time, each only after the one before it was verified, and no call is    *)
(* ever sent again.  A bundle can be given up at any time; what is under   *)
(* way then is never waited for any more.  AgentSession implements it.     *)
(***************************************************************************)
EXTENDS Integers, Sequences

CONSTANT Bundles   \* the sequences of calls that can be frozen

VARIABLES
    chosen,   \* the bundle in execution, <<>> when there is none
    next,     \* how many of its calls were verified
    flight,   \* the call that was sent and has no verdict yet
    spent,    \* the calls that were sent
    verified  \* the calls whose effect was verified

vars == <<chosen, next, flight, spent, verified>>

Init == chosen = <<>> /\ next = 0 /\ flight = {} /\ spent = {} /\ verified = {}

\* A bundle is frozen when there is none.
Choose(b) ==
    /\ chosen = <<>> /\ chosen' = b /\ next' = 0
    /\ UNCHANGED <<flight, spent, verified>>

\* The next call is sent, once and for all.
SendNext ==
    /\ flight = {} /\ next < Len(chosen) /\ chosen[next + 1] \notin spent
    /\ flight' = {chosen[next + 1]} /\ spent' = spent \cup flight'
    /\ UNCHANGED <<chosen, next, verified>>

\* The effect of the call under way is verified.
Verify ==
    /\ flight # {} /\ flight' = {}
    /\ next' = next + 1 /\ verified' = verified \cup flight
    /\ UNCHANGED <<chosen, spent>>

\* The bundle is complete or given up.
Drop ==
    /\ chosen' = <<>> /\ next' = 0 /\ flight' = {}
    /\ UNCHANGED <<spent, verified>>

Next == (\E b \in Bundles : Choose(b)) \/ SendNext \/ Verify \/ Drop

Spec == Init /\ [][Next]_vars

-----------------------------------------------------------------------------
(* What follows from the promise.                                          *)

\* A call under way is the next one of the bundle, and everything before it in the
\* bundle took effect: nothing is skipped, and nothing runs beside another.
InOrder ==
    /\ flight # {} => next < Len(chosen) /\ flight = {chosen[next + 1]}
    /\ \A i \in 1 .. next : chosen[i] \in verified
    /\ flight \cup verified \subseteq spent
=============================================================================
