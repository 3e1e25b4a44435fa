-------------------------- MODULE MCAgentExecutor --------------------------
(* Values of the constants of AgentExecutor for TLC. *)
EXTENDS AgentExecutor, TLC

CONSTANTS c1, r1, r2, r3, k1, k2

\* Two requests and one cancellation of a context, and a request and a
\* cancellation that name none.
CtxOnce == r1 :> c1 @@ r2 :> c1 @@ r3 :> None @@ k1 :> c1 @@ k2 :> None

\* Two requests and two cancellations of one context.
CtxTwice == r1 :> c1 @@ r2 :> c1 @@ k1 :> c1 @@ k2 :> c1
=============================================================================
