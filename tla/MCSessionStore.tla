--------------------------- MODULE MCSessionStore ---------------------------
(* Values of the constants of SessionStore for TLC. *)
EXTENDS SessionStore, TLC

CONSTANTS c1, c2, m1, m2, t1, t2, t3

\* Two user messages and one that asks for a cancellation.
KindUser == m1 :> "user"
KindCancel == m1 :> "user" @@ m2 :> "cancel"
ThreadSymmetry == Permutations(Thread)
=============================================================================
