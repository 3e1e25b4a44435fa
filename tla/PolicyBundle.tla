---------------------------- MODULE PolicyBundle ----------------------------
(***************************************************************************)
(* How the calls the rules want first join the bundle of an order, before  *)
(* it is frozen (_add_policy_prerequisites).  The rules look at each call  *)
(* of the bundle as the car is known to be before any of them; what they   *)
(* want first is put in front, and is judged itself in the next round.     *)
(***************************************************************************)
EXTENDS PolicyRules, SequencesExt

\* The request made for call i of a bundle the user has ordered.
Request(calls, i) ==
  [calls |-> calls, at |-> i, changes |-> TRUE, authorized |-> TRUE,
   described |-> FALSE, available |-> TRUE, parameters |-> TRUE]

\* _evaluate_policy, _merge_policy_decisions
Judge(calls, f, here, active) ==
  Merged({evaluate_rules(Request(calls, i), f, here, active) : i \in DOMAIN calls})

\* One round; live are the operations there is a tool for.  The order among the calls
\* that are put in front together is left open: they set different parts of the car.
Round(calls, f, here, active, live) ==
  SetToSeq({c \in Judge(calls, f, here, active)["first"] : c.op \in live} \ Range(calls)) \o calls

add_policy_prerequisites(calls, f, here, active, live) ==
  LET Next1(s) == Round(s, f, here, active, live)
  IN  Next1(Next1(Next1(calls)))

-----------------------------------------------------------------------------
(* What the calls do to the car: the tools are no part of the agent.       *)

Parts(c) ==
  CASE c.op = "sunshade_set" -> {"sunshade"}
    [] c.op = "window_set" -> IF c.window = "ALL" THEN Windows ELSE {c.window}
    [] c.op = "fan_set" -> {"fan"}
    [] c.op = "airflow_set" -> {"airflow"}
    [] c.op = "ac_set" -> {"ac"}
    [] c.op = "fog_set" -> {"fog"}
    [] c.op = "low_beam_set" -> {"low"}
    [] c.op = "high_beam_set" -> {"high"}
    [] OTHER -> {}

Value(c) ==
  CASE c.op \in {"sunshade_set", "window_set"} -> c.percentage
    [] c.op = "fan_set" -> c.level
    [] c.op = "airflow_set" -> c.direction
    [] c.op \in {"ac_set", "fog_set", "low_beam_set", "high_beam_set"} -> c.on

\* g is a car that f has become when the calls of S were carried out in some order.
Outcome(f, S, g) ==
  /\ DOMAIN g = DOMAIN f
  /\ \A x \in DOMAIN f :
       IF \E c \in S : x \in Parts(c) THEN \E c \in S : x \in Parts(c) /\ g[x] = Value(c)
       ELSE g[x] = f[x]

\* The car when the calls of a sequence have been carried out one after the other.
Carried(f, calls) ==
  FoldLeft(LAMBDA g, c : [x \in DOMAIN g |-> IF x \in Parts(c) THEN Value(c) ELSE g[x]],
           f, calls)

\* What the rules are for: how the car must be when call c is carried out.
Fit(c, f) ==
  /\ OpensRoof(c) => f.sunshade >= 100
  /\ TurnsOn(c, "ac_set") => f.fan # 0 /\ \A w \in Windows : f[w] <= 20
  /\ Defrosts(c) => f.fan >= 2 /\ f.airflow \in AtWindshield /\ f.ac
  /\ TurnsOn(c, "fog_set") => f.low /\ ~f.high
  /\ TurnsOn(c, "high_beam_set") => ~f.fog
=============================================================================
