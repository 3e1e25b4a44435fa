--------------------------- MODULE MCAgentSession ---------------------------
(* Instances of AgentSession for TLC. *)
EXTENDS AgentSession, TLC

CONSTANTS g1, g2, c1, c2, c3, r1, rb

NoDeps == (g1 :> {}) @@ (g2 :> {})
Chain == (g1 :> {}) @@ (g2 :> {g1})

ThePlan(order, reads, confirm, terminal) ==
    [steps |-> order, reads |-> reads, confirm |-> confirm, terminal |-> terminal]
For(c, g) == [call |-> c, goal |-> g]

\* Two calls for the first goal, to be confirmed; the second goal follows it.
ChainPlans == {ThePlan(<<For(c1, g1), For(c2, g1)>>, {r1}, TRUE, FALSE),
               ThePlan(<<For(c3, g2)>>, {}, FALSE, TRUE)}

\* Plans that share calls, and one that serves both goals at once.
SharedPlans == {ThePlan(<<For(c1, g1), For(c2, g1)>>, {}, TRUE, FALSE),
                ThePlan(<<For(c2, g2)>>, {}, FALSE, FALSE),
                ThePlan(<<For(c1, g1), For(c3, g2)>>, {}, FALSE, FALSE)}

\* A call that is read back, and one that needs evidence.
ReadbackPlans == {ThePlan(<<For(c1, g1)>>, {}, FALSE, FALSE),
                  ThePlan(<<For(c2, g2)>>, {r1}, FALSE, FALSE)}

-----------------------------------------------------------------------------
(* The rules that make up the bundles, on every car and order of a small   *)
(* instance.                                                               *)

Policy == INSTANCE PolicyBundle

TheRules == Policy!Rules
HereAndNow == [location |-> "here", month |-> 1, day |-> 1, hour |-> 12]
Tools == {"sunshade_set", "window_set", "fan_set", "airflow_set", "ac_set", "fog_set",
          "low_beam_set", "high_beam_set"}
CarOrders == {[op |-> "sunroof_set", percentage |-> 50], [op |-> "ac_set", on |-> TRUE],
              [op |-> "defrost_set", on |-> TRUE, window |-> "FRONT"],
              [op |-> "fog_set", on |-> TRUE], [op |-> "high_beam_set", on |-> TRUE]}
Cars == [sunshade : {0, 100}, weather : {"sunny"}, fan : 0..2, ac : BOOLEAN,
         airflow : {"FEET", "WINDSHIELD_FEET"}, low : BOOLEAN, high : BOOLEAN, fog : BOOLEAN,
         DRIVER : {20, 21}, PASSENGER : {21}, DRIVER_REAR : {0}, PASSENGER_REAR : {100}]

\* The rounds of _add_policy_prerequisites are enough: another one would add nothing, and
\* whenever a call of the bundle is carried out the car is as the rules want it for that call,
\* calls included that were put first for the sake of others.
ASSUME BundlesAreComplete ==
  \A o \in CarOrders, f \in Cars :
    LET b == Policy!add_policy_prerequisites(<<o>>, f, HereAndNow, TheRules, Tools)
    IN  /\ Policy!Round(b, f, HereAndNow, TheRules, Tools) = b
        /\ \A i \in DOMAIN b : Policy!Fit(b[i], Policy!Carried(f, SubSeq(b, 1, i - 1)))
=============================================================================
