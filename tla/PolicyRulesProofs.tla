------------------------- MODULE PolicyRulesProofs -------------------------
(***************************************************************************)
(* What the rules decide, whatever is known and whichever rules are        *)
(* active.                                                                 *)
(***************************************************************************)
EXTENDS PolicyBundle, TLAPS

\* No two of the rules ask for calls before the same order: what must come first is told by
\* one rule.
LEMMA WhoWantsFirst ==
  ASSUME NEW r, NEW f, NEW here, NEW id \in Rules
  PROVE  Rule(id, r, f, here)["first"] =
           CASE id = "POL-005" -> Pol005(r, f)["first"]
             [] id = "POL-010" -> Pol010(r, f)["first"]
             [] id = "POL-011" -> Pol011(r, f)["first"]
             [] id = "POL-013" -> Pol013(r, f)["first"]
             [] id = "POL-014" -> Pol014(r, f)["first"]
             [] OTHER -> {}
<1> USE DEF ++, When, Only, Nothing, Kinds, Needs, Confirm, Conflict, First
<1>1. CASE id \in {"POL-005", "POL-010", "POL-011", "POL-013", "POL-014"}
  BY <1>1 DEF Rule
<1>2. CASE id = "POL-002"
  BY <1>2 DEF Rule
<1>3. CASE id = "POL-004"
  BY <1>3 DEF Rule, Described
<1>4. CASE id = "POL-007"
  BY <1>4 DEF Rule, Pol007
<1>5. CASE id = "POL-008"
  BY <1>5 DEF Rule, Pol008
<1>6. CASE id = "POL-009"
  BY <1>6 DEF Rule, Pol009
<1>7. CASE id = "POL-012"
  BY <1>7 DEF Rule, Pol012
<1>8. CASE id = "POL-016"
  BY <1>8 DEF Rule, Pol016
<1>9. CASE id = "POL-017"
  BY <1>9 DEF Rule, Pol017, NavigationState
<1>10. CASE id = "POL-018"
  BY <1>10 DEF Rule, Pol018
<1>11. CASE id = "POL-019"
  BY <1>11 DEF Rule, Pol019, NavigationState
<1>12. CASE id = "POL-021"
  BY <1>12 DEF Rule, Pol021
<1>13. CASE id = "POL-022"
  BY <1>13 DEF Rule, Pol022
<1>14. CASE id = "POL-023"
  BY <1>14 DEF Rule, Pol023, Today
<1>15. CASE id = "POL-024"
  BY <1>15 DEF Rule, Pol024, Today
<1>16. QED BY <1>1, <1>2, <1>3, <1>4, <1>5, <1>6, <1>7, <1>8, <1>9, <1>10, <1>11, <1>12, <1>13,
              <1>14, <1>15 DEF Rules

-----------------------------------------------------------------------------
(* Reads.                                                                  *)

\* What a rule needs to know it has once its read is answered.
LEMMA NeedsMet ==
  ASSUME NEW f, NEW g, NEW X, NEW from, DOMAIN f \subseteq DOMAIN g,
         \A q \in Needs(f, X, from)["reads"] : q.facts \subseteq DOMAIN g
  PROVE  Missing(g, X) = {} /\ Needs(g, X, from)["reads"] = {}
<1>1. CASE Missing(f, X) = {}
  BY <1>1 DEF Missing, Needs, When, Nothing, Kinds
<1>2. CASE Missing(f, X) # {}
  <2>1. Needs(f, X, from)["reads"] = {[from |-> from, facts |-> Missing(f, X)]}
    BY <1>2 DEF Needs, When, Only, Nothing, Kinds
  <2>2. Missing(f, X) \subseteq DOMAIN g
    BY <2>1
  <2>3. Missing(g, X) = {}
    BY <2>2 DEF Missing
  <2>4. QED BY <2>3 DEF Needs, When, Nothing, Kinds
<1>3. QED BY <1>1, <1>2

\* Once its reads are answered a rule reads nothing more.
LEMMA ReadsAnswered ==
  ASSUME NEW r, NEW f, NEW g, NEW here, NEW id \in Rules, DOMAIN f \subseteq DOMAIN g,
         \A q \in Rule(id, r, f, here)["reads"] : q.facts \subseteq DOMAIN g
  PROVE  Rule(id, r, g, here)["reads"] = {}
<1> USE DEF ++, When, Only, Nothing, Kinds, Confirm, Conflict, First
<1>1. CASE id = "POL-005"
  <2>1. \A h : Rule(id, r, h, here)["reads"] =
                 IF OpensRoof(Order(r)) THEN Needs(h, {"sunshade"}, "roof")["reads"] ELSE {}
    BY <1>1 DEF Rule, Pol005
  <2>2. QED BY <2>1, NeedsMet
<1>2. CASE id = "POL-007"
  <2>1. \A h : Rule(id, r, h, here)["reads"] =
                 IF /\ Order(r).op = "window_set" /\ Has(Order(r), "percentage")
                    /\ Order(r).percentage > 25
                 THEN Needs(h, {"ac"}, "climate")["reads"] ELSE {}
    BY <1>2 DEF Rule, Pol007
  <2>2. QED BY <2>1, NeedsMet
<1>3. CASE id = "POL-009"
  <2>1. \A h : Rule(id, r, h, here)["reads"] =
                 IF /\ WeatherMatters(Order(r))
                    /\ Missing(here, {"location", "month", "day", "hour"}) = {}
                 THEN Needs(h, {"weather"}, "weather")["reads"] ELSE {}
    BY <1>3 DEF Rule, Pol009, Needs, Missing, Has
  <2>2. QED BY <2>1, NeedsMet
<1>4. CASE id = "POL-010"
  <2>1. \A h : Rule(id, r, h, here)["reads"] =
                 IF Defrosts(Order(r)) THEN Needs(h, {"fan", "airflow", "ac"}, "climate")["reads"] ELSE {}
    BY <1>4 DEF Rule, Pol010
  <2>2. QED BY <2>1, NeedsMet
<1>5. CASE id = "POL-011"
  <2>1. \A h : Rule(id, r, h, here)["reads"] =
                 IF TurnsOn(Order(r), "ac_set")
                 THEN Needs(h, Windows, "windows")["reads"] \cup Needs(h, {"fan"}, "climate")["reads"]
                 ELSE {}
    BY <1>5 DEF Rule, Pol011
  <2>2. QED BY <2>1, NeedsMet
<1>6. CASE id = "POL-012"
  <2>1. \A h : Rule(id, r, h, here)["reads"] =
                 IF /\ Order(r).op = "temperature_set" /\ Has(Order(r), "zone")
                    /\ Has(Order(r), "temperature") /\ Order(r).zone \in {"DRIVER", "PASSENGER"}
                 THEN Needs(h, {"tempDriver", "tempPassenger"}, "temperatures")["reads"] ELSE {}
    BY <1>6 DEF Rule, Pol012
  <2>2. QED BY <2>1, NeedsMet
<1>7. CASE id = "POL-013"
  <2>1. \A h : Rule(id, r, h, here)["reads"] =
                 IF TurnsOn(Order(r), "fog_set") THEN Needs(h, {"low", "high"}, "lights")["reads"] ELSE {}
    BY <1>7 DEF Rule, Pol013
  <2>2. QED BY <2>1, NeedsMet
<1>8. CASE id = "POL-014"
  <2>1. \A h : Rule(id, r, h, here)["reads"] =
                 IF TurnsOn(Order(r), "high_beam_set") THEN Needs(h, {"fog"}, "lights")["reads"] ELSE {}
    BY <1>8 DEF Rule, Pol014
  <2>2. QED BY <2>1, NeedsMet
<1>9. CASE id = "POL-017"
  <2>1. \A h : Rule(id, r, h, here)["reads"] =
                 IF Order(r).op \in Edits THEN Needs(h, {"active", "waypoints"}, "navigation")["reads"] ELSE {}
    BY <1>9 DEF Rule, Pol017, NavigationState
  <2>2. QED BY <2>1, NeedsMet
<1>10. CASE id = "POL-018"
  <2>1. \A h : Rule(id, r, h, here)["reads"] =
                 IF Order(r).op \in Edits \cup {"navigation_set"} THEN Needs(h, {"active"}, "navigation")["reads"] ELSE {}
    BY <1>10 DEF Rule, Pol018
  <2>2. QED BY <2>1, NeedsMet
<1>11. CASE id = "POL-019"
  <2>1. \A h : Rule(id, r, h, here)["reads"] =
                 IF Order(r).op = "navigation_delete_destination" THEN Needs(h, {"active", "waypoints"}, "navigation")["reads"] ELSE {}
    BY <1>11 DEF Rule, Pol019, NavigationState
  <2>2. QED BY <2>1, NeedsMet
<1>12. CASE id = "POL-002"
  BY <1>12 DEF Rule
<1>13. CASE id = "POL-004"
  BY <1>13 DEF Rule, Described
<1>14. CASE id = "POL-008"
  BY <1>14 DEF Rule, Pol008
<1>15. CASE id = "POL-016"
  BY <1>15 DEF Rule, Pol016
<1>16. CASE id = "POL-021"
  BY <1>16 DEF Rule, Pol021
<1>17. CASE id = "POL-022"
  BY <1>17 DEF Rule, Pol022
<1>18. CASE id = "POL-023"
  BY <1>18 DEF Rule, Pol023, Today
<1>19. CASE id = "POL-024"
  BY <1>19 DEF Rule, Pol024, Today
<1>20. QED BY <1>1, <1>2, <1>3, <1>4, <1>5, <1>6, <1>7, <1>8, <1>9, <1>10, <1>11, <1>12, <1>13,
              <1>14, <1>15, <1>16, <1>17, <1>18, <1>19 DEF Rules

LEMMA Evaluated ==
  ASSUME NEW r, NEW f, NEW here, NEW active \in SUBSET Rules, NEW k \in {"reads", "first"}
  PROVE  evaluate_rules(r, f, here, active)[k] = UNION {Rule(id, r, f, here)[k] : id \in active}
<1>1. General(r, f)[k] = {}
  BY DEF General, Described, ++, When, Only, Nothing, Kinds, Conflict
<1>2. evaluate_rules(r, f, here, active)[k] =
        General(r, f)[k] \cup UNION {Rule(id, r, f, here)[k] : id \in active}
  BY DEF evaluate_rules, Merged, Kinds
<1>3. QED BY <1>1, <1>2

\* One round of reads is enough: whatever is known, once all that the rules wanted to know is
\* known as well, they want to know nothing more.  The agent cannot be sent reading for ever.
THEOREM OneRoundOfReads ==
  ASSUME NEW r, NEW f, NEW g, NEW here, NEW active \in SUBSET Rules,
         DOMAIN f \subseteq DOMAIN g,
         \A q \in evaluate_rules(r, f, here, active)["reads"] : q.facts \subseteq DOMAIN g
  PROVE  evaluate_rules(r, g, here, active)["reads"] = {}
<1>1. \A id \in active : Rule(id, r, g, here)["reads"] = {}
  <2>1. TAKE id \in active
  <2>2. Rule(id, r, f, here)["reads"] \subseteq evaluate_rules(r, f, here, active)["reads"]
    BY Evaluated
  <2>3. QED BY <2>2, ReadsAnswered
<1>2. QED BY <1>1, Evaluated

-----------------------------------------------------------------------------
(* The calls that come first.                                              *)

\* A car all of whose parts are known.
IsCar(f) ==
  /\ {"sunshade", "ac", "fan", "airflow", "low", "high", "fog"} \cup Windows \subseteq DOMAIN f
  /\ f.sunshade \in Int /\ f.fan \in Int /\ \A w \in Windows : f[w] \in Int
  /\ f.ac \in BOOLEAN /\ f.low \in BOOLEAN /\ f.high \in BOOLEAN /\ f.fog \in BOOLEAN

\* An order by itself: nothing else in its bundle closes a window or turns the fan on.
Alone(r) == ~BundleTurnsFanOn(r) /\ \A w \in Windows : Closing(r, w) = {}

\* What rule id wants first of a known car for an order by itself.
LEMMA FirstOf005 ==
  ASSUME NEW r, NEW f, IsCar(f)
  PROVE  Pol005(r, f)["first"] =
           IF OpensRoof(Order(r)) /\ f.sunshade < 100
           THEN {[op |-> "sunshade_set", percentage |-> 100]} ELSE {}
BY DEF Pol005, IsCar, Has, Missing, Needs, ++, When, Only, Nothing, Kinds, First

LEMMA FirstOf010 ==
  ASSUME NEW r, NEW f, IsCar(f)
  PROVE  Pol010(r, f)["first"] =
           IF Defrosts(Order(r))
           THEN (IF f.fan < 2 THEN {[op |-> "fan_set", level |-> 2]} ELSE {})
                \cup (IF f.airflow \notin AtWindshield
                      THEN {[op |-> "airflow_set", direction |-> "WINDSHIELD"]} ELSE {})
                \cup (IF ~f.ac THEN {[op |-> "ac_set", on |-> TRUE]} ELSE {})
           ELSE {}
BY DEF Pol010, IsCar, Missing, Needs, ++, When, Only, Nothing, Kinds, First

LEMMA FirstOf011 ==
  ASSUME NEW r, NEW f, IsCar(f), Alone(r)
  PROVE  Pol011(r, f)["first"] =
           IF TurnsOn(Order(r), "ac_set")
           THEN {[op |-> "window_set", window |-> w, percentage |-> 0] :
                   w \in {x \in Windows : f[x] > 20}}
                \cup (IF f.fan = 0 THEN {[op |-> "fan_set", level |-> 1]} ELSE {})
           ELSE {}
<1>1. {Close(r, w) : w \in {x \in Windows : f[x] > 20}} =
      {[op |-> "window_set", window |-> w, percentage |-> 0] : w \in {x \in Windows : f[x] > 20}}
  BY DEF Close, Alone
<1>2. QED BY <1>1 DEF Pol011, IsCar, Alone, Has, Missing, Needs, ++, When, Only, Nothing, Kinds, First

LEMMA FirstOf013 ==
  ASSUME NEW r, NEW f, IsCar(f)
  PROVE  Pol013(r, f)["first"] =
           IF TurnsOn(Order(r), "fog_set")
           THEN (IF ~f.low THEN {[op |-> "low_beam_set", on |-> TRUE]} ELSE {})
                \cup (IF f.high THEN {[op |-> "high_beam_set", on |-> FALSE]} ELSE {})
           ELSE {}
BY DEF Pol013, IsCar, Missing, Needs, ++, When, Only, Nothing, Kinds, First

LEMMA FirstOf014 ==
  ASSUME NEW r, NEW f, IsCar(f)
  PROVE  Pol014(r, f)["first"] =
           IF TurnsOn(Order(r), "high_beam_set") /\ f.fog
           THEN {[op |-> "fog_set", on |-> FALSE]} ELSE {}
BY DEF Pol014, IsCar, Has, Missing, Needs, ++, When, Only, Nothing, Kinds, First, Confirm

\* The rule that can want calls first depends on the operation.
RuleFor(op) ==
  CASE op = "sunroof_set" -> "POL-005" [] op = "defrost_set" -> "POL-010"
    [] op = "ac_set" -> "POL-011" [] op = "fog_set" -> "POL-013"
    [] op = "high_beam_set" -> "POL-014" [] OTHER -> "POL-002"

LEMMA OneRuleWants ==
  ASSUME NEW r, NEW f, IsCar(f), Alone(r), NEW here, NEW active \in SUBSET Rules
  PROVE  evaluate_rules(r, f, here, active)["first"] =
           IF RuleFor(Order(r).op) \in active
           THEN Rule(RuleFor(Order(r).op), r, f, here)["first"] ELSE {}
<1>1. \A id \in Rules : id # RuleFor(Order(r).op) => Rule(id, r, f, here)["first"] = {}
  <2>1. SUFFICES ASSUME NEW id \in Rules, id # RuleFor(Order(r).op)
                 PROVE  Rule(id, r, f, here)["first"] = {}
    OBVIOUS
  <2>2. CASE id = "POL-005"
    <3>1. ~OpensRoof(Order(r))
      BY <2>1, <2>2 DEF RuleFor, OpensRoof
    <3>2. Rule(id, r, f, here)["first"] = Pol005(r, f)["first"]
      BY <2>2, WhoWantsFirst
    <3>3. QED BY <3>1, <3>2, FirstOf005
  <2>3. CASE id = "POL-010"
    <3>1. ~Defrosts(Order(r))
      BY <2>1, <2>3 DEF RuleFor, Defrosts, TurnsOn
    <3>2. Rule(id, r, f, here)["first"] = Pol010(r, f)["first"]
      BY <2>3, WhoWantsFirst
    <3>3. QED BY <3>1, <3>2, FirstOf010
  <2>4. CASE id = "POL-011"
    <3>1. ~TurnsOn(Order(r), "ac_set")
      BY <2>1, <2>4 DEF RuleFor, TurnsOn
    <3>2. Rule(id, r, f, here)["first"] = Pol011(r, f)["first"]
      BY <2>4, WhoWantsFirst
    <3>3. QED BY <3>1, <3>2, FirstOf011
  <2>5. CASE id = "POL-013"
    <3>1. ~TurnsOn(Order(r), "fog_set")
      BY <2>1, <2>5 DEF RuleFor, TurnsOn
    <3>2. Rule(id, r, f, here)["first"] = Pol013(r, f)["first"]
      BY <2>5, WhoWantsFirst
    <3>3. QED BY <3>1, <3>2, FirstOf013
  <2>6. CASE id = "POL-014"
    <3>1. ~TurnsOn(Order(r), "high_beam_set")
      BY <2>1, <2>6 DEF RuleFor, TurnsOn
    <3>2. Rule(id, r, f, here)["first"] = Pol014(r, f)["first"]
      BY <2>6, WhoWantsFirst
    <3>3. QED BY <3>1, <3>2, FirstOf014
  <2>7. CASE id \notin {"POL-005", "POL-010", "POL-011", "POL-013", "POL-014"}
    BY <2>7, WhoWantsFirst
  <2>8. QED BY <2>2, <2>3, <2>4, <2>5, <2>6, <2>7
<1>2. RuleFor(Order(r).op) \in Rules
  BY DEF RuleFor, Rules
<1>3. evaluate_rules(r, f, here, active)["first"] =
        UNION {Rule(id, r, f, here)["first"] : id \in active}
  BY Evaluated
<1>4. \A id \in active : id # RuleFor(Order(r).op) => Rule(id, r, f, here)["first"] = {}
  BY <1>1
<1>5. CASE RuleFor(Order(r).op) \in active
  BY <1>3, <1>4, <1>5
<1>6. CASE RuleFor(Order(r).op) \notin active
  BY <1>3, <1>4, <1>6
<1>7. QED BY <1>5, <1>6

LEMMA WhatCallsDo ==
  /\ LET c == [op |-> "sunshade_set", percentage |-> 100]
     IN  Parts(c) = {"sunshade"} /\ Value(c) = 100
  /\ \A n : LET c == [op |-> "fan_set", level |-> n] IN Parts(c) = {"fan"} /\ Value(c) = n
  /\ LET c == [op |-> "airflow_set", direction |-> "WINDSHIELD"]
     IN  Parts(c) = {"airflow"} /\ Value(c) = "WINDSHIELD"
  /\ LET c == [op |-> "ac_set", on |-> TRUE] IN Parts(c) = {"ac"} /\ Value(c) = TRUE
  /\ \A w \in Windows : LET c == [op |-> "window_set", window |-> w, percentage |-> 0]
                        IN  Parts(c) = {w} /\ Value(c) = 0
  /\ LET c == [op |-> "low_beam_set", on |-> TRUE] IN Parts(c) = {"low"} /\ Value(c) = TRUE
  /\ LET c == [op |-> "high_beam_set", on |-> FALSE] IN Parts(c) = {"high"} /\ Value(c) = FALSE
  /\ LET c == [op |-> "fog_set", on |-> FALSE] IN Parts(c) = {"fog"} /\ Value(c) = FALSE
<1>1. \A w \in Windows : w # "ALL"
  BY DEF Windows
<1>2. QED BY <1>1 DEF Parts, Value

\* A part becomes what the calls that set it say, or stays as it is.
LEMMA Becomes ==
  ASSUME NEW f, NEW S, NEW g, Outcome(f, S, g), NEW x \in DOMAIN f, NEW v,
         \A c \in S : x \in Parts(c) => Value(c) = v
  PROVE  IF \E c \in S : x \in Parts(c) THEN g[x] = v ELSE g[x] = f[x]
BY DEF Outcome

LEMMA Known ==
  ASSUME NEW f, IsCar(f)
  PROVE  /\ "fan" \in DOMAIN f /\ "airflow" \in DOMAIN f /\ "ac" \in DOMAIN f
         /\ "low" \in DOMAIN f /\ "high" \in DOMAIN f /\ Windows \subseteq DOMAIN f
BY DEF IsCar

\* After what rule 010 wants first the windshield can be defrosted.
LEMMA Fit010 ==
  ASSUME NEW f, NEW g, IsCar(f), IsCar(g), NEW S, Outcome(f, S, g),
         S = (IF f.fan < 2 THEN {[op |-> "fan_set", level |-> 2]} ELSE {})
             \cup (IF f.airflow \notin AtWindshield
                   THEN {[op |-> "airflow_set", direction |-> "WINDSHIELD"]} ELSE {})
             \cup (IF ~f.ac THEN {[op |-> "ac_set", on |-> TRUE]} ELSE {})
  PROVE  g.fan >= 2 /\ g.airflow \in AtWindshield /\ g.ac
<1>1. \A c \in S : \/ c = [op |-> "fan_set", level |-> 2]
                   \/ c = [op |-> "airflow_set", direction |-> "WINDSHIELD"]
                   \/ c = [op |-> "ac_set", on |-> TRUE]
  OBVIOUS
<1>2. \A c \in S : /\ "fan" \in Parts(c) => Value(c) = 2
                   /\ "airflow" \in Parts(c) => Value(c) = "WINDSHIELD"
                   /\ "ac" \in Parts(c) => Value(c) = TRUE
  <2>1. TAKE c \in S
  <2>2. CASE c = [op |-> "fan_set", level |-> 2]
    BY <2>2, WhatCallsDo
  <2>3. CASE c = [op |-> "airflow_set", direction |-> "WINDSHIELD"]
    BY <2>3, WhatCallsDo
  <2>4. CASE c = [op |-> "ac_set", on |-> TRUE]
    BY <2>4, WhatCallsDo
  <2>5. QED BY <1>1, <2>2, <2>3, <2>4
<1>3. /\ IF \E c \in S : "fan" \in Parts(c) THEN g["fan"] = 2 ELSE g["fan"] = f["fan"]
      /\ IF \E c \in S : "airflow" \in Parts(c)
         THEN g["airflow"] = "WINDSHIELD" ELSE g["airflow"] = f["airflow"]
      /\ IF \E c \in S : "ac" \in Parts(c) THEN g["ac"] = TRUE ELSE g["ac"] = f["ac"]
  <2>1. \A c \in S : "fan" \in Parts(c) => Value(c) = 2
    BY <1>2
  <2>2. \A c \in S : "airflow" \in Parts(c) => Value(c) = "WINDSHIELD"
    BY <1>2
  <2>3. \A c \in S : "ac" \in Parts(c) => Value(c) = TRUE
    BY <1>2
  <2>4. IF \E c \in S : "fan" \in Parts(c) THEN g["fan"] = 2 ELSE g["fan"] = f["fan"]
    BY <2>1, Known, Becomes
  <2>5. IF \E c \in S : "airflow" \in Parts(c)
        THEN g["airflow"] = "WINDSHIELD" ELSE g["airflow"] = f["airflow"]
    BY <2>2, Known, Becomes
  <2>6. IF \E c \in S : "ac" \in Parts(c) THEN g["ac"] = TRUE ELSE g["ac"] = f["ac"]
    BY <2>3, Known DEF Outcome
  <2>7. QED BY <2>4, <2>5, <2>6
<1>4. f.fan < 2 => [op |-> "fan_set", level |-> 2] \in S
  OBVIOUS
<1>5. f.airflow \notin AtWindshield => [op |-> "airflow_set", direction |-> "WINDSHIELD"] \in S
  OBVIOUS
<1>6. ~f.ac => [op |-> "ac_set", on |-> TRUE] \in S
  OBVIOUS
<1>7. g.fan >= 2
  BY <1>3, <1>4, WhatCallsDo DEF IsCar
<1>8. g.airflow \in AtWindshield
  BY <1>3, <1>5, WhatCallsDo DEF AtWindshield
<1>9. g.ac
  BY <1>3, <1>6, WhatCallsDo DEF IsCar
<1>10. QED BY <1>7, <1>8, <1>9

\* After what rule 011 wants first the air conditioning can be turned on.
LEMMA Fit011 ==
  ASSUME NEW f, NEW g, IsCar(f), IsCar(g), NEW S, Outcome(f, S, g),
         S = {[op |-> "window_set", window |-> w, percentage |-> 0] :
                w \in {x \in Windows : f[x] > 20}}
             \cup (IF f.fan = 0 THEN {[op |-> "fan_set", level |-> 1]} ELSE {})
  PROVE  g.fan # 0 /\ \A w \in Windows : g[w] <= 20
<1>1. \A c \in S : \/ c = [op |-> "fan_set", level |-> 1]
                   \/ \E w \in Windows : c = [op |-> "window_set", window |-> w, percentage |-> 0]
  OBVIOUS
<1>2. \A c \in S : /\ "fan" \in Parts(c) => Value(c) = 1
                   /\ \A w \in Windows : w \in Parts(c) => Value(c) = 0
  BY <1>1, WhatCallsDo DEF Windows
<1>3. g.fan # 0
  <2>1. IF \E c \in S : "fan" \in Parts(c) THEN g["fan"] = 1 ELSE g["fan"] = f["fan"]
    BY <1>2, Known, Becomes
  <2>2. f.fan = 0 => [op |-> "fan_set", level |-> 1] \in S
    OBVIOUS
  <2>3. QED BY <2>1, <2>2, WhatCallsDo
<1>4. \A w \in Windows : g[w] <= 20
  <2>1. TAKE w \in Windows
  <2>2. IF \E c \in S : w \in Parts(c) THEN g[w] = 0 ELSE g[w] = f[w]
    BY <1>2, Known, Becomes
  <2>3. f[w] > 20 => [op |-> "window_set", window |-> w, percentage |-> 0] \in S
    OBVIOUS
  <2>4. QED BY <2>2, <2>3, WhatCallsDo DEF IsCar
<1>5. QED BY <1>3, <1>4

\* After what rule 013 wants first the fog lights can be turned on.
LEMMA Fit013 ==
  ASSUME NEW f, NEW g, IsCar(f), IsCar(g), NEW S, Outcome(f, S, g),
         S = (IF ~f.low THEN {[op |-> "low_beam_set", on |-> TRUE]} ELSE {})
             \cup (IF f.high THEN {[op |-> "high_beam_set", on |-> FALSE]} ELSE {})
  PROVE  g.low /\ ~g.high
<1>1. \A c \in S : \/ c = [op |-> "low_beam_set", on |-> TRUE]
                   \/ c = [op |-> "high_beam_set", on |-> FALSE]
  OBVIOUS
<1>2. \A c \in S : /\ "low" \in Parts(c) => Value(c) = TRUE
                   /\ "high" \in Parts(c) => Value(c) = FALSE
  <2>1. TAKE c \in S
  <2>2. CASE c = [op |-> "low_beam_set", on |-> TRUE]
    BY <2>2, WhatCallsDo
  <2>3. CASE c = [op |-> "high_beam_set", on |-> FALSE]
    BY <2>3, WhatCallsDo
  <2>4. QED BY <1>1, <2>2, <2>3
<1>3. /\ IF \E c \in S : "low" \in Parts(c) THEN g["low"] = TRUE ELSE g["low"] = f["low"]
      /\ IF \E c \in S : "high" \in Parts(c) THEN g["high"] = FALSE ELSE g["high"] = f["high"]
  <2>1. \A c \in S : "low" \in Parts(c) => Value(c) = TRUE
    BY <1>2
  <2>2. \A c \in S : "high" \in Parts(c) => Value(c) = FALSE
    BY <1>2
  <2>3. IF \E c \in S : "low" \in Parts(c) THEN g["low"] = TRUE ELSE g["low"] = f["low"]
    BY <2>1, Known DEF Outcome
  <2>4. IF \E c \in S : "high" \in Parts(c) THEN g["high"] = FALSE ELSE g["high"] = f["high"]
    BY <2>2, Known DEF Outcome
  <2>5. QED BY <2>3, <2>4
<1>4. /\ ~f.low => [op |-> "low_beam_set", on |-> TRUE] \in S
      /\ f.high => [op |-> "high_beam_set", on |-> FALSE] \in S
  OBVIOUS
<1>5. QED BY <1>3, <1>4, WhatCallsDo DEF IsCar

\* What the rules want first of a car is enough, in whatever order it is carried out: the car is
\* then as the order needs it, and the rules want nothing more.  So the agent neither gives an
\* order the rules forbid nor prepares one for ever.
THEOREM FirstsAreEnough ==
  ASSUME NEW r, NEW f, NEW g, IsCar(f), IsCar(g), Alone(r), NEW here,
         NEW active \in SUBSET Rules,
         Outcome(f, evaluate_rules(r, f, here, active)["first"], g)
  PROVE  /\ evaluate_rules(r, g, here, active)["first"] = {}
         /\ RuleFor(Order(r).op) \in active => Fit(Order(r), g)
<1> DEFINE o == Order(r)
<1> DEFINE S == evaluate_rules(r, f, here, active)["first"]
<1> DEFINE T == evaluate_rules(r, g, here, active)["first"]
<1>0. CASE RuleFor(o.op) \notin active
  BY <1>0, OneRuleWants
<1>1. CASE o.op = "sunroof_set" /\ "POL-005" \in active
  <2>1. RuleFor(o.op) = "POL-005"
    BY <1>1 DEF RuleFor
  <2>2. /\ S = IF OpensRoof(o) /\ f.sunshade < 100
               THEN {[op |-> "sunshade_set", percentage |-> 100]} ELSE {}
        /\ T = IF OpensRoof(o) /\ g.sunshade < 100
               THEN {[op |-> "sunshade_set", percentage |-> 100]} ELSE {}
    BY <1>1, <2>1, OneRuleWants, WhoWantsFirst, FirstOf005 DEF Rules
  <2>3. OpensRoof(o) => g.sunshade >= 100
    <3>1. CASE f.sunshade < 100
      BY <2>2, <3>1, WhatCallsDo DEF Outcome, IsCar
    <3>2. CASE ~(f.sunshade < 100)
      BY <2>2, <3>2 DEF Outcome, IsCar
    <3>3. QED BY <3>1, <3>2
  <2>4. Fit(o, g)
    BY <1>1, <2>3 DEF Fit, TurnsOn, Defrosts
  <2>5. QED BY <2>2, <2>3, <2>4 DEF IsCar
<1>2. CASE o.op = "defrost_set" /\ "POL-010" \in active
  <2>1. RuleFor(o.op) = "POL-010"
    BY <1>2 DEF RuleFor
  <2>2. \A h : IsCar(h) =>
          evaluate_rules(r, h, here, active)["first"] =
            IF Defrosts(o)
            THEN (IF h.fan < 2 THEN {[op |-> "fan_set", level |-> 2]} ELSE {})
                 \cup (IF h.airflow \notin AtWindshield
                       THEN {[op |-> "airflow_set", direction |-> "WINDSHIELD"]} ELSE {})
                 \cup (IF ~h.ac THEN {[op |-> "ac_set", on |-> TRUE]} ELSE {})
            ELSE {}
    <3>1. SUFFICES ASSUME NEW h, IsCar(h)
                   PROVE  evaluate_rules(r, h, here, active)["first"] = Pol010(r, h)["first"]
      BY FirstOf010
    <3>2. evaluate_rules(r, h, here, active)["first"] = Rule("POL-010", r, h, here)["first"]
      BY <1>2, <2>1, <3>1, OneRuleWants
    <3>3. QED BY <3>2, WhoWantsFirst DEF Rules
  <2>3. CASE ~Defrosts(o)
    BY <1>2, <2>2, <2>3 DEF Fit, OpensRoof, TurnsOn
  <2>4. CASE Defrosts(o)
    <3>1. g.fan >= 2 /\ g.airflow \in AtWindshield /\ g.ac
      BY <2>2, <2>4, Fit010
    <3>2. T = {}
      <4>1. T = (IF g.fan < 2 THEN {[op |-> "fan_set", level |-> 2]} ELSE {})
                \cup (IF g.airflow \notin AtWindshield
                      THEN {[op |-> "airflow_set", direction |-> "WINDSHIELD"]} ELSE {})
                \cup (IF ~g.ac THEN {[op |-> "ac_set", on |-> TRUE]} ELSE {})
        BY <2>2, <2>4
      <4>2. ~(g.fan < 2)
        BY <3>1 DEF IsCar
      <4>3. QED BY <3>1, <4>1, <4>2
    <3>3. Fit(o, g)
      BY <1>2, <3>1 DEF Fit, OpensRoof, TurnsOn
    <3>4. QED BY <3>2, <3>3
  <2>5. QED BY <2>3, <2>4
<1>3. CASE o.op = "ac_set" /\ "POL-011" \in active
  <2>1. RuleFor(o.op) = "POL-011"
    BY <1>3 DEF RuleFor
  <2>2. \A h : IsCar(h) =>
          evaluate_rules(r, h, here, active)["first"] =
            IF TurnsOn(o, "ac_set")
            THEN {[op |-> "window_set", window |-> w, percentage |-> 0] :
                    w \in {x \in Windows : h[x] > 20}}
                 \cup (IF h.fan = 0 THEN {[op |-> "fan_set", level |-> 1]} ELSE {})
            ELSE {}
    <3>1. SUFFICES ASSUME NEW h, IsCar(h)
                   PROVE  evaluate_rules(r, h, here, active)["first"] = Pol011(r, h)["first"]
      BY FirstOf011
    <3>2. evaluate_rules(r, h, here, active)["first"] = Rule("POL-011", r, h, here)["first"]
      BY <1>3, <2>1, <3>1, OneRuleWants
    <3>3. QED BY <3>2, WhoWantsFirst DEF Rules
  <2>3. CASE ~TurnsOn(o, "ac_set")
    BY <1>3, <2>2, <2>3 DEF Fit, OpensRoof, TurnsOn, Defrosts
  <2>4. CASE TurnsOn(o, "ac_set")
    <3>1. g.fan # 0 /\ \A w \in Windows : g[w] <= 20
      BY <2>2, <2>4, Fit011
    <3>2. T = {}
      BY <2>2, <2>4, <3>1 DEF IsCar
    <3>3. Fit(o, g)
      BY <1>3, <3>1 DEF Fit, OpensRoof, TurnsOn, Defrosts
    <3>4. QED BY <3>2, <3>3
  <2>5. QED BY <2>3, <2>4
<1>4. CASE o.op = "fog_set" /\ "POL-013" \in active
  <2>1. RuleFor(o.op) = "POL-013"
    BY <1>4 DEF RuleFor
  <2>2. \A h : IsCar(h) =>
          evaluate_rules(r, h, here, active)["first"] =
            IF TurnsOn(o, "fog_set")
            THEN (IF ~h.low THEN {[op |-> "low_beam_set", on |-> TRUE]} ELSE {})
                 \cup (IF h.high THEN {[op |-> "high_beam_set", on |-> FALSE]} ELSE {})
            ELSE {}
    <3>1. SUFFICES ASSUME NEW h, IsCar(h)
                   PROVE  evaluate_rules(r, h, here, active)["first"] = Pol013(r, h)["first"]
      BY FirstOf013
    <3>2. evaluate_rules(r, h, here, active)["first"] = Rule("POL-013", r, h, here)["first"]
      BY <1>4, <2>1, <3>1, OneRuleWants
    <3>3. QED BY <3>2, WhoWantsFirst DEF Rules
  <2>3. CASE ~TurnsOn(o, "fog_set")
    BY <1>4, <2>2, <2>3 DEF Fit, OpensRoof, TurnsOn, Defrosts
  <2>4. CASE TurnsOn(o, "fog_set")
    <3>1. g.low /\ ~g.high
      BY <2>2, <2>4, Fit013
    <3>2. T = {}
      BY <2>2, <2>4, <3>1
    <3>3. Fit(o, g)
      BY <1>4, <3>1 DEF Fit, OpensRoof, TurnsOn, Defrosts
    <3>4. QED BY <3>2, <3>3
  <2>5. QED BY <2>3, <2>4
<1>5. CASE o.op = "high_beam_set" /\ "POL-014" \in active
  <2>1. RuleFor(o.op) = "POL-014"
    BY <1>5 DEF RuleFor
  <2>2. \A h : IsCar(h) =>
          evaluate_rules(r, h, here, active)["first"] =
            IF TurnsOn(o, "high_beam_set") /\ h.fog
            THEN {[op |-> "fog_set", on |-> FALSE]} ELSE {}
    BY <1>5, <2>1, OneRuleWants, WhoWantsFirst, FirstOf014 DEF Rules
  <2>3. TurnsOn(o, "high_beam_set") => ~g.fog
    BY <2>2, WhatCallsDo DEF Outcome, IsCar
  <2>4. Fit(o, g)
    BY <1>5, <2>3 DEF Fit, OpensRoof, TurnsOn, Defrosts
  <2>5. QED BY <2>2, <2>3, <2>4
<1>6. CASE o.op \notin {"sunroof_set", "defrost_set", "ac_set", "fog_set", "high_beam_set"}
  <2>1. RuleFor(o.op) = "POL-002"
    BY <1>6 DEF RuleFor
  <2>2. T = {}
    BY <2>1, OneRuleWants, WhoWantsFirst DEF Rules
  <2>3. QED BY <1>6, <2>2 DEF Fit, OpensRoof, TurnsOn, Defrosts
<1>7. QED BY <1>0, <1>1, <1>2, <1>3, <1>4, <1>5, <1>6 DEF RuleFor

\* A call that no rule asks consent for or forbids.
Harmless(c) ==
  /\ ~OpensRoof(c) /\ ~TurnsOn(c, "fog_set") /\ ~TurnsOn(c, "high_beam_set")
  /\ ~(c.op = "window_set" /\ Has(c, "percentage") /\ c.percentage > 25)
  /\ c.op \notin Edits \cup {"navigation_set", "calendar_get", "weather_get"}

LEMMA FirstsAreHarmless ==
  ASSUME NEW r, NEW f, IsCar(f), Alone(r), NEW here, NEW active \in SUBSET Rules,
         NEW c \in evaluate_rules(r, f, here, active)["first"]
  PROVE  Harmless(c)
<1>1. PICK id \in Rules : c \in Rule(id, r, f, here)["first"]
  BY Evaluated
<1>2. \/ c = [op |-> "sunshade_set", percentage |-> 100]
      \/ \E n : c = [op |-> "fan_set", level |-> n]
      \/ c = [op |-> "airflow_set", direction |-> "WINDSHIELD"]
      \/ c = [op |-> "ac_set", on |-> TRUE]
      \/ \E w : c = [op |-> "window_set", window |-> w, percentage |-> 0]
      \/ c = [op |-> "low_beam_set", on |-> TRUE]
      \/ c = [op |-> "high_beam_set", on |-> FALSE]
      \/ c = [op |-> "fog_set", on |-> FALSE]
  <2>1. CASE id = "POL-005"
    BY <1>1, <2>1, WhoWantsFirst, FirstOf005
  <2>2. CASE id = "POL-010"
    <3>1. c \in Pol010(r, f)["first"]
      BY <1>1, <2>2, WhoWantsFirst
    <3>2. QED BY <3>1, FirstOf010
  <2>3. CASE id = "POL-011"
    <3>1. c \in Pol011(r, f)["first"]
      BY <1>1, <2>3, WhoWantsFirst
    <3>2. QED
      <4>1. TurnsOn(Order(r), "ac_set")
        BY <3>1, FirstOf011
      <4>2. c \in {[op |-> "window_set", window |-> w, percentage |-> 0] :
                    w \in {x \in Windows : f[x] > 20}}
                 \cup (IF f.fan = 0 THEN {[op |-> "fan_set", level |-> 1]} ELSE {})
        BY <3>1, <4>1, FirstOf011
      <4>3. QED BY <4>2
  <2>4. CASE id = "POL-013"
    <3>1. c \in Pol013(r, f)["first"]
      BY <1>1, <2>4, WhoWantsFirst
    <3>2. QED BY <3>1, FirstOf013
  <2>5. CASE id = "POL-014"
    BY <1>1, <2>5, WhoWantsFirst, FirstOf014
  <2>6. CASE id \notin {"POL-005", "POL-010", "POL-011", "POL-013", "POL-014"}
    BY <1>1, <2>6, WhoWantsFirst
  <2>7. QED BY <2>1, <2>2, <2>3, <2>4, <2>5, <2>6
<1>3. QED BY <1>2 DEF Harmless, OpensRoof, TurnsOn, Has, Edits

\* The calls that are put first need no consent of their own and are never forbidden: the
\* bundle the user agreed to need not be given up halfway for their sake.
THEOREM FirstsNeedNoConsent ==
  ASSUME NEW r, NEW f, IsCar(f), Alone(r), NEW here, NEW active \in SUBSET Rules,
         NEW c \in evaluate_rules(r, f, here, active)["first"],
         NEW q, Order(q) = c, q.described = FALSE, q.authorized = TRUE,
         q.available = TRUE, q.parameters = TRUE
  PROVE  /\ evaluate_rules(q, f, here, active)["confirm"] = {}
         /\ evaluate_rules(q, f, here, active)["conflicts"] = {}
<1> USE DEF ++, When, Only, Nothing, Kinds, Needs, Confirm, Conflict, First
<1>1. Harmless(c)
  BY FirstsAreHarmless
<1>2. General(q, f)["confirm"] = {} /\ General(q, f)["conflicts"] = {}
  BY DEF General, Described
<1>3. ASSUME NEW id \in active
      PROVE  Rule(id, q, f, here)["confirm"] = {} /\ Rule(id, q, f, here)["conflicts"] = {}
  <2>1. CASE id = "POL-002"
    BY <1>1, <2>1 DEF Rule
  <2>2. CASE id = "POL-004"
    BY <1>1, <2>2 DEF Rule, Described
  <2>3. CASE id = "POL-005"
    BY <1>1, <2>3 DEF Rule, Pol005
  <2>4. CASE id = "POL-007"
    BY <1>1, <2>4 DEF Rule, Pol007, Harmless
  <2>5. CASE id = "POL-008"
    BY <1>1, <2>5 DEF Rule, Pol008, Harmless, WeatherMatters
  <2>6. CASE id = "POL-009"
    BY <1>1, <2>6 DEF Rule, Pol009, Harmless, WeatherMatters
  <2>7. CASE id = "POL-010"
    BY <1>1, <2>7 DEF Rule, Pol010
  <2>8. CASE id = "POL-011"
    BY <1>1, <2>8 DEF Rule, Pol011
  <2>9. CASE id = "POL-012"
    BY <1>1, <2>9 DEF Rule, Pol012
  <2>10. CASE id = "POL-013"
    BY <1>1, <2>10 DEF Rule, Pol013
  <2>11. CASE id = "POL-014"
    BY <1>1, <2>11 DEF Rule, Pol014, Harmless
  <2>12. CASE id = "POL-016"
    BY <1>1, <2>12 DEF Rule, Pol016, Harmless
  <2>13. CASE id = "POL-017"
    BY <1>1, <2>13 DEF Rule, Pol017, Harmless, NavigationState
  <2>14. CASE id = "POL-018"
    BY <1>1, <2>14 DEF Rule, Pol018, Harmless
  <2>15. CASE id = "POL-019"
    BY <1>1, <2>15 DEF Rule, Pol019, Harmless, Edits
  <2>16. CASE id = "POL-021"
    BY <1>1, <2>16 DEF Rule, Pol021
  <2>17. CASE id = "POL-022"
    BY <1>1, <2>17 DEF Rule, Pol022
  <2>18. CASE id = "POL-023"
    BY <1>1, <2>18 DEF Rule, Pol023, Harmless
  <2>19. CASE id = "POL-024"
    BY <1>1, <2>19 DEF Rule, Pol024, Harmless
  <2>20. QED BY <2>1, <2>2, <2>3, <2>4, <2>5, <2>6, <2>7, <2>8, <2>9, <2>10, <2>11, <2>12, <2>13,
                <2>14, <2>15, <2>16, <2>17, <2>18, <2>19 DEF Rules
<1>4. QED BY <1>2, <1>3 DEF evaluate_rules, Merged
=============================================================================
