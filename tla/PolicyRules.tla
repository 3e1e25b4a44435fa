---------------------------- MODULE PolicyRules ----------------------------
(***************************************************************************)
(* The rules every order to the car is judged by before it is given        *)
(* (policy/rules.py).  A rule looks at one call of a bundle and at what is *)
(* known, and decides: what must be read first, which calls must come      *)
(* before it, what needs the user's consent, what forbids it.              *)
(*                                                                         *)
(* A call is a record of its operation, op, and of the arguments that are  *)
(* given.  The facts f are a record of the facts that are known: a fact    *)
(* that is missing is no field of f.  here holds what the system text says *)
(* of the present: location, month, day and hour, each of which may be     *)
(* missing.  A request r is one call of a bundle, r.calls[r.at], with what *)
(* is known about the tool and about the user's consent.                   *)
(***************************************************************************)
EXTENDS Integers, Sequences

Windows == {"DRIVER", "PASSENGER", "DRIVER_REAR", "PASSENGER_REAR"}
AtWindshield == {"WINDSHIELD", "WINDSHIELD_FEET", "WINDSHIELD_HEAD", "WINDSHIELD_HEAD_FEET"}
Edits == {"navigation_edit", "navigation_delete_destination"}
Rules == {"POL-002", "POL-004", "POL-005", "POL-007", "POL-008", "POL-009", "POL-010",
          "POL-011", "POL-012", "POL-013", "POL-014", "POL-016", "POL-017", "POL-018",
          "POL-019", "POL-021", "POL-022", "POL-023", "POL-024"}

-----------------------------------------------------------------------------
(* Decisions: a set for each kind of thing a rule can decide.              *)

Kinds == {"reads",       \* what is to be read, and for which facts
          "first",       \* the calls that must come first
          "confirm",     \* the rules that ask for the user's consent
          "conflicts",   \* what forbids the call
          "say",         \* what the answer has to say
          "fixed",       \* arguments and the only value they may have
          "mode"}        \* "serial": one call at a time

Nothing == [k \in Kinds |-> {}]
Only(k, S) == [Nothing EXCEPT ![k] = S]
d ++ e == [k \in Kinds |-> d[k] \cup e[k]]
Merged(D) == [k \in Kinds |-> UNION {d[k] : d \in D}]
When(p, d) == IF p THEN d ELSE Nothing

Conflict(p, code) == When(p, Only("conflicts", {code}))
Confirm(p, id) == When(p, Only("confirm", {id}))
First(p, call) == When(p, Only("first", {call}))

-----------------------------------------------------------------------------
(* What is known, and what a call asks for.                                *)

Has(r, x) == x \in DOMAIN r
Missing(f, X) == X \ DOMAIN f
Needs(f, X, from) ==
  When(Missing(f, X) # {}, Only("reads", {[from |-> from, facts |-> Missing(f, X)]}))

Order(r) == r.calls[r.at]
TurnsOn(o, op) == o.op = op /\ Has(o, "on") /\ o.on
OpensRoof(o) == o.op = "sunroof_set" /\ Has(o, "percentage") /\ o.percentage > 0

-----------------------------------------------------------------------------
(* The roof, the windows and the weather.                                  *)

\* The sunroof opens only below an open sunshade.
Pol005(r, f) ==
  When(OpensRoof(Order(r)),
       Needs(f, {"sunshade"}, "roof")
       ++ First(Has(f, "sunshade") /\ f.sunshade < 100,
                [op |-> "sunshade_set", percentage |-> 100]))

\* Opening a window far while the air conditioning runs wastes energy.
Pol007(r, f) ==
  LET o == Order(r)
  IN  When(o.op = "window_set" /\ Has(o, "percentage") /\ o.percentage > 25,
           Needs(f, {"ac"}, "climate") ++ Confirm(Has(f, "ac") /\ f.ac, "POL-007"))

WeatherMatters(o) == OpensRoof(o) \/ TurnsOn(o, "fog_set")

FitWeather(o) ==
  IF o.op = "sunroof_set" THEN {"sunny", "cloudy", "partly_cloudy"}
  ELSE {"cloudy_and_thunderstorm", "cloudy_and_hail"}

Pol008(r, f) ==
  LET o == Order(r)
  IN  Confirm(WeatherMatters(o) /\ Has(f, "weather") /\ f.weather \notin FitWeather(o), "POL-008")

\* The weather here and now: only when the system text tells where and when that is.
Pol009(r, f, here) ==
  When(WeatherMatters(Order(r)) /\ ~Has(f, "weather"),
       IF Missing(here, {"location", "month", "day", "hour"}) = {}
       THEN Needs(f, {"weather"}, "weather")
       ELSE Only("conflicts", {"current_weather_context_unavailable"}))

-----------------------------------------------------------------------------
(* The climate.                                                            *)

Defrosts(o) ==
  TurnsOn(o, "defrost_set") /\ Has(o, "window") /\ o.window \in {"FRONT", "ALL"}

Pol010(r, f) ==
  LET needed == {"fan", "airflow", "ac"}
  IN  When(Defrosts(Order(r)),
           Needs(f, needed, "climate")
           ++ When(Missing(f, needed) = {},
                   First(f.fan < 2, [op |-> "fan_set", level |-> 2])
                   ++ First(f.airflow \notin AtWindshield,
                            [op |-> "airflow_set", direction |-> "WINDSHIELD"])
                   ++ First(~f.ac, [op |-> "ac_set", on |-> TRUE])))

\* _ordered_window_close_before_current_ac: where the bundle closes window w earlier.
Closing(r, w) ==
  {i \in 1..(r.at - 1) :
     LET c == r.calls[i]
     IN  /\ c.op = "window_set"
         /\ Has(c, "window") /\ c.window \in {"ALL", w}
         /\ Has(c, "percentage") /\ c.percentage <= 20}

\* What closes window w: the first such call of the bundle, otherwise a call of its own.
Close(r, w) ==
  IF Closing(r, w) = {} THEN [op |-> "window_set", window |-> w, percentage |-> 0]
  ELSE r.calls[CHOOSE i \in Closing(r, w) : \A j \in Closing(r, w) : i <= j]

\* _ordered_actions_set_fan_at_least(1): anywhere in the bundle.
BundleTurnsFanOn(r) ==
  \E i \in DOMAIN r.calls :
    r.calls[i].op = "fan_set" /\ Has(r.calls[i], "level") /\ r.calls[i].level >= 1

Pol011(r, f) ==
  When(TurnsOn(Order(r), "ac_set"),
       Needs(f, Windows, "windows")
       ++ When(Missing(f, Windows) = {},
               Only("first", {Close(r, w) : w \in {x \in Windows : f[x] > 20}}))
       ++ Needs(f, {"fan"}, "climate")
       ++ First(Has(f, "fan") /\ f.fan = 0 /\ ~BundleTurnsFanOn(r), [op |-> "fan_set", level |-> 1]))

\* Two zones more than 3 degrees apart are told to the user.
Pol012(r, f) ==
  LET o == Order(r)
      other == IF o.zone = "DRIVER" THEN "tempPassenger" ELSE "tempDriver"
      apart == o.temperature - f[other]
  IN  When(/\ o.op = "temperature_set" /\ Has(o, "zone") /\ Has(o, "temperature")
           /\ o.zone \in {"DRIVER", "PASSENGER"},
           Needs(f, {"tempDriver", "tempPassenger"}, "temperatures")
           ++ When(/\ Missing(f, {"tempDriver", "tempPassenger"}) = {}
                   /\ apart > 3 \/ apart < -3,
                   Only("say", {"inform_temperature_zone_difference"})))

-----------------------------------------------------------------------------
(* The lights.                                                             *)

Pol013(r, f) ==
  LET needed == {"low", "high"}
  IN  When(TurnsOn(Order(r), "fog_set"),
           Needs(f, needed, "lights")
           ++ When(Missing(f, needed) = {},
                   First(~f.low, [op |-> "low_beam_set", on |-> TRUE])
                   ++ First(f.high, [op |-> "high_beam_set", on |-> FALSE])))

Pol014(r, f) ==
  LET clash == Has(f, "fog") /\ f.fog
  IN  When(TurnsOn(Order(r), "high_beam_set"),
           Needs(f, {"fog"}, "lights")
           ++ First(clash, [op |-> "fog_set", on |-> FALSE]) ++ Confirm(clash, "POL-014"))

-----------------------------------------------------------------------------
(* Navigation.                                                             *)

\* A new route starts where the car is.
Pol016(r, f, here) ==
  When(Order(r).op = "navigation_set",
       IF ~Has(here, "location") THEN Only("conflicts", {"current_location_unavailable"})
       ELSE IF ~Has(f, "routeStart") THEN Only("conflicts", {"route_start_unverified"})
       ELSE Conflict(f.routeStart # here.location, "route_start_not_current_location"))

NavigationState(f) == Needs(f, {"active", "waypoints"}, "navigation")
Inactive(f) == Has(f, "active") /\ ~f.active

\* Only an existing route that is being followed is edited.
Pol017(r, f) ==
  When(Order(r).op \in Edits,
       NavigationState(f)
       ++ (IF Inactive(f) THEN Only("conflicts", {"navigation_edit_requires_active_route"})
           ELSE Conflict(Has(f, "waypoints") /\ f.waypoints < 2,
                         "navigation_edit_requires_existing_route")))

\* A route that is being followed is edited, one call at a time; only without one is a new set.
Pol018(r, f) ==
  LET op == Order(r).op
  IN  When(op \in Edits \cup {"navigation_set"},
           Needs(f, {"active"}, "navigation")
           ++ When(Has(f, "active"),
                   Conflict(op = "navigation_set" /\ f.active,
                            "active_navigation_requires_edit_operation")
                   ++ When(op \in Edits,
                           Only("mode", {"serial"})
                           ++ Conflict(~f.active, "inactive_navigation_requires_new_route"))))

\* A route keeps a start and a destination.
Pol019(r, f) ==
  When(Order(r).op = "navigation_delete_destination",
       NavigationState(f)
       ++ Conflict(Has(f, "waypoints") /\ f.waypoints <= 2, "cannot_delete_only_destination"))

Yes(f, x) == Has(f, x) /\ f[x]

Pol021(f) == When(Yes(f, "detailed") /\ Yes(f, "toll"), Only("say", {"disclose_route_toll"}))

Pol022(f) ==
  When(Has(f, "segments") /\ f.segments > 1 /\ Has(f, "specified") /\ ~f.specified,
       Only("say", {"select_fastest_route_per_segment",
                    "announce_fastest_default_and_offer_alternatives"})
       ++ When(Yes(f, "segmentsToll"), Only("say", {"disclose_route_toll"})))

-----------------------------------------------------------------------------
(* The calendar and the weather are those of today.                        *)

\* _apply_current_day_rule
Today(o, here) ==
  IF Missing(here, {"month", "day"}) # {} THEN Only("conflicts", {"current_date_unavailable"})
  ELSE Only("fixed", {<<"month", here.month>>, <<"day", here.day>>})
       ++ Conflict(\E x \in {"month", "day"} : Has(o, x) /\ o[x] # here[x],
                   "non_current_day_request")

Pol023(r, here) == When(Order(r).op = "calendar_get", Today(Order(r), here))

Pol024(r, here) ==
  When(Order(r).op = "weather_get",
       Today(Order(r), here) ++ Conflict(~Has(Order(r), "hour"), "weather_time_required"))

-----------------------------------------------------------------------------
(* All the rules.                                                          *)

\* The description of the tool asks for consent: once as a general rule, once as POL-004.
Described(r, id) ==
  When(r.described,
       Only("confirm", {id}) ++ Only("say", {"describe_action_and_all_parameters"}))

\* _apply_general_constraints; f tells of routes and places that are being presented.
General(r, f) ==
  Only("say", {"natural_first_person", "respond_in_user_language", "no_markdown"})
  ++ Conflict(r.changes /\ ~r.authorized, "reactive_action_not_authorized")
  ++ When(~r.available, Only("conflicts", {"requested_tool_unavailable"})
                        ++ Only("say", {"transparently_report_unavailable"}))
  ++ When(~r.parameters, Only("conflicts", {"requested_parameter_unavailable"})
                         ++ Only("say", {"ask_before_any_substitution"}))
  ++ Described(r, "tool_description")
  ++ When(Has(f, "alternatives") /\ f.alternatives >= 2,
          Only("say", {"route_alternatives_fastest_and_shortest"}))
  ++ When(Has(f, "poiNames"),
          Only("say", {"present_all_poi_names", "ask_which_poi_to_navigate_to"}))

Rule(id, r, f, here) ==
  CASE id = "POL-002" -> Only("say", {"metric_distance", "celsius", "datetime_24h"})
    [] id = "POL-004" -> Described(r, id)
    [] id = "POL-005" -> Pol005(r, f)
    [] id = "POL-007" -> Pol007(r, f)
    [] id = "POL-008" -> Pol008(r, f)
    [] id = "POL-009" -> Pol009(r, f, here)
    [] id = "POL-010" -> Pol010(r, f)
    [] id = "POL-011" -> Pol011(r, f)
    [] id = "POL-012" -> Pol012(r, f)
    [] id = "POL-013" -> Pol013(r, f)
    [] id = "POL-014" -> Pol014(r, f)
    [] id = "POL-016" -> Pol016(r, f, here)
    [] id = "POL-017" -> Pol017(r, f)
    [] id = "POL-018" -> Pol018(r, f)
    [] id = "POL-019" -> Pol019(r, f)
    [] id = "POL-021" -> Pol021(f)
    [] id = "POL-022" -> Pol022(f)
    [] id = "POL-023" -> Pol023(r, here)
    [] id = "POL-024" -> Pol024(r, here)

evaluate_rules(r, f, here, active) ==
  Merged({General(r, f)} \cup {Rule(id, r, f, here) : id \in active})
=============================================================================
