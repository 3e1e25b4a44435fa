----------------------- MODULE ConditionalNavigation -----------------------
(***************************************************************************)
(* _next_conditional_arrival_weather_navigation_workflow: navigate to a    *)
(* charging station at the primary destination, or to the fallback when it *)
(* rains at the primary one on arrival.                                    *)
(*                                                                         *)
(* The goal has one route_choice_alias for three sets of routes: to the    *)
(* primary destination, whose duration gives the hour of the arrival, to   *)
(* the fallback, and to the charging station.                              *)
(***************************************************************************)
EXTENDS Places

Routes == {"one",       \* a single route
           "shared",    \* several, one both fastest and shortest
           "several",   \* several, the fastest is not the shortest
           "bad"}

ConditionalValues ==
  [primary |-> {"new", "bad"},
   primaryRoutes |-> Routes \cup {"long"},   \* long: a single one, past midnight
   weather |-> {"rain", "dry", "bad"},
   fallback |-> {"new", "bad"}, fallbackRoutes |-> Routes,
   chargers |-> {"fastest", "bad"}, chargerRoutes |-> Routes,
   ordinal |-> {"first", "second"}]

ConditionalParents ==
  [primaryRoutes |-> {"primary"}, weather |-> {"primary", "hour"},
   fallbackRoutes |-> {"fallback"}, chargers |-> {"primary"}, chargerRoutes |-> {"chargers"}]

\* The hour of the arrival is the one of the primary route that is selected.
Hour(v) == [hour |-> IF v.ordinal = "second" THEN "later" ELSE "soon"]

\* _conditional_route_options_from_evidence and _unambiguous_conditional_route: the
\* user is asked unless one route is both fastest and shortest or was chosen.
Route(options, v) ==
  Verify(options, v)
  \o When(v[options] = "several", Ask("ordinal"))
  \o Require(v.ordinal = "second" => v[options] \notin {"one", "long"}, Limit)

PrimaryDestination(v) ==
  Fetch({"primary"}) \o Require(v.primary = "new", Limit)
  \o Route("primaryRoutes", v)
  \o Require(v.primaryRoutes # "long", Conflict)

\* _weather_slot_contains_arrival: the weather slot of the arrival.
ArrivalWeather(v) == Verify("weather", v)

ToFallback(v) ==
  Fetch({"fallback"}) \o Require(v.fallback = "new", Limit) \o Route("fallbackRoutes", v)

\* _fastest_available_charging_destination among the chargers at the destination.
ToCharger(v) == Verify("chargers", v) \o Route("chargerRoutes", v)

NavigateOnCondition(v) ==
  Tools
  \o PrimaryDestination(v) \o ArrivalWeather(v)
  \o (IF v.weather = "rain" THEN ToFallback(v) ELSE ToCharger(v))
  \o Fetch({"state"}) \o Require(v.state = "off", Conflict)
  \o Do(<<"set_new_navigation">>)
=============================================================================
