------------------------------- MODULE Cabin -------------------------------
(***************************************************************************)
(* The workflows about lights, climate and seats, and the questions that   *)
(* one reading answers.  What is to be set follows from what is read: the  *)
(* other beam, the level of another zone, one more than the present level. *)
(***************************************************************************)
EXTENDS Navigation

Fits == {"fits", "edge", "bad"}    \* edge: no room for the change that is asked for

CabinValues ==
  [headlights |-> {"off", "both", "one", "bad"}, beam |-> {"high", "low"},
   weatherNow |-> {"known", "bad"}, color |-> {"fits", "bad"},
   temperature |-> Fits, seatHeat |-> Fits, fan |-> Fits,
   controls |-> {"both", "temperature", "seat", "none"},
   level |-> {"two", "other"}, heaters |-> {"both", "seat", "none"},
   occupancy |-> {"known", "bad"},
   lights |-> {"match", "one", "two", "bad"},   \* the lights that are to be changed
   windows |-> {"unique", "several", "bad"}, window |-> {"driver", "other"},
   roof |-> {"known", "bad"}, preference |-> {"one", "bad"},
   domain |-> {"options", "other"}, option |-> {"first", "second"},  \* of a parameter
   withClimate |-> {"yes", "no"}, toEmpty |-> {"known", "bad"}, range |-> {"known", "bad"}]

CabinParents == [beam |-> {"headlights"}, window |-> {"windows"}]

-----------------------------------------------------------------------------
(* Lights.                                                                 *)

\* _broad_headlight_snapshot: whether each of the two beams is on.
Beams(v) == Verify("headlights", v)

\* _next_broad_headlights_workflow, for a goal that is pending.  With both beams off the
\* user is asked for one.
Headlights(v) ==
  Tools \o Beams(v)
  \o Require(v.headlights # "both", Info)
  \o When(v.headlights = "off", Ask("beam"))
  \o Do(<<"set_head_lights">>)

\* _next_current_weather_fog_lights_workflow.
FogLights(v) == Tools \o Verify("weatherNow", v) \o Do(<<"set_fog_lights">>)

\* _next_ambient_car_color_workflow: in the colour of the car.
AmbientLights(v) == Tools \o Verify("color", v) \o Do(<<"set_ambient_lights">>)

\* _next_reading_lights_workflow: on where somebody sits, off elsewhere.
ReadingLights(v) ==
  Tools \o Fetch({"occupancy", "lights"})
  \o Require(v.occupancy # "bad" /\ v.lights # "bad", Limit)
  \o Require(v.lights # "match", Info)
  \o Do(IF v.lights = "one" THEN <<"set_reading_light">>
        ELSE <<"set_reading_light", "set_reading_light">>)

-----------------------------------------------------------------------------
(* Climate and seats.                                                      *)

\* _next_climate_temperature_zone_sync_workflow: as in the other zone.
SyncTemperature(v) == Tools \o Verify("temperature", v) \o Do(<<"set_climate_temperature">>)

\* _next_climate_zone_sync_read: both settings of the zone that is copied.
ZoneSettings(v) ==
  Fetch({"temperature", "seatHeat"})
  \o Require(v.temperature # "bad" /\ v.seatHeat # "bad", Limit)

\* _climate_zone_sync_action_plan: one bundle, as far as there are controls.
SetZone(v) ==
  Given({"controls"}) \o Require(v.controls # "none", Limit)
  \o DoFor({"climate", "seat"} \ (CASE v.controls = "temperature" -> {"seat"}
                                    [] v.controls = "seat" -> {"climate"}
                                    [] OTHER -> {}),
           When(v.controls # "seat", <<"set_climate_temperature">>)
           \o When(v.controls # "temperature", <<"set_seat_heating">>))

\* _next_climate_zone_sync_workflow.  When one goal is done and the other failed,
\* _climate_zone_sync_partial_plan says so.
SyncZone(v, d) == IF d # {} THEN Reply("partial") ELSE Tools \o ZoneSettings(v) \o SetZone(v)

\* _handle_driver_warming_followup: the temperature has been set, and the user is asked
\* for one level for seat and wheel.
HeatingLevel(v) == Ask("level") \o Require(v.level = "two", "partial")

SetTemperature == Tools \o DoFor({"climate"}, <<"set_climate_temperature">>)

\* The seat's heater, as the recipe has it on whether somebody sits there.
HeatSeat(v) ==
  Require(v.heaters # "none", "partial")
  \o Fetch({"occupancy"}) \o DoFor({"seat"}, <<"set_seat_heating">>)

HeatWheel(v) ==
  Require(v.heaters = "both", "partial") \o DoFor({"steering"}, <<"set_steering_wheel_heating">>)

\* Mutant of WarmDriver: the status of the seat's goal is not looked at.
WarmDriverAgain(v, d) ==
  When("climate" \notin d, SetTemperature)
  \o HeatingLevel(v) \o Given({"heaters"})
  \o HeatSeat(v)
  \o HeatWheel(v)

\* _next_driver_warming_workflow: the temperature, then seat and wheel, each in a bundle
\* of its own for the goal that is not done yet.  What is missing ends it halfway.
WarmDriver(v, d) ==
  When("climate" \notin d, SetTemperature)
  \o HeatingLevel(v) \o Given({"heaters"})
  \o When("seat" \notin d, HeatSeat(v))
  \o HeatWheel(v)

\* A change relative to what is read; the new value must be one the control accepts.
Raise(thing, tool, v) ==
  Fetch({thing}) \o Require(v[thing] = "fits", Limit) \o Tools \o Do(<<tool>>)

\* _next_relative_fan_speed_read, _materialize_relative_fan_speed_goal_parameter.
RaiseFan(v) == Raise("fan", "set_fan_speed", v)

\* _next_relative_climate_temperature_read,
\* _materialize_relative_climate_temperature_goal_parameter: the zone has one temperature.
RaiseTemperature(v) == Raise("temperature", "set_climate_temperature", v)

\* _materialize_relative_seat_heating_goal_parameters: the seats that are occupied are
\* on one level, with room for the change.
SeatHeatTarget(v) == Require(v.seatHeat = "fits" /\ v.occupancy = "known", Limit)

\* _next_relative_seat_heating_read: one read after the other.
RaiseSeatHeat(v) ==
  Fetch({"seatHeat"}) \o Fetch({"occupancy"}) \o SeatHeatTarget(v)
  \o Tools \o Do(<<"set_seat_heating">>)

\* _materialize_contextual_slot_parameters: the one window that is fully open is meant.
WindowMeant(v) == When(v.windows # "unique", Ask("window"))

\* _next_contextual_slot_read.
CloseWindow(v) == Fetch({"windows"}) \o WindowMeant(v) \o Do(<<"open_close_window">>)

\* _next_sunshade_match_read: the sunshade goes where the sunroof is.
MatchSunshade(v) == Verify("roof", v) \o Tools \o Do(<<"set_sunshade_position">>)

\* _next_preference_read: a parameter the request leaves open may be a preference.
Preference(v) == Fetch({"preference"})

\* _next_live_parameter_clarification: otherwise the user is asked for one of the
\* values the schema allows, if it lists them.
MissingParameter(v) ==
  When(v.preference # "one",
       Given({"domain"}) \o Require(v.domain = "options", Limit) \o Ask("option"))

SetAirCirculation(v) ==
  Preference(v) \o MissingParameter(v) \o Tools \o Do(<<"set_air_circulation">>)

-----------------------------------------------------------------------------
(* Questions.                                                              *)

\* _next_seat_occupancy_information_workflow, with the climate settings on request.
DescribeSeats(v) ==
  Tools \o Given({"withClimate"})
  \o Fetch({"occupancy"} \cup IF v.withClimate = "yes" THEN {"fan"} ELSE {})
  \o Require(v.occupancy # "bad" /\ (v.withClimate = "yes" => v.fan # "bad"), Limit)
  \o Reply(Info)

\* _next_climate_settings_info_workflow.
DescribeClimate(v) == Verify("fan", v) \o Reply(Info)

\* _next_comprehensive_charging_info_workflow.
DescribeBattery(v) == Verify("battery", v) \o Reply(Info)

\* _next_soc_to_empty_workflow: until empty only when the schema says that is meant.
DistanceToEmpty(v) == Tools \o Verify("toEmpty", v) \o Reply(Info)

\* _next_grounded_range_read: the range between two charges the user names.
DescribeRange(v) == Verify("range", v) \o Reply(Info)

\* _next_current_day_calendar_read.
DescribeDay(v) == Verify("calendar", v) \o Reply(Info)

\* _next_current_navigation_read; _observed_navigation_summary gives none of a state
\* that is malformed.
DescribeNavigation(v) == Tools \o Verify("state", v) \o Reply(Info)

CabinRequests ==
  {"headlights", "fogLights", "ambientLights", "readingLights", "syncTemperature", "syncZone",
   "warmDriver", "raiseFan", "raiseTemperature", "raiseSeatHeat", "closeWindow",
   "matchSunshade", "setAirCirculation",
   "describeSeats", "describeClimate", "describeBattery", "distanceToEmpty",
   "describeRange", "describeDay", "describeNavigation"}

\* Warming the driver and setting a zone have a goal for each control.
CabinGoals ==
  [warmDriver |-> {"climate", "seat", "steering"}, syncZone |-> {"climate", "seat"}]

CabinSteps(r, v, d) ==
  CASE r = "headlights" -> Headlights(v)
    [] r = "fogLights" -> FogLights(v)
    [] r = "ambientLights" -> AmbientLights(v)
    [] r = "readingLights" -> ReadingLights(v)
    [] r = "syncTemperature" -> SyncTemperature(v)
    [] r = "syncZone" -> SyncZone(v, d)
    [] r = "warmDriver" -> WarmDriver(v, d)
    [] r = "raiseFan" -> RaiseFan(v)
    [] r = "raiseTemperature" -> RaiseTemperature(v)
    [] r = "raiseSeatHeat" -> RaiseSeatHeat(v)
    [] r = "closeWindow" -> CloseWindow(v)
    [] r = "matchSunshade" -> MatchSunshade(v)
    [] r = "setAirCirculation" -> SetAirCirculation(v)
    [] r = "describeSeats" -> DescribeSeats(v)
    [] r = "describeClimate" -> DescribeClimate(v)
    [] r = "describeBattery" -> DescribeBattery(v)
    [] r = "distanceToEmpty" -> DistanceToEmpty(v)
    [] r = "describeRange" -> DescribeRange(v)
    [] r = "describeDay" -> DescribeDay(v)
    [] r = "describeNavigation" -> DescribeNavigation(v)
=============================================================================
