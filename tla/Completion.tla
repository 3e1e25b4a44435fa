----------------------------- MODULE Completion -----------------------------
(***************************************************************************)
(* How the answer to a call that changes the car is judged                 *)
(* (car_guard/runtime/completion.py).  That the answer says SUCCESS is not *)
(* enough: it must report the values that were asked for, by the contract  *)
(* of the tool.                                                            *)
(*                                                                         *)
(* Arguments and results are functions from the names of fields to values. *)
(***************************************************************************)
EXTENDS Naturals, Sequences

CONSTANTS Unknown,  \* null, or one of the words for it
          Other     \* a value of a type the field does not have

\* _FieldRule: how the value of the first of the fields that is there compares with an
\* argument, or with nothing ("").
Compare(how, argument, fields) ==
  [how |-> how, argument |-> argument, fields |-> fields, optional |-> FALSE]
Exact(a) == Compare("exact", a, <<a>>)
Constant(how, fields) == Compare(how, "", fields)
Optional(rule) == [rule EXCEPT !.optional = TRUE]

\* The lists of a navigation, by the two names of each.
Stops == <<"new_waypoints", "new_waypoints_id">>
Legs == <<"new_routes", "new_routes_id">>
StopsOfAdd == <<"new_waypoints_id", "new_waypoints">>
LegsOfAdd == <<"new_routes_id", "new_routes">>

\* What an edit expects of the navigation is compared when it is known.
Expected(argument, fields) == Optional(Compare("exact", argument, fields))

\* _SPECS
Specs ==
  [open_close_window |-> <<Exact("window"), Exact("percentage")>>,
   open_close_sunroof |-> <<Exact("percentage")>>,
   open_close_sunshade |-> <<Exact("percentage")>>,
   open_close_trunk_door |-> <<Exact("action")>>,
   set_air_conditioning |-> <<Exact("on")>>,
   set_air_circulation |-> <<Exact("mode")>>,
   set_climate_temperature |-> <<Exact("temperature"), Exact("seat_zone")>>,
   set_fan_speed |-> <<Exact("level")>>,
   set_fan_airflow_direction |-> <<Exact("direction")>>,
   set_window_defrost |-> <<Exact("on"), Exact("defrost_window")>>,
   set_seat_heating |-> <<Exact("level"), Exact("seat_zone")>>,
   set_steering_wheel_heating |-> <<Exact("level")>>,
   set_fog_lights |-> <<Exact("on")>>,
   set_head_lights_low_beams |-> <<Exact("on")>>,
   set_head_lights_high_beams |-> <<Exact("on")>>,
   set_reading_light |-> <<Exact("position")>>,
   set_ambient_lights |->
     <<Exact("on"), Compare("exact", "lightcolor", <<"lightcolor", "light_color">>)>>,
   set_new_navigation |-> <<Constant("true", <<"navigation_set">>)>>,
   delete_current_navigation |->
     <<Constant("false", <<"navigation_active">>),
       Constant("empty", Stops), Constant("empty", Legs)>>,
   navigation_add_one_waypoint |->
     <<Constant("true", <<"waypoint_added">>),
       Compare("contains", "waypoint_id_to_add", StopsOfAdd),
       Optional(Compare("contains", "waypoint_id_after_new_waypoint", StopsOfAdd)),
       Compare("contains", "route_id_leading_to_new_waypoint", LegsOfAdd),
       Optional(Compare("contains", "route_id_leading_away_from_new_waypoint", LegsOfAdd)),
       Expected("expected_post_waypoint_ids", StopsOfAdd),
       Expected("expected_post_route_ids", LegsOfAdd)>>,
   navigation_delete_destination |->
     <<Constant("true", <<"destination_deleted">>),
       Compare("absent", "destination_id_to_delete", Stops)>>,
   navigation_delete_waypoint |->
     <<Constant("true", <<"waypoint_deleted">>),
       Compare("absent", "waypoint_id_to_delete", Stops),
       Compare("contains", "route_id_without_waypoint", Legs),
       Expected("expected_post_waypoint_ids", Stops),
       Expected("expected_post_route_ids", Legs)>>,
   navigation_replace_final_destination |->
     <<Constant("true", <<"destination_replaced">>),
       Compare("last", "new_destination_id", Stops),
       Compare("last", "route_id_leading_to_new_destination", Legs),
       Expected("expected_post_waypoint_ids", Stops),
       Expected("expected_post_route_ids", Legs)>>,
   navigation_replace_one_waypoint |->
     <<Constant("true", <<"waypoint_replaced">>),
       Compare("absent", "waypoint_id_to_replace", Stops),
       Compare("contains", "new_waypoint_id", Stops),
       Compare("contains", "route_id_leading_to_new_waypoint", Legs),
       Compare("contains", "route_id_leading_away_from_new_waypoint", Legs),
       Expected("expected_post_waypoint_ids", Stops),
       Expected("expected_post_route_ids", Legs)>>,
   send_email |-> <<Constant("true", <<"email_sent">>)>>,
   call_phone_by_number |-> <<Constant("true", <<"phone_number_called">>)>>]

\* marker_covers_unmapped_arguments: one field stands for all that was asked.
Marked ==
  {"set_new_navigation", "navigation_add_one_waypoint", "send_email", "call_phone_by_number"}

-----------------------------------------------------------------------------
(* The judgement.                                                          *)

\* _field_value: no rule has more than two fields.
Field(returned, fields) ==
  IF fields[1] \in DOMAIN returned THEN returned[fields[1]]
  ELSE IF fields[Len(fields)] \in DOMAIN returned THEN returned[fields[Len(fields)]]
  ELSE Unknown

Given(rule, arguments) ==
  rule.argument \in DOMAIN arguments /\ (rule.optional => arguments[rule.argument] # Unknown)

Among(x, list) == \E k \in DOMAIN list : list[k] = x

\* _rule_matches
Matches(rule, value, arguments) ==
  CASE rule.how = "true" -> value = TRUE
    [] rule.how = "false" -> value = FALSE
    [] rule.how = "empty" -> value = <<>>
    [] rule.how = "exact" -> value = arguments[rule.argument]
    [] OTHER ->
         /\ value # Other
         /\ CASE rule.how = "contains" -> Among(arguments[rule.argument], value)
              [] rule.how = "absent" -> ~Among(arguments[rule.argument], value)
              [] rule.how = "last" ->
                   value # <<>> /\ value[Len(value)] = arguments[rule.argument]

\* The verdict on one field.
Verdict(rule, arguments, returned) ==
  IF rule.argument # "" /\ ~Given(rule, arguments)
  THEN IF rule.optional THEN "success" ELSE "unverifiable"
  ELSE LET value == Field(returned, rule.fields)
       IN  CASE value = Unknown -> "unverifiable"
             [] value # Unknown /\ Matches(rule, value, arguments) -> "success"
             [] OTHER -> "inconsistent"

Covered(rules, arguments) ==
  {rules[k].argument : k \in {j \in DOMAIN rules : Given(rules[j], arguments)}}

Distinct(list) == \A j, k \in DOMAIN list : list[j] = list[k] => j = k

\* _valid_navigation_delete_result
ValidAfterDelete(returned) ==
  LET stops == Field(returned, Stops)
      legs == Field(returned, Legs)
  IN  /\ stops \notin {Unknown, Other} /\ legs \notin {Unknown, Other}
      /\ Len(stops) >= 2 /\ Len(legs) = Len(stops) - 1
      /\ Distinct(stops) /\ Distinct(legs)

\* The fields in the order of the contract: the first that does not fit decides.
Compared(tool, arguments, returned) ==
  LET rules == Specs[tool]
      V(k) == Verdict(rules[k], arguments, returned)
  IN  CASE \E k \in DOMAIN rules :
             V(k) = "inconsistent" /\ \A j \in 1..(k - 1) : V(j) = "success" -> "inconsistent"
        [] \A k \in DOMAIN rules : V(k) = "success" ->
             IF DOMAIN arguments \ Covered(rules, arguments) # {} /\ tool \notin Marked
             THEN "unverifiable"
             ELSE IF tool = "navigation_delete_waypoint" /\ ~ValidAfterDelete(returned)
             THEN "inconsistent" ELSE "success"
        [] OTHER -> "unverifiable"

\* SetCompletionValidator.validate.  An answer that cannot be read, a status that is
\* missing or not known, and a result that is no object, verify nothing.
validate(tool, arguments, raw) ==
  CASE ~raw.readable -> "unverifiable"
    [] raw.readable /\ raw.errors ->
         IF raw.status = "success" THEN "inconsistent" ELSE "failure"
    [] raw.readable /\ ~raw.errors /\ raw.status = "failure" -> "failure"
    [] raw.readable /\ ~raw.errors /\ raw.status = "success"
         /\ raw.object /\ tool \in DOMAIN Specs -> Compared(tool, arguments, raw.returned)
    [] OTHER -> "unverifiable"
=============================================================================
