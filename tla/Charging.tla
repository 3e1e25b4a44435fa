------------------------------ MODULE Charging ------------------------------
(***************************************************************************)
(* The workflows about the range of a trip and the charging on the way.    *)
(*                                                                         *)
(* A request of this family stores a summary derived from its reads, and   *)
(* the next one goes on only while that summary is of the present state.   *)
(* A summary is represented by the things it was derived from, which the   *)
(* next request takes over.                                                *)
(***************************************************************************)
EXTENDS Navigation

Good == {"good", "bad"}

\* _trip_charger_assessment: the one charger with the highest power that is free.
Chargers == {"reachable", "beyond", "bad"}

\* _active_route_first_segment: the route that is followed from where the car is;
\* changed: not as the last edit of the navigation left it.
Segments == {"fits", "changed", "bad"}

ChargingValues ==
  [tripAsked |-> {"preview", "range", "together", "choice"},  \* together: read in parallel
   battery |-> {"enough", "short", "bad"},    \* the range against the trip
   tripPlace |-> Good, tripRoutes |-> Good, tripRoute |-> {"first", "second"},
   kilometre |-> {"onRoute", "outside"}, goOn |-> {"show", "email"},
   tripChargers |-> Chargers,
   fullName |-> {"fits", "open"},             \* does the request name one contact
   people |-> {"one", "several", "bad"}, person |-> {"first", "second"}, personInfo |-> Good,
   charger |-> {"one", "other"}, legs |-> {"named", "other"},   \* in the user's words
   localChargers |-> Good, localTime |-> Good, toCharger |-> Good, fullRange |-> Good,
   fromCharger |-> Good, localRoute |-> {"unique", "other"},
   activeState |-> Segments,
   activeAsked |-> {"check", "search", "other"},  \* other: another charge than the car's
   offer |-> {"named", "immediate", "late"},  \* how the call of a charger is asked for
   activeChargers |-> Chargers, buffer |-> Good, bufferChargers |-> Good,
   today |-> Good, nearby |-> Good, plug |-> {"accepted", "other"},
   meetingPlace |-> Good, direct |-> Good, leg |-> Good, lastLeg |-> {"good", "late", "bad"},
   minimum |-> {"fits", "long", "bad"}, condition |-> {"open", "met", "unmet"},
   completion |-> {"recorded", "other"}, maximum |-> {"met", "unmet"}]

ChargingParents ==
  [tripRoutes |-> {"tripPlace"}, tripRoute |-> {"tripRoutes"},
   tripChargers |-> {"tripRoutes", "kilometre"}, personInfo |-> {"people", "person"},
   localTime |-> {"localChargers", "charger"}, toCharger |-> {"localChargers"},
   fromCharger |-> {"localChargers", "tripPlace"},
   activeChargers |-> {"activeState", "battery"},
   bufferChargers |-> {"activeState", "buffer"},
   direct |-> {"meetingPlace"}, leg |-> {"nearby"}, lastLeg |-> {"nearby", "meetingPlace"},
   minimum |-> {"battery", "leg", "lastLeg"}]

-----------------------------------------------------------------------------
(* The trip.                                                               *)

\* _validated_trip_route_summary, and with a range that is too short.
TripSummary(v) == v.tripPlace = "good" /\ v.tripRoutes = "good"
Shortfall(v) == TripSummary(v) /\ v.battery = "short"

\* The range and the destination, one after the other or both at once.
RangeAndPlace(v) ==
  When(v.tripAsked = "together", Fetch({"tripPlace", "battery"}))
  \o When(v.tripAsked # "preview", Verify("battery", v))
  \o Verify("tripPlace", v)

\* _next_trip_range_workflow.
Trip(v) ==
  Given({"tripAsked"})
  \o RangeAndPlace(v) \o Verify("tripRoutes", v)
  \o When(v.tripAsked = "choice", Ask("tripRoute"))
  \o Reply(IF v.tripAsked = "preview" THEN Shown ELSE Info)

\* _validated_trip_charger_summary.
ChargerSummary(v) == Shortfall(v) /\ v.tripChargers = "reachable"

\* The contact who gets the email: one the request names in full, or the user is
\* asked.
Addressee(v) ==
  Given({"fullName"}) \o Verify("people", v)
  \o When(v.fullName = "open", Ask("person"))

\* _next_trip_email_workflow.
TripEmail(v) ==
  Tools \o Require(ChargerSummary(v), Limit)
  \o Addressee(v) \o Verify("personInfo", v)
  \o Do(<<"send_email">>)

\* What is known of the trip may already settle the request for a charger.
ChargerAsked(v) ==
  Require(TripSummary(v), Limit)
  \o Require(v.battery # "enough", Info)
  \o Given({"kilometre"}) \o Require(v.kilometre = "onRoute", Limit)

\* The charge is read when the trip was only previewed.
TripStatus(v) == Verify("battery", v) \o Require(v.battery = "short", Info)

\* _next_trip_charger_workflow.
TripCharger(v) ==
  ChargerAsked(v) \o TripStatus(v)
  \o Verify("tripChargers", v) \o Require(v.tripChargers = "reachable", Limit)
  \o Given({"goOn"})
  \o IF v.goOn = "email" THEN TripEmail(v) ELSE Reply(Shown)

-----------------------------------------------------------------------------
(* Charging at the place where the car is.                                 *)

\* _validated_displayed_local_charging_options.
Displayed(v) == v.localChargers = "good" /\ TripSummary(v)

\* _validated_selected_local_charging_plan: the charger that was chosen for the trip.
LocalPlan(v) == Displayed(v) /\ v.localTime = "good" /\ v.toCharger = "good"

\* _next_local_charging_search_workflow.
LocalSearch(v) == Require(TripSummary(v), Limit) \o Verify("localChargers", v) \o Reply(Shown)

\* _charging_selection_request: one of the chargers that were shown, and the charge the
\* car has, as far as the request names it.
ChargerSelected(v) ==
  Require(Displayed(v) /\ v.battery \in {"enough", "short"}, Limit)
  \o Given({"charger"}) \o Require(v.charger = "one", Limit)

\* _next_local_charging_estimate_workflow.
LocalEstimate(v) ==
  ChargerSelected(v)
  \o Fetch({"localTime", "toCharger"})
  \o Require(v.localTime = "good" /\ v.toCharger = "good", Limit)
  \o Reply(Info)

\* _charging_stop_navigation_constraints: the request names the two legs.
LegsNamed(v) ==
  Require(LocalPlan(v), Limit) \o Given({"legs"}) \o Require(v.legs = "named", Limit)

\* _next_charging_stop_navigation_workflow: by the charger to the destination.
ChargingStop(v) ==
  LegsNamed(v)
  \o Fetch({"state"}) \o Require(v.state = "off", Conflict)
  \o Verify("fromCharger", v)
  \o Given({"localRoute"}) \o Require(v.localRoute = "unique", Limit)
  \o Do(<<"set_new_navigation">>)

-----------------------------------------------------------------------------
(* The email about a trip with local charging: four phases of              *)
(* _next_local_trip_email_workflow, each a request of its own.             *)

\* _validated_local_trip_email_context.
EmailContext(v) == TripSummary(v) /\ v.people = "one" /\ v.personInfo = "good"

\* _validated_local_trip_email_charge_summary.
ChargeSummary(v) ==
  EmailContext(v) /\ Shortfall(v) /\ Displayed(v)
  /\ v.localTime = "good" /\ v.fullRange = "good"

LocalEmailStart(v) ==
  Fetch({"tripPlace", "people"})
  \o Require(v.tripPlace = "good" /\ v.people = "one", Limit)
  \o Fetch({"tripRoutes", "personInfo"}) \o Require(EmailContext(v), Limit)
  \o Reply(Shown)

LocalEmailRange(v) ==
  Require(EmailContext(v), Limit)
  \o Fetch({"battery"}) \o Reply(Info)

LocalEmailCharge(v) ==
  Require(EmailContext(v) /\ Shortfall(v), Limit) \o ChargerSelected(v)
  \o Fetch({"localTime", "fullRange"})
  \o Require(v.localTime = "good" /\ v.fullRange = "good", Limit)
  \o Reply(Info)

LocalEmailSend(v) ==
  Require(ChargeSummary(v), Limit) \o Tools \o Do(<<"send_email">>)

-----------------------------------------------------------------------------
(* Charging on the route that is being followed.                           *)

\* _validated_active_route_charging_summary.
ActiveSummary(v) == v.battery \in {"enough", "short"} /\ v.activeState = "fits"

\* The battery and the route, which must be the one that the last edit made.
ActiveRoute(v) ==
  Fetch({"battery"}) \o Fetch({"activeState"}) \o Require(ActiveSummary(v), Limit)
  \o Given({"activeAsked"}) \o Require(v.activeAsked # "other", Limit)

\* _next_active_route_charging_workflow.
ActiveCharging(v) ==
  Tools \o ActiveRoute(v)
  \o Require(v.battery = "short" /\ v.activeAsked = "search", Info)
  \o Given({"kilometre"}) \o Require(v.kilometre = "onRoute", Limit)
  \o Verify("activeChargers", v) \o Require(v.activeChargers = "reachable", Limit)
  \o Reply(Shown)

\* _next_active_route_buffer_search: near the point where the charge has sunk so far.
BufferSearch(v) ==
  Require(ActiveSummary(v) /\ v.battery = "short", Limit)
  \o Tools \o ActiveRoute(v)
  \o Verify("buffer", v) \o Verify("bufferChargers", v)
  \o Reply(Shown)

\* _validated_active_route_charger_summary: the charger that was found for this route.
ActiveCharger(v) ==
  ActiveSummary(v) /\ (v.activeChargers = "reachable" \/ v.bufferChargers = "good")

\* _handle_active_route_charger_call_request: the user names the charger, or answers the
\* offer of its number in the very next turn.
CallCharger(v) ==
  Require(ActiveCharger(v), Limit)
  \o Given({"offer"}) \o Require(v.offer # "late", Limit)
  \o Tools \o Do(<<"call_phone_by_number">>)

-----------------------------------------------------------------------------
(* Charging before the next meeting.                                       *)

\* The next meeting, the charger nearby with the highest power, and the range.
MeetingDiscovered(v) == v.today = "good" /\ v.nearby = "good" /\ v.battery \in {"enough", "short"}

\* The discovery phase of _next_meeting_charging_workflow.
MeetingCharging(v) ==
  Fetch({"today", "battery", "nearby"}) \o Require(MeetingDiscovered(v), Limit) \o Reply(Shown)

\* _validated_meeting_charging_analysis.
MeetingAnalysed(v) == MeetingDiscovered(v) /\ v.lastLeg = "good" /\ v.minimum = "fits"

\* Mutant of NavigateByCharger: the navigation state is read and not looked at.
NavigateAnyway(v) ==
  Require(MeetingAnalysed(v), Limit)
  \o Require(v.condition = "met", Limit)
  \o Fetch({"state"})
  \o Do(<<"set_new_navigation">>)

\* _next_meeting_charging_navigation.
NavigateByCharger(v) ==
  Require(MeetingAnalysed(v), Limit)
  \o Require(v.condition = "met", Limit)
  \o Fetch({"state"}) \o Require(v.state = "off", Conflict)
  \o Do(<<"set_new_navigation">>)

\* The user accepts the charger that was found although it is occupied.
PlugAccepted(v) ==
  Require(MeetingDiscovered(v), Limit)
  \o Given({"plug", "condition"}) \o Require(v.plug = "accepted", Limit)

\* The ways to the meeting, directly and by the charger, must leave time to charge.
MeetingRoutes(v) ==
  Verify("meetingPlace", v)
  \o Fetch({"direct"}) \o Fetch({"leg"}) \o Fetch({"lastLeg"})
  \o Require({v.direct, v.leg, v.lastLeg} = {"good"}, Limit)

MinimumTime(v) == Verify("minimum", v) \o Require(v.minimum = "fits", Limit)

\* _next_meeting_charging_analysis, which goes on to the navigation when the request
\* asked for both.
MeetingAnalysis(v) ==
  PlugAccepted(v) \o MeetingRoutes(v) \o MinimumTime(v)
  \o Require(v.condition # "open", Info)
  \o NavigateByCharger(v)

MeetingNavigation(v) == Given({"condition"}) \o NavigateByCharger(v)

\* _record_meeting_charging_navigation_completion: that it was done is recorded for the
\* state after the change, when the result fits.
ChargingClosing(r) ==
  When(r \in {"meetingAnalysis", "meetingNavigation"}, Given({"completion"}))

\* _validated_meeting_charging_navigation_completion: that navigation was set, and the
\* car is in the state it left.
NavigationCompleted(v) == v.completion = "recorded"

\* The call to reserve the charger, on a condition the user states.
MeetingCall(v) ==
  Require(NavigationCompleted(v), Limit)
  \o Given({"maximum"}) \o Require(v.maximum = "met", Limit)
  \o Do(<<"call_phone_by_number">>)

\* What the summaries that a request uses were derived from.
ChargingKept ==
  LET trip == {"tripPlace", "tripRoutes", "battery"}
      addressee == {"people", "personInfo"}
      local == trip \cup {"localChargers", "localTime", "toCharger", "fullRange"}
      meeting == {"today", "nearby", "battery", "lastLeg", "minimum"}
  IN [tripCharger |-> trip, tripEmail |-> trip \cup {"tripChargers"},
      localSearch |-> trip \cup addressee, localEstimate |-> trip \cup {"localChargers"},
      chargingStop |-> local,
      localEmailRange |-> (trip \cup addressee) \ {"battery"},
      localEmailCharge |-> trip \cup addressee \cup {"localChargers"},
      localEmailSend |-> local \cup addressee,
      activeCharging |-> {"battery", "activeState"}, bufferSearch |-> {"battery", "activeState"},
      callCharger |-> {"battery", "activeState", "activeChargers", "bufferChargers"},
      meetingAnalysis |-> meeting, meetingNavigation |-> meeting,
      meetingCall |-> {"completion"}]

ChargingRequests ==
  {"trip", "tripCharger", "tripEmail", "localSearch", "localEstimate", "chargingStop",
   "localEmailStart", "localEmailRange", "localEmailCharge", "localEmailSend",
   "activeCharging", "bufferSearch", "callCharger",
   "meetingCharging", "meetingAnalysis", "meetingNavigation", "meetingCall"}

ChargingSteps(r, v) ==
  CASE r = "trip" -> Trip(v)
    [] r = "tripCharger" -> TripCharger(v)
    [] r = "tripEmail" -> TripEmail(v)
    [] r = "localSearch" -> LocalSearch(v)
    [] r = "localEstimate" -> LocalEstimate(v)
    [] r = "chargingStop" -> ChargingStop(v)
    [] r = "localEmailStart" -> LocalEmailStart(v)
    [] r = "localEmailRange" -> LocalEmailRange(v)
    [] r = "localEmailCharge" -> LocalEmailCharge(v)
    [] r = "localEmailSend" -> LocalEmailSend(v)
    [] r = "activeCharging" -> ActiveCharging(v)
    [] r = "bufferSearch" -> BufferSearch(v)
    [] r = "callCharger" -> CallCharger(v)
    [] r = "meetingCharging" -> MeetingCharging(v)
    [] r = "meetingAnalysis" -> MeetingAnalysis(v)
    [] r = "meetingNavigation" -> MeetingNavigation(v)
    [] r = "meetingCall" -> MeetingCall(v)
=============================================================================
