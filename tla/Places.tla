------------------------------- MODULE Places -------------------------------
(***************************************************************************)
(* The workflows that search for places, and what the user can do with the *)
(* places that were shown: navigate to one or call one.                    *)
(***************************************************************************)
EXTENDS Navigation

PlaceValues ==
  [added |-> {"no", "kept", "changed"},   \* the route since a waypoint was added
   schema |-> {"fits", "misfits"},
   places |-> {"hours", "plain", "bad"},  \* hours: several, each with opening hours
   stopPlaces |-> {"hours", "plain", "bad"},
   finalPlaces |-> {"hours", "plain", "bad"},
   pick |-> {"name", "longest", "other"}, \* which of the places that were shown
   same |-> {"yes", "no"},                \* the place is the destination already
   routeToPlace |-> {"several", "bad"}]

PlaceParents ==
  [places |-> {"location"}, stopPlaces |-> {"state"}, finalPlaces |-> {"state"},
   routeToPlace |-> {"state", "pick"}]

\* A reading of a search is shown only when every place in it can be named and called.
ShowPlaces(places, v) == Verify(places, v) \o Reply(Shown)

\* _next_navigation_stop_poi_workflow: at the next stop.
PlacesAtStop(v) ==
  Tools \o Given({"added"}) \o ActiveNavigation(v)
  \o Require(v.state \in {"three", "four"} /\ v.added # "changed", Limit)
  \o ShowPlaces("stopPlaces", v)

\* _next_current_destination_poi_workflow.
PlacesAtDestination(v) ==
  Tools \o ActiveNavigation(v) \o ShowPlaces("finalPlaces", v)

\* _next_named_poi_workflow: at a place the user named.
PlacesAtLocation(v) ==
  Tools \o Given({"schema"})
  \o Fetch({"location"}) \o Require(v.location # "bad", Limit)
  \o Require(v.schema = "fits", Limit)
  \o ShowPlaces("places", v)

\* Which of the places that were shown is meant.  They must be of the present state;
\* comparing opening hours needs them.
Picked(v) ==
  Require(v.places \in {"hours", "plain"}, Limit)
  \o Given({"pick"})
  \o Require(v.pick = "name" \/ (v.pick = "longest" /\ v.places = "hours"), Limit)

\* _handle_displayed_poi_navigation_request with
\* _next_displayed_poi_navigation_workflow.  The search at a stop or at the destination
\* leaves places that cannot be navigated to: their location is a navigation state,
\* not the location that was resolved.
NavigateToPlace(v) ==
  Picked(v) \o Tools
  \o ActiveNavigation(v)
  \o Given({"same"}) \o Require(v.same = "no", Limit)
  \o RouteOptions("routeToPlace", v)
  \o Ask("route")
  \o Do(<<"navigation_replace_final_destination">>)

\* _handle_displayed_poi_call_request: any place shown in the present state, by name.
CallPlace(v) ==
  Tools
  \o Require(\E shown \in {v.places, v.stopPlaces, v.finalPlaces} : shown \in {"hours", "plain"},
             Limit)
  \o Given({"pick"}) \o Require(v.pick = "name", Limit)
  \o Do(<<"call_phone_by_number">>)

\* What a request uses of the one before, as long as the state is the same: the places
\* that were shown, or the route and the place that were read to search there.
PlacesKept ==
  [navigateToPlace |-> {"places", "location"},
   callPlace |-> {"places", "stopPlaces", "finalPlaces"},
   replaceWaypoint |-> {"state", "location"}]

PlaceRequests ==
  {"placesAtStop", "placesAtDestination", "placesAtLocation", "navigateToPlace", "callPlace"}

PlaceSteps(r, v) ==
  CASE r = "placesAtStop" -> PlacesAtStop(v)
    [] r = "placesAtDestination" -> PlacesAtDestination(v)
    [] r = "placesAtLocation" -> PlacesAtLocation(v)
    [] r = "navigateToPlace" -> NavigateToPlace(v)
    [] r = "callPlace" -> CallPlace(v)
=============================================================================
