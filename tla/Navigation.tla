----------------------------- MODULE Navigation -----------------------------
(***************************************************************************)
(* The workflows that create, change and resume a navigation.              *)
(*                                                                         *)
(* The values of a navigation state:                                       *)
(*   "off"        not active, no waypoints                                 *)
(*   "stopped"    not active, a route that starts where the car is         *)
(*   "elsewhere"  not active, a route that starts somewhere else           *)
(*   "two"        active, from start to destination                        *)
(*   "three"      active, with one waypoint between                        *)
(*   "four"       active, with two                                         *)
(*   "moved"      active, to another destination than the user named       *)
(*   "bad"        malformed                                                *)
(***************************************************************************)
EXTENDS WorkflowSteps

States == {"off", "stopped", "elsewhere", "two", "three", "four", "moved", "bad"}
Active == {"two", "three", "four", "moved"}

NavigationValues ==
  [state |-> States, fresh |-> States, short |-> States,
   location |-> {"new", "known", "bad"},   \* known: already on the route
   routes |-> {"several", "bad"},          \* at least two, one of them the fastest
   routeTo |-> {"several", "bad"},
   routeFrom |-> {"several", "bad"},
   detour |-> {"best", "several", "bad"},  \* best: one is both fastest and shortest
   said |-> {"unnamed", "named", "misnamed"},   \* how the request names what is there
   alias |-> {"open", "fits", "misfits"},  \* a route named in the request itself
   place |-> {"end", "between", "nowhere"},     \* nowhere: after no place on the route
   stop |-> {"none", "first", "second", "other"},   \* the waypoint that is named
   route |-> {"first", "second"}, waypoint |-> {"first", "second"}]

NavigationParents ==
  [routes |-> {"location"}, routeTo |-> {"state", "location", "place", "waypoint"},
   routeFrom |-> {"state", "location", "place", "waypoint"}, detour |-> {"state", "stop"},
   fresh |-> {}, route |-> {"routes", "detour"}, waypoint |-> {"state"}]

-----------------------------------------------------------------------------
(* What is read.                                                           *)

\* _navigation_state_view: the route that is being followed.
ActiveNavigation(v) == Fetch({"state"}) \o Require(v.state \in Active, Limit)

\* _resumable_navigation_snapshot: the route of a navigation that was ended, which must
\* start where the car is.
StoppedNavigation(v) ==
  Require(v.state # "bad", Limit) \o Require(v.state = "stopped", Conflict)

\* Route options are complete and consistent, or the workflow ends.
RouteOptions(options, v) == Verify(options, v)

\* A route that the request itself names is one of the options.
NamedRoute(v) == Require(v.alias # "misfits", Limit)

\* The user is asked for the route unless the request named it.
ChooseRoute(v) == When(v.alias = "open", Ask("route")) \o NamedRoute(v)

-----------------------------------------------------------------------------
(* Creating and resuming.                                                  *)

\* _next_navigation_create_workflow.
Create(v) ==
  Tools \o Given({"alias"})
  \o Fetch({"state"}) \o Require(v.state = "off", Conflict)
  \o Fetch({"location"}) \o Require(v.location = "new", Limit)
  \o RouteOptions("routes", v)
  \o ChooseRoute(v)
  \o Do(<<"set_new_navigation">>)

\* _next_navigation_resume_workflow.
Resume(v) ==
  Tools
  \o Fetch({"state"})
  \o Require(v.state \notin Active \cup {"off"}, Info)
  \o StoppedNavigation(v)
  \o Do(<<"set_new_navigation">>)

-----------------------------------------------------------------------------
(* Replacing the destination.                                              *)

\* The destination that is replaced may be named in the request.
NamedFinal(v) == Require(v.said = "named" => v.state # "moved", Again)

OldDestination(v) ==
  Tools \o Given({"said", "alias"})
  \o Require(v.said # "misnamed", Again)
  \o ActiveNavigation(v) \o NamedFinal(v)

NewDestination(v) ==
  Fetch({"location"}) \o Require(v.location # "bad", Limit)
  \o Require(v.location = "new", Conflict)
  \o RouteOptions("routes", v)
  \o ChooseRoute(v)

\* When the user named the old destination, the state is read again after the
\* choice, and must be the one the choice was made for.
Reverified(v) ==
  When(v.said = "named", Fetch({"fresh"}) \o Require(v.fresh = v.state, Again))

\* _next_destination_replace_workflow.
ReplaceDestination(v) ==
  OldDestination(v) \o NewDestination(v) \o Reverified(v)
  \o Renew("state") \o Do(<<"navigation_replace_final_destination">>)

-----------------------------------------------------------------------------
(* Waypoints.                                                              *)

\* Where the new waypoint goes.
Place(v) == Require(v.place # "nowhere", Limit)

\* _next_navigation_add_workflow: after a named place, or at the end, where no
\* second route is needed.
AddWaypoint(v) ==
  Tools \o Given({"place", "alias"})
  \o ActiveNavigation(v) \o Place(v)
  \o Fetch({"location"}) \o Require(v.location = "new", Limit)
  \o RouteOptions("routeTo", v) \o NamedRoute(v)
  \o When(v.place = "between", RouteOptions("routeFrom", v))
  \o Do(<<"navigation_add_one_waypoint">>)

\* The waypoints that can be named, in their order on the route.
KnownWaypoint(v) == \/ v.stop = "first" /\ v.state \in {"three", "four"}
                    \/ v.stop = "second" /\ v.state = "four"

\* The branch of _next_navigation_edit_workflow that deletes a waypoint.  One
\* route that is both fastest and shortest needs no question.
DeleteNamedWaypoint(v) ==
  Require(KnownWaypoint(v), Limit)
  \o RouteOptions("detour", v)
  \o When(v.detour = "several" \/ v.alias # "open", ChooseRoute(v))
  \o Do(<<"navigation_delete_waypoint">>)

DeleteWaypoint(v) ==
  Tools \o Given({"stop", "alias"}) \o ActiveNavigation(v) \o DeleteNamedWaypoint(v)

\* Its branch that deletes the destination.  A name that is not the destination's
\* may be a waypoint's, and the request becomes one to delete that.
DeleteDestination(v) ==
  Tools \o Given({"said", "stop", "alias"})
  \o ActiveNavigation(v)
  \o Require(v.state \in {"three", "four"}, Conflict)
  \o IF v.said = "misnamed" /\ KnownWaypoint(v) THEN DeleteNamedWaypoint(v)
     ELSE Require(v.said # "misnamed", Limit)
          \o Fetch({"short"}) \o Require(v.short = v.state, Limit)
          \o Do(<<"navigation_delete_destination">>)

\* Which waypoint is meant: the one named, the only one, or the user is asked.
MeantWaypoint(v) ==
  Require(v.state \in {"three", "four"} /\ (v.stop = "none" \/ KnownWaypoint(v)), Limit)
  \o When(v.stop = "none" /\ v.state = "four", Ask("waypoint"))

\* Its branch that replaces a waypoint.
ReplaceWaypoint(v) ==
  Tools \o Given({"stop", "alias"})
  \o ActiveNavigation(v)
  \o MeantWaypoint(v)
  \o Fetch({"location"}) \o Require(v.location # "bad", Limit)
  \o RouteOptions("routeTo", v) \o NamedRoute(v)
  \o RouteOptions("routeFrom", v)
  \o Do(<<"navigation_replace_one_waypoint">>)

NavigationRequests ==
  {"create", "resume", "replace", "add", "deleteWaypoint", "deleteDestination",
   "replaceWaypoint"}

NavigationSteps(r, v) ==
  CASE r = "create" -> Create(v)
    [] r = "resume" -> Resume(v)
    [] r = "replace" -> ReplaceDestination(v)
    [] r = "add" -> AddWaypoint(v)
    [] r = "deleteWaypoint" -> DeleteWaypoint(v)
    [] r = "deleteDestination" -> DeleteDestination(v)
    [] r = "replaceWaypoint" -> ReplaceWaypoint(v)
=============================================================================
