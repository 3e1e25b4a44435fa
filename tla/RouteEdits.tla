----------------------------- MODULE RouteEdits -----------------------------
(***************************************************************************)
(* The four edits of a navigation that is followed: what the agent expects *)
(* the waypoints and routes of the car to be after each, how it compares   *)
(* the answer of the car with that, and what it tells the user about tolls.*)
(*                                                                         *)
(* A navigation is [active, waypoints, routes]; a reading of one is        *)
(* [version, navigation, details].  A set of at most one member is a value *)
(* that may be missing.                                                    *)
(***************************************************************************)
EXTENDS Completion, FiniteSets, Integers

CONSTANTS Most,     \* waypoints of a navigation (15)
          Leads,    \* a route of the car: <<where it starts, where it ends>>
          Tolled    \* the routes with a toll

-----------------------------------------------------------------------------
(* What is read.                                                           *)

\* _navigation_state_signature
IsNavigation(n) ==
  /\ Distinct(n.waypoints) /\ Distinct(n.routes)
  /\ IF n.active
     THEN Len(n.waypoints) \in 2..Most /\ Len(n.routes) = Len(n.waypoints) - 1
     ELSE n.waypoints = <<>> /\ n.routes = <<>>

Ordinals == <<"first", "second", "third">>

\* _destination_route_options_from_evidence: two or three routes from one place to
\* another, one of each ordinal; which is fastest and which is shortest is said of one
\* each, and true.
Options(answer, start, end) ==
  LET all == {answer[k] : k \in DOMAIN answer}
      Named(name) == {o \in all : name \in o.names}
  IN  IF /\ Len(answer) \in 2..3
         /\ \A j, k \in DOMAIN answer : answer[j].id = answer[k].id => j = k
         /\ \A o \in all : o.start = start /\ o.end = end
         /\ \A k \in 1..3 : Cardinality(Named(Ordinals[k])) = IF k <= Len(answer) THEN 1 ELSE 0
         /\ \A o \in all : \E k \in 1..3 : Ordinals[k] \in o.names
         /\ \E o \in all : Named("fastest") = {o} /\ \A p \in all : o.minutes <= p.minutes
         /\ \E o \in all : Named("shortest") = {o} /\ \A p \in all : o.km <= p.km
         /\ \A o, p \in all : o.km = p.km /\ o.minutes = p.minutes => o = p
      THEN all ELSE {}

\* _navigation_edit_route_id_from_evidence: the one option of that name.
Chosen(name, answer, start, end) ==
  LET fits == {o \in Options(answer, start, end) : name \in o.names}
  IN  IF Cardinality(fits) = 1 THEN {o.id : o \in fits} ELSE {}

\* _route_options_matching_choice, and no other of the options is as fast or as short.
Matching(name, answer, start, end) ==
  LET all == Options(answer, start, end)
      Tied(o, p) == \/ name = "shortest" /\ o.km = p.km
                    \/ name = "fastest" /\ o.minutes = p.minutes
      fits == {o \in all : name \in o.names /\ \A p \in all \ {o} : ~Tied(o, p)}
  IN  IF Cardinality(fits) = 1 THEN {o.id : o \in fits} ELSE {}

\* Without a name, a deletion takes the route that is both fastest and shortest.
Joining(name, answer, start, end) ==
  IF name # "best" THEN Matching(name, answer, start, end)
  ELSE {o.id : o \in {q \in Options(answer, start, end) : {"fastest", "shortest"} \subseteq q.names}}

\* _destination_navigation_snapshot_is_current: the last of the present readings shows
\* the navigation that was bound to the goal.
SnapshotIsCurrent(bound, readings, now) ==
  LET present == SelectSeq(readings, LAMBDA r : r.version = now)
  IN  /\ present # <<>> /\ IsNavigation(bound)
      /\ present[Len(present)].navigation = bound

-----------------------------------------------------------------------------
(* The edits.                                                              *)

\* The elements to i and from j on stay; others come between.
Splice(s, i, new, j) == SubSeq(s, 1, i) \o (new \o SubSeq(s, j, Len(s)))

\* The waypoints to i and from j on stay, with their routes; new stops and the routes
\* to and from them come between.
Spliced(n, i, j, stops, legs) ==
  [active |-> n.active, waypoints |-> Splice(n.waypoints, i, stops, j),
   routes |-> Splice(n.routes, i - 1, legs, j)]

Final(n) == Len(n.waypoints)

Added(n, i, p, legs) == Spliced(n, i, i + 1, <<p>>, legs)
Replaced(n, i, p, legs) == Spliced(n, i - 1, i + 1, <<p>>, legs)
Deleted(n, i, leg) == Spliced(n, i - 1, i + 1, <<>>, <<leg>>)
DestinationReplaced(n, p, leg) == Replaced(n, Final(n), p, <<leg>>)

\* The new waypoint comes after waypoint i: a route leads to it, and one away from it
\* unless it becomes the destination.  It is nowhere on the route yet.
AfterAdding(n, i, p, name, to, from) ==
  {Added(n, i, p, legs) : legs \in
    IF p \in {n.waypoints[k] : k \in DOMAIN n.waypoints} THEN {}
    ELSE IF i = Final(n) THEN {<<t>> : t \in Chosen(name, to, n.waypoints[i], p)}
    ELSE {<<t, f>> : t \in Chosen(name, to, n.waypoints[i], p),
                     f \in Chosen(name, from, p, n.waypoints[i + 1])}}

\* A waypoint between is replaced; where else the new one is on the route is not asked.
AfterReplacing(n, i, p, name, to, from) ==
  {Replaced(n, i, p, <<t, f>>) : t \in Chosen(name, to, n.waypoints[i - 1], p),
                                 f \in Chosen(name, from, p, n.waypoints[i + 1])}

\* The waypoint is left out; its neighbours are joined.
AfterDeleting(n, i, name, options) ==
  {Deleted(n, i, leg) : leg \in Joining(name, options, n.waypoints[i - 1], n.waypoints[i + 1])}

\* The last route is exchanged with the destination.
AfterReplacingDestination(n, p, name, options) ==
  {DestinationReplaced(n, p, leg) : leg \in Matching(name, options, n.waypoints[Final(n) - 1], p)}

\* _expected_navigation_after_recent_waypoint_add: what an addition just before has
\* made of the one navigation its goal had read.
AfterRecentAdd(goals, now) ==
  LET Old(g) == {k \in DOMAIN g.readings : g.readings[k].version + 1 = now}
      Before(g) == g.readings[CHOOSE k \in Old(g) : TRUE].navigation
      Fits(g, n, i) ==
        LET c == g.adds[1] IN
        /\ IsNavigation(n) /\ n.active
        /\ i < Final(n) /\ n.waypoints[i] = c.before /\ n.waypoints[i + 1] = c.after
        /\ c.added \notin {n.waypoints[k] : k \in DOMAIN n.waypoints}
        /\ Distinct(Added(n, i, c.added, <<c.to, c.from>>).routes)
      found == {f \in goals \X (1..Most) :
                  /\ Len(f[1].adds) = 1 /\ Cardinality(Old(f[1])) = 1
                  /\ Fits(f[1], Before(f[1]), f[2])}
      Made(g, i) == LET c == g.adds[1] IN Added(Before(g), i, c.added, <<c.to, c.from>>)
  IN  IF Cardinality(found) = 1 THEN {Made(f[1], f[2]) : f \in found} ELSE {}

-----------------------------------------------------------------------------
(* The answer of the car.                                                  *)

EditTools ==
  {"navigation_add_one_waypoint", "navigation_delete_waypoint",
   "navigation_replace_final_destination", "navigation_replace_one_waypoint"}

\* _process_tool_results: the answer is compared with what the goal expects, too.
CompletionArguments(call, expected) ==
  [a \in DOMAIN call.arguments \cup
         (IF call.tool \in EditTools /\ expected # {}
          THEN {"expected_post_waypoint_ids", "expected_post_route_ids"} ELSE {}) |->
     IF call.tool \in EditTools /\ expected # {} /\ a = "expected_post_waypoint_ids"
     THEN (CHOOSE n \in expected : TRUE).waypoints
     ELSE IF call.tool \in EditTools /\ expected # {} /\ a = "expected_post_route_ids"
     THEN (CHOOSE n \in expected : TRUE).routes
     ELSE call.arguments[a]]

Judged(call, expected, raw) == validate(call.tool, CompletionArguments(call, expected), raw)

\* The navigation that the answer to an edit shows.
Shown(tool, returned) ==
  IF tool = "navigation_add_one_waypoint"
  THEN <<Field(returned, StopsOfAdd), Field(returned, LegsOfAdd)>>
  ELSE <<Field(returned, Stops), Field(returned, Legs)>>

-----------------------------------------------------------------------------
(* What the user is told of the new route.                                 *)

\* The details of a reading describe its routes.
Describes(details, n) ==
  /\ Len(details) = Len(n.routes)
  /\ \A k \in DOMAIN n.routes :
       /\ details[k].id = n.routes[k]
       /\ details[k].start = n.waypoints[k] /\ details[k].end = n.waypoints[k + 1]

\* _replacement_destination_route_toll_state: of the whole route.  Nothing but this edit
\* has changed the car since the readings it rests on.
TollAfterReplacingDestination(call, goal, state, options, now) ==
  LET n == state.navigation
      d == state.details
      chosen == {o \in Options(options.answer, goal.start, goal.destination) : o.id = goal.route}
  IN  IF /\ call.route = goal.route /\ call.destination = goal.destination
         /\ state.version + 1 = now /\ options.version + 1 = now
         /\ Cardinality(chosen) = 1
         /\ IsNavigation(n) /\ n.active /\ n.waypoints[Final(n) - 1] = goal.start
         /\ goal.expected = DestinationReplaced(n, goal.destination, goal.route)
         /\ Describes(d, n)
      THEN {(\E k \in 1..(Len(d) - 1) : d[k].toll) \/ o.toll : o \in chosen}
      ELSE {}

\* _added_waypoint_fastest_route_toll_state: of the new routes only.  Each must be the
\* fastest of its readings, which, like those of the navigation and of the place, are
\* of the state just before the edit.
TollAfterAdding(call, state, place, to, from, now) ==
  LET n == state.navigation
      w == n.waypoints
      Leg(id, options, start, end) ==
        {o \in Options(options.answer, start, end) : o.id = id /\ "fastest" \in o.names}
      Between == \E k \in 1..(Final(n) - 1) : w[k] = call.before /\ {w[k + 1]} = call.after
  IN  IF /\ \A r \in {state, place, to} \cup (IF call.after = {} THEN {} ELSE {from}) :
              r.version + 1 = now
         /\ place.value = call.added
         /\ IsNavigation(n) /\ n.active
         /\ IF call.after = {} THEN w[Final(n)] = call.before /\ call.from = {} ELSE Between
      THEN IF call.after = {}
           THEN {o.toll : o \in Leg(call.to, to, call.before, call.added)}
           ELSE {o.toll \/ p.toll :
                   o \in Leg(call.to, to, call.before, call.added),
                   p \in UNION {Leg(f, from, call.added, a) : f \in call.from, a \in call.after}}
      ELSE {}

\* _navigation_waypoint_delete_completion: the next stop, the route to it and the
\* destination, of the first stop only, told with the toll of that route.
DeletionTold(call, goal, state, options, now) ==
  IF /\ call.waypoint = goal.waypoint /\ call.route = goal.route
     /\ state.version + 1 = now /\ options.version + 1 = now
     /\ Len(goal.expected.waypoints) >= 2
     /\ Len(goal.expected.routes) = Len(goal.expected.waypoints) - 1
     /\ goal.next = goal.expected.waypoints[2]
     /\ goal.destination = goal.expected.waypoints[Len(goal.expected.waypoints)]
     /\ Among(goal.route, goal.expected.routes)
  THEN {[stop |-> goal.next, route |-> goal.route, toll |-> goal.toll]}
  ELSE {}

\* What the goal of a deletion records, of waypoint i and the option that was taken.
DeletionGoal(n, i, option) ==
  [waypoint |-> n.waypoints[i], next |-> n.waypoints[i + 1],
   destination |-> n.waypoints[Final(n)],
   route |-> option.id, toll |-> option.toll, expected |-> Deleted(n, i, option.id)]

-----------------------------------------------------------------------------
(* What makes the edits right.                                             *)

\* Each route leads from its waypoint to the next.
Connected(n) ==
  \A k \in DOMAIN n.routes : Leads[n.routes[k]] = <<n.waypoints[k], n.waypoints[k + 1]>>

\* The car describes its routes as they are.
Truly(options) ==
  \A k \in DOMAIN options :
    /\ Leads[options[k].id] = <<options[k].start, options[k].end>>
    /\ options[k].toll <=> options[k].id \in Tolled

HasToll(n) == \E k \in DOMAIN n.routes : n.routes[k] \in Tolled
=============================================================================
