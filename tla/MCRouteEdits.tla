---------------------------- MODULE MCRouteEdits ----------------------------
(***************************************************************************)
(* The edits of a navigation and the judgement of their answers, compared  *)
(* with what they should be for every navigation of two to four of four    *)
(* places, two routes leading from each place to each other one.           *)
(***************************************************************************)
EXTENDS Naturals, Sequences, FiniteSets

CONSTANTS NoValue, OtherType

LOCAL Stations == {"home", "work", "shop", "lake"}
LOCAL Roads == Stations \X Stations \X {"free", "toll"}

E == INSTANCE RouteEdits WITH
       Unknown <- NoValue, Other <- OtherType, Most <- 4,
       Leads <- [r \in Roads |-> <<r[1], r[2]>>], Tolled <- {r \in Roads : r[3] = "toll"}

Tours ==
  UNION {{[active |-> TRUE, waypoints |-> w, routes |-> [k \in 1..(l - 1) |-> <<w[k], w[k + 1], fee[k]>>]] :
            fee \in [1..(l - 1) -> {"free", "toll"}],
            w \in {u \in [1..l -> Stations] : E!Distinct(u)}} : l \in 2..4}

\* The car's answer: the route with a toll is the fastest, the other the shortest.
Roadmap(s, e) ==
  <<[id |-> <<s, e, "toll">>, start |-> s, end |-> e, names |-> {"first", "fastest"},
     minutes |-> 1, km |-> 2, toll |-> TRUE],
    [id |-> <<s, e, "free">>, start |-> s, end |-> e, names |-> {"second", "shortest"},
     minutes |-> 2, km |-> 1, toll |-> FALSE]>>

\* One edit each, with the tool that makes it.
Editings(n) ==
  LET w == n.waypoints
      On(k) == IF k \in DOMAIN w THEN w[k] ELSE "home"
      Mid == 2..(Len(w) - 1)
  IN  {<<"navigation_add_one_waypoint", m>> : m \in
         UNION {E!AfterAdding(n, i, p, "fastest", Roadmap(w[i], p), Roadmap(p, On(i + 1))) :
                  i \in DOMAIN w, p \in Stations}}
      \cup {<<"navigation_replace_one_waypoint", m>> : m \in
         UNION {E!AfterReplacing(n, i, p, "second", Roadmap(w[i - 1], p), Roadmap(p, w[i + 1])) :
                  i \in Mid, p \in Stations}}
      \cup {<<"navigation_delete_waypoint", m>> : m \in
         UNION {E!AfterDeleting(n, i, "shortest", Roadmap(w[i - 1], w[i + 1])) : i \in Mid}}
      \cup {<<"navigation_replace_final_destination", m>> : m \in
         UNION {E!AfterReplacingDestination(n, p, "first", Roadmap(w[Len(w) - 1], p)) : p \in Stations}}

\* Each is a route that begins where the old one did, and can be read again unless it is
\* too long or passes a place twice.
EditsAreRoutes ==
  \A n \in Tours : \A e \in Editings(n) :
    /\ E!Connected(e[2]) /\ e[2].waypoints[1] = n.waypoints[1]
    /\ E!IsNavigation(e[2]) <=> Len(e[2].waypoints) <= 4 /\ E!Distinct(e[2].waypoints)

\* What the car answers to an edit that has left it at m.
AnswerShowing(m) ==
  [readable |-> TRUE, errors |-> FALSE, status |-> "success", object |-> TRUE,
   returned |-> [waypoint_added |-> TRUE, waypoint_deleted |-> TRUE, waypoint_replaced |-> TRUE,
                 destination_replaced |-> TRUE,
                 new_waypoints |-> m.waypoints, new_routes |-> m.routes]]

\* A call of the tool with the least the contract compares: places and routes of m, and a
\* place that is not on it.
Called(tool, m) ==
  [tool |-> tool,
   arguments |->
     LET final == m.waypoints[Len(m.waypoints)]
         leg == m.routes[Len(m.routes)]
     IN  CASE tool = "navigation_add_one_waypoint" ->
                [waypoint_id_to_add |-> final, route_id_leading_to_new_waypoint |-> leg]
           [] tool = "navigation_delete_waypoint" ->
                [waypoint_id_to_delete |-> "gone", route_id_without_waypoint |-> leg]
           [] tool = "navigation_replace_final_destination" ->
                [new_destination_id |-> final, route_id_leading_to_new_destination |-> leg]
           [] tool = "navigation_replace_one_waypoint" ->
                [waypoint_id_to_replace |-> "gone", new_waypoint_id |-> final,
                 route_id_leading_to_new_waypoint |-> leg,
                 route_id_leading_away_from_new_waypoint |-> leg]]

\* Of the answers that show a tour, just the one that shows the edited navigation is the
\* success of the edit; without an expectation, any with the same last leg may be.
AnswersAreJudged ==
  \A n \in {t \in Tours : Len(t.waypoints) = 3} : \A e \in Editings(n) :
    E!IsNavigation(e[2]) =>
      /\ {t \in Tours : E!Judged(Called(e[1], e[2]), {e[2]}, AnswerShowing(t)) = "success"} = {e[2]}
      /\ E!Judged(Called(e[1], e[2]), {}, AnswerShowing(e[2])) = "success"

\* The toll of the whole new route is told after the destination was replaced.
TollsAreTold ==
  \A n \in Tours : \A p \in Stations \ {n.waypoints[k] : k \in DOMAIN n.waypoints}, fee \in {"free", "toll"} :
    LET start == n.waypoints[Len(n.waypoints) - 1]
        road == <<start, p, fee>>
        m == E!DestinationReplaced(n, p, road)
        details == [k \in DOMAIN n.routes |->
                      [id |-> n.routes[k], start |-> n.routes[k][1], end |-> n.routes[k][2],
                       toll |-> n.routes[k][3] = "toll"]]
    IN  E!TollAfterReplacingDestination(
          [route |-> road, destination |-> p],
          [route |-> road, destination |-> p, start |-> start, expected |-> m],
          [version |-> 0, navigation |-> n, details |-> details],
          [version |-> 0, answer |-> Roadmap(start, p)], 1) = {E!HasToll(m)}

ASSUME EditsAreRoutes
ASSUME AnswersAreJudged
ASSUME TollsAreTold
=============================================================================
