----------------------------- MODULE MCWorkflow -----------------------------
(* The workflows of the planner as one instance of Workflow. *)
EXTENDS Workflow, ConditionalNavigation, Messages, Charging, Cabin, MCRouteEdits, TLC

AllRequests == NavigationRequests \cup PlaceRequests \cup {"conditional"} \cup MessageRequests
              \cup ChargingRequests \cup CabinRequests

\* What the user may ask for next, with the use of what was read before.
AllFollows(r) ==
  CASE r = "replace" -> {"resume"}
    [] r = "placesAtStop" -> {"callPlace", "replaceWaypoint"}
    [] r = "placesAtDestination" -> {"callPlace"}
    [] r = "placesAtLocation" -> {"navigateToPlace", "callPlace", "replaceWaypoint"}
    [] r = "lookUp" -> {"pickContact", "callContact", "shareGroup"}
    [] r = "pickContact" -> {"callContact", "shareGroup"}
    [] r = "lookUpRecipient" -> {"shareRecord"}
    [] r = "meetingStatus" -> {"lateEmailFollowUp", "weatherEmail"}
    [] r = "trip" -> {"tripCharger", "localSearch"}
    [] r = "tripCharger" -> {"tripEmail"}
    [] r = "localSearch" -> {"localEstimate", "localEmailCharge"}
    [] r = "localEstimate" -> {"chargingStop"}
    [] r = "localEmailStart" -> {"localEmailRange"}
    [] r = "localEmailRange" -> {"localSearch"}
    [] r = "localEmailCharge" -> {"localEmailSend"}
    [] r = "activeCharging" -> {"bufferSearch", "callCharger"}
    [] r = "bufferSearch" -> {"callCharger"}
    [] r = "meetingCharging" -> {"meetingAnalysis"}
    [] r = "meetingAnalysis" -> {"meetingNavigation", "meetingCall"}
    [] r = "meetingNavigation" -> {"meetingCall"}
    [] OTHER -> {}

\* Every conversation begins with a request that uses nothing of another one.
AllFirst == AllRequests \ UNION {AllFollows(r) : r \in AllRequests}

Takeovers == PlacesKept @@ MessagesKept @@ ChargingKept
AllKept(r) == IF r \in DOMAIN Takeovers THEN Takeovers[r] ELSE {}

AllValues == NavigationValues @@ PlaceValues @@ ConditionalValues @@ MessageValues
            @@ ChargingValues @@ CabinValues

Dependences == NavigationParents @@ PlaceParents @@ ConditionalParents @@ MessageParents
                @@ ChargingParents @@ CabinParents
AllParents(t) == IF t \in DOMAIN Dependences THEN Dependences[t] ELSE {}

\* Readings of the same tool with the same arguments.
AllKeys(t) ==
  IF t \in {"fresh", "activeState"} THEN "state" ELSE IF t = "today" THEN "calendar" ELSE t

AllGoals(r) == IF r \in DOMAIN CabinGoals THEN CabinGoals[r] ELSE {Goal}

AllSteps(r, v, d) ==
  CASE r \in NavigationRequests -> NavigationSteps(r, v)
    [] r \in PlaceRequests -> PlaceSteps(r, v)
    [] r = "conditional" -> NavigateOnCondition(v)
    [] r \in MessageRequests -> MessageSteps(r, v)
    [] r \in ChargingRequests -> ChargingSteps(r, v)
    [] r \in CabinRequests -> CabinSteps(r, v, d)

\* What the user says, or the request and the live schemas settle.
AllChoices ==
  {"said", "alias", "place", "stop", "route", "waypoint", "added", "schema", "pick", "same",
   "ordinal", "query", "picked", "target", "addressee", "recipient", "topic", "meeting",
   "started", "content", "fitting", "tripAsked", "tripRoute", "kilometre", "goOn", "fullName",
   "person", "offer", "charger", "legs", "localRoute", "activeAsked", "plug", "condition", "maximum", "beam", "controls",
   "level", "heaters", "window", "domain", "option", "withClimate"}
-----------------------------------------------------------------------------
(* A property of the tables.                                               *)

\* What is sent fits the navigation of the car.  A new one, which five workflows set, is
\* set only when none is followed; and where the navigation was read twice for one
\* change, in two ways or before and after a question, both readings agree.
NavigationFits ==
  [][FirstCallSent =>
       /\ wait[2] = <<"set_new_navigation">> => Known["state"] \in {"off", "stopped"}
       /\ \A t \in {"fresh", "short"} : Known[t] \in {None, Known["state"]}]_vars
=============================================================================
