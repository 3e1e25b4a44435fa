-------------------------- MODULE RouteEditsProofs --------------------------
(***************************************************************************)
(* That the edits of a navigation keep it a route, that an edit is taken   *)
(* for done only when the car shows that route, and that what the user is  *)
(* told of it is true: for every navigation, place and answer of the car.  *)
(***************************************************************************)
EXTENDS RouteEdits, SequenceTheorems, TLAPS

\* The navigations with the places P and the routes R, and the options for one leg.
Navigations(P, R) == [active : BOOLEAN, waypoints : Seq(P), routes : Seq(R)]
Answers(P, R) ==
  Seq([id : R, start : P, end : P, names : SUBSET STRING, minutes : Nat, km : Nat, toll : BOOLEAN])

\* A navigation that is followed, on routes that are as the car says.
Route(n, P, R) ==
  /\ n \in Navigations(P, R)
  /\ n.active /\ IsNavigation(n) /\ Connected(n)

-----------------------------------------------------------------------------
(* The splice.                                                             *)

\* The elements of three sequences one after another.
LEMMA ThreeParts ==
  ASSUME NEW S, NEW a \in Seq(S), NEW b \in Seq(S), NEW c \in Seq(S)
  PROVE  /\ a \o (b \o c) \in Seq(S)
         /\ Len(a \o (b \o c)) = Len(a) + Len(b) + Len(c)
         /\ \A k \in 1..(Len(a) + Len(b) + Len(c)) :
              (a \o (b \o c))[k] =
                     IF k <= Len(a) THEN a[k]
                     ELSE IF k <= Len(a) + Len(b) THEN b[k - Len(a)]
                     ELSE c[k - Len(a) - Len(b)]
<1>1. /\ b \o c \in Seq(S) /\ Len(b \o c) = Len(b) + Len(c)
      /\ \A k \in 1..(Len(b) + Len(c)) : (b \o c)[k] = IF k <= Len(b) THEN b[k] ELSE c[k - Len(b)]
  BY ConcatProperties
<1>2. /\ a \o (b \o c) \in Seq(S) /\ Len(a \o (b \o c)) = Len(a) + Len(b \o c)
      /\ \A k \in 1..(Len(a) + Len(b \o c)) :
           (a \o (b \o c))[k] = IF k <= Len(a) THEN a[k] ELSE (b \o c)[k - Len(a)]
  BY <1>1, ConcatProperties
<1>3. Len(a) \in Nat /\ Len(b) \in Nat /\ Len(c) \in Nat
  BY LenProperties
<1> QED BY <1>1, <1>2, <1>3

\* t, a sequence over S, is s without its elements between i and j, and b in their place.
Between(S, t, s, i, b, j) ==
  /\ t \in Seq(S)
  /\ Len(t) = i + Len(b) + Len(s) - j + 1
  /\ \A k \in 1..Len(t) : t[k] = IF k <= i THEN s[k]
                                 ELSE IF k <= i + Len(b) THEN b[k - i]
                                 ELSE s[k - i - Len(b) + j - 1]

\* A splice is that (the list expressions of the edits).
LEMMA SpliceOfSequence ==
  ASSUME NEW S, NEW s \in Seq(S), NEW b \in Seq(S),
         NEW i \in 0..Len(s), NEW j \in (i + 1)..(Len(s) + 1)
  PROVE  Between(S, Splice(s, i, b, j), s, i, b, j)
<1> DEFINE a == SubSeq(s, 1, i)
           c == SubSeq(s, j, Len(s))
<1>1. /\ Len(s) \in Nat /\ Len(b) \in Nat /\ i \in Nat /\ j \in Nat
      /\ i <= Len(s) /\ i < j /\ j <= Len(s) + 1
  BY LenProperties
<1>2. \A k \in 1..Len(s) : s[k] \in S
  BY ElementOfSeq
<1>3. /\ a \in Seq(S) /\ Len(a) = i
      /\ \A k \in 1..i : a[k] = s[k]
  <2>1. \A k \in 1..i : s[k] \in S
    BY <1>1, <1>2
  <2>2. /\ a \in Seq(S) /\ Len(a) = IF 1 <= i THEN i - 1 + 1 ELSE 0
        /\ \A k \in 1..(i - 1 + 1) : a[k] = s[1 + k - 1]
    BY <1>1, <2>1, SubSeqProperties
  <2> QED BY <1>1, <2>2
<1>4. /\ c \in Seq(S) /\ Len(c) = Len(s) - j + 1
      /\ \A k \in 1..Len(c) : c[k] = s[j + k - 1]
  <2>1. \A k \in j..Len(s) : s[k] \in S
    BY <1>1, <1>2
  <2>2. /\ c \in Seq(S) /\ Len(c) = IF j <= Len(s) THEN Len(s) - j + 1 ELSE 0
        /\ \A k \in 1..(Len(s) - j + 1) : c[k] = s[j + k - 1]
    BY <1>1, <2>1, SubSeqProperties
  <2> QED BY <1>1, <2>2
<1> DEFINE t == Splice(s, i, b, j)
<1>t. t = a \o (b \o c)
  BY DEF Splice
<1> HIDE DEF a, c, t
<1>5. /\ t \in Seq(S) /\ Len(t) = Len(a) + Len(b) + Len(c)
      /\ \A k \in 1..Len(t) : t[k] = IF k <= Len(a) THEN a[k]
                                     ELSE IF k <= Len(a) + Len(b) THEN b[k - Len(a)]
                                     ELSE c[k - Len(a) - Len(b)]
  <2>1. a \in Seq(S) /\ c \in Seq(S)
    BY <1>3, <1>4
  <2>2. Len(a) \in Nat /\ Len(b) \in Nat /\ Len(c) \in Nat
    BY <2>1, LenProperties
  <2> QED BY <2>1, <2>2, <1>t, ThreeParts
<1>6. Len(t) = i + Len(b) + Len(s) - j + 1
  BY <1>1, <1>3, <1>4, <1>5
<1>7. ASSUME NEW k \in 1..Len(t)
      PROVE  t[k] = IF k <= i THEN s[k] ELSE IF k <= i + Len(b) THEN b[k - i]
                    ELSE s[k - i - Len(b) + j - 1]
  <2>1. CASE k <= i
    BY <2>1, <1>1, <1>3, <1>5
  <2>2. CASE ~(k <= i) /\ k <= i + Len(b)
    BY <2>2, <1>1, <1>3, <1>5
  <2>3. CASE ~(k <= i) /\ ~(k <= i + Len(b))
    <3>1. t[k] = c[k - i - Len(b)]
      BY <2>3, <1>1, <1>3, <1>5
    <3>2. k - i - Len(b) \in 1..Len(c)
      BY <2>3, <1>1, <1>4, <1>6
    <3>3. c[k - i - Len(b)] = s[j + (k - i - Len(b)) - 1]
      BY <3>2, <1>4
    <3>4. j + (k - i - Len(b)) - 1 = k - i - Len(b) + j - 1
      BY <1>1, <1>6
    <3> QED BY <2>3, <3>1, <3>3, <3>4, <1>1
  <2> QED BY <2>1, <2>2, <2>3
<1>8. /\ t \in Seq(S) /\ Len(t) = i + Len(b) + Len(s) - j + 1
      /\ \A k \in 1..Len(t) : t[k] = IF k <= i THEN s[k] ELSE IF k <= i + Len(b) THEN b[k - i]
                                     ELSE s[k - i - Len(b) + j - 1]
  BY <1>5, <1>6, <1>7
<1> QED BY <1>8 DEF t, Between

\* The way from waypoint i over the stops to waypoint j.
Way(n, i, j, stops, k) ==
  IF k = 0 THEN n.waypoints[i] ELSE IF k <= Len(stops) THEN stops[k] ELSE n.waypoints[j]

\* The routes lead along it, as far as there is a waypoint j.
LeadOver(n, i, j, stops, legs) ==
  /\ Len(legs) = Len(stops) + (IF j <= Final(n) THEN 1 ELSE 0)
  /\ \A k \in 1..Len(legs) :
       Leads[legs[k]] = <<Way(n, i, j, stops, k - 1), Way(n, i, j, stops, k)>>

\* n with the stops between its waypoints i and j, its routes those of the new waypoints.
Rerouted(P, R, m, n, i, stops, j) ==
  /\ m \in Navigations(P, R) /\ m.active
  /\ Between(P, m.waypoints, n.waypoints, i, stops, j)
  /\ Len(m.routes) = Len(m.waypoints) - 1
  /\ Connected(m)

\* A splice whose new routes lead from waypoint i over the stops to waypoint j.
LEMMA SplicedIsConnected ==
  ASSUME NEW P, NEW R, NEW n, Route(n, P, R),
         NEW i \in 1..Final(n), NEW j \in (i + 1)..(Final(n) + 1),
         NEW stops \in Seq(P), NEW legs \in Seq(R),
         NEW m, m = Spliced(n, i, j, stops, legs),
         LeadOver(n, i, j, stops, legs)
  PROVE  Rerouted(P, R, m, n, i, stops, j)
<1> DEFINE w == n.waypoints
           r == n.routes
           F == Final(n)
<1>1. /\ w \in Seq(P) /\ r \in Seq(R) /\ n.active
      /\ F \in Nat /\ F >= 2 /\ F = Len(w) /\ Len(r) = F - 1
      /\ \A k \in DOMAIN r : Leads[r[k]] = <<w[k], w[k + 1]>>
  BY LenProperties DEF Route, Navigations, IsNavigation, Connected, Final
<1>2. /\ Len(stops) \in Nat /\ Len(legs) \in Nat /\ i \in Nat /\ j \in Nat
      /\ i >= 1 /\ i <= F /\ i < j /\ j <= F + 1
      /\ j <= F => Len(legs) = Len(stops) + 1
      /\ ~(j <= F) => Len(legs) = Len(stops) /\ j = F + 1
  BY <1>1, LenProperties DEF LeadOver
<1>3. /\ m.active = n.active
      /\ m.waypoints = Splice(w, i, stops, j)
      /\ m.routes = Splice(r, i - 1, legs, j)
      /\ m = [active |-> n.active, waypoints |-> m.waypoints, routes |-> m.routes]
  BY DEF Spliced
<1>4. /\ m.waypoints \in Seq(P)
      /\ Len(m.waypoints) = i + Len(stops) + F - j + 1
      /\ \A k \in 1..Len(m.waypoints) :
           m.waypoints[k] = IF k <= i THEN w[k] ELSE IF k <= i + Len(stops) THEN stops[k - i]
                            ELSE w[k - i - Len(stops) + j - 1]
  <2>1. i \in 0..Len(w) /\ j \in (i + 1)..(Len(w) + 1)
    BY <1>1, <1>2
  <2> HIDE DEF w, r, F
  <2>2. w \in Seq(P)
    BY <1>1
  <2>3. Between(P, Splice(w, i, stops, j), w, i, stops, j)
    BY <2>1, <2>2, SpliceOfSequence, Zenon
  <2>4. m.waypoints = Splice(w, i, stops, j) /\ Len(w) = F
    BY <1>1, <1>3
  <2> QED BY <2>3, <2>4, Zenon DEF Between
<1> DEFINE h == IF j <= F THEN j ELSE F
<1>h. h \in Nat /\ (j <= F => h = j) /\ (~(j <= F) => h = F)
  BY <1>1, <1>2
<1>5. /\ m.routes \in Seq(R)
      /\ Len(m.routes) = i - 1 + Len(legs) + Len(r) - h + 1
      /\ \A k \in 1..Len(m.routes) :
           m.routes[k] = IF k <= i - 1 THEN r[k]
                         ELSE IF k <= i - 1 + Len(legs) THEN legs[k - (i - 1)]
                         ELSE r[k - (i - 1) - Len(legs) + h - 1]
  <2>1. i - 1 \in 0..Len(r) /\ h \in (i - 1 + 1)..(Len(r) + 1)
    BY <1>1, <1>2, <1>h
  <2>2. SubSeq(r, j, Len(r)) = SubSeq(r, h, Len(r))
    <3>1. CASE j <= F
      BY <3>1, <1>h
    <3>2. CASE ~(j <= F)
      <4>1. j \in Int /\ h \in Int /\ Len(r) \in Int /\ Len(r) < j /\ Len(r) < h
        BY <3>2, <1>1, <1>2, <1>h
      <4> HIDE DEF h, r
      <4> QED BY <4>1, SubSeqEmpty
    <3> QED BY <3>1, <3>2
  <2>3. m.routes = Splice(r, i - 1, legs, h)
    BY <2>2, <1>3 DEF Splice
  <2> HIDE DEF w, r, F, h
  <2> DEFINE g == i - 1
  <2>4. g \in 0..Len(r) /\ h \in (g + 1)..(Len(r) + 1) /\ r \in Seq(R)
    BY <2>1, <1>1
  <2> HIDE DEF g
  <2>5. Between(R, Splice(r, g, legs, h), r, g, legs, h)
    BY <2>4, SpliceOfSequence, Zenon
  <2>6. m.routes = Splice(r, g, legs, h)
    BY <2>3 DEF g
  <2> QED BY <2>5, <2>6, Zenon DEF g, Between
<1> HIDE DEF w, r, F, h
<1>6. Len(m.routes) = Len(m.waypoints) - 1
  <2>1. /\ Len(m.waypoints) = i + Len(stops) + F - j + 1
        /\ Len(m.routes) = i - 1 + Len(legs) + Len(r) - h + 1
    BY <1>4, <1>5
  <2>2. Len(r) = F - 1 /\ F \in Nat
    BY <1>1
  <2>3. CASE j <= F
    BY <2>1, <2>2, <2>3, <1>2, <1>h
  <2>4. CASE ~(j <= F)
    BY <2>1, <2>2, <2>4, <1>2, <1>h
  <2> QED BY <2>3, <2>4
<1>7. ASSUME NEW k \in DOMAIN m.routes
      PROVE  Leads[m.routes[k]] = <<m.waypoints[k], m.waypoints[k + 1]>>
  <2>0. /\ k \in 1..Len(m.routes) /\ k \in 1..Len(m.waypoints)
        /\ k + 1 \in 1..Len(m.waypoints) /\ k \in Nat /\ Len(m.waypoints) \in Nat
    <3>1. DOMAIN m.routes = 1..Len(m.routes) /\ Len(m.waypoints) \in Nat
      BY <1>4, <1>5, LenProperties
    <3> QED BY <3>1, <1>6
  <2>1. CASE k <= i - 1
    <3>1. m.routes[k] = r[k] /\ m.waypoints[k] = w[k] /\ m.waypoints[k + 1] = w[k + 1]
      <4>1. k <= i /\ k + 1 <= i
        BY <2>0, <2>1, <1>2
      <4> QED BY <4>1, <2>0, <2>1, <1>4, <1>5
    <3>2. k \in DOMAIN r
      <4>1. DOMAIN r = 1..Len(r)
        BY <1>1, LenProperties
      <4> QED BY <4>1, <2>0, <2>1, <1>1, <1>2
    <3> QED BY <3>1, <3>2, <1>1
  <2>2. CASE ~(k <= i - 1) /\ k <= i - 1 + Len(legs)
    <3>1. k - (i - 1) \in 1..Len(legs) /\ m.routes[k] = legs[k - (i - 1)]
      BY <2>0, <2>2, <1>2, <1>5
    <3> DEFINE x == k - (i - 1)
    <3>2. /\ x \in Nat /\ x >= 1 /\ x <= Len(legs) /\ x \in 1..Len(legs)
          /\ k = i + x - 1 /\ x - 1 \in Nat
      BY <3>1, <2>0, <1>2
    <3> HIDE DEF x
    <3>3. m.waypoints[k] = Way(n, i, j, stops, x - 1)
      <4>1. CASE x = 1
        <5>1. k <= i /\ k = i
          BY <4>1, <3>2, <1>2
        <5>2. m.waypoints[k] = w[i]
          BY <5>1, <2>0, <1>4
        <5> QED BY <5>2, <4>1 DEF Way, w
      <4>2. CASE x # 1
        <5>1. ~(k <= i) /\ k <= i + Len(stops) /\ k - i = x - 1
          BY <4>2, <3>2, <1>1, <1>2
        <5>2. m.waypoints[k] = stops[k - i]
          BY <5>1, <2>0, <1>4
        <5>3. x - 1 # 0 /\ x - 1 <= Len(stops)
          BY <4>2, <3>2, <1>1, <1>2
        <5> QED BY <5>1, <5>2, <5>3 DEF Way
      <4> QED BY <4>1, <4>2
    <3>4. ASSUME NEW y, y = k + 1
          PROVE  m.waypoints[y] = Way(n, i, j, stops, x)
      <4>1. y \in 1..Len(m.waypoints) /\ ~(y <= i) /\ x # 0
        BY <3>4, <3>2, <2>0, <1>2
      <4>2. CASE x <= Len(stops)
        <5>1. y <= i + Len(stops) /\ y - i = x
          BY <4>2, <3>4, <3>2, <1>2
        <5>2. m.waypoints[y] = stops[y - i]
          BY <5>1, <4>1, <1>4
        <5> QED BY <5>1, <5>2, <4>1, <4>2 DEF Way
      <4>3. CASE ~(x <= Len(stops))
        <5>1. j <= F /\ x = Len(stops) + 1
          BY <4>3, <3>2, <1>1, <1>2
        <5>2. ~(y <= i + Len(stops)) /\ y - i - Len(stops) + j - 1 = j
          BY <5>1, <3>4, <3>2, <1>2
        <5>3. m.waypoints[y] = w[y - i - Len(stops) + j - 1]
          BY <5>2, <4>1, <1>4
        <5> QED BY <5>2, <5>3, <4>1, <4>3 DEF Way, w
      <4> QED BY <4>2, <4>3
    <3>5. Leads[legs[x]] = <<Way(n, i, j, stops, x - 1), Way(n, i, j, stops, x)>>
      BY <3>2 DEF LeadOver
    <3>6. m.routes[k] = legs[x]
      BY <3>1 DEF x
    <3> QED BY <3>3, <3>4, <3>5, <3>6
  <2>3. CASE ~(k <= i - 1) /\ ~(k <= i - 1 + Len(legs))
    <3> DEFINE q == k - i - Len(stops) + j - 1
    <3>1. j <= F /\ h = j /\ Len(legs) = Len(stops) + 1
      BY <2>0, <2>3, <1>1, <1>2, <1>5, <1>h
    <3>2. m.routes[k] = r[k - (i - 1) - Len(legs) + h - 1]
      BY <2>0, <2>3, <1>5
    <3>3. k - (i - 1) - Len(legs) + h - 1 = q
      BY <3>1, <2>0, <1>2
    <3>4. ~(k <= i) /\ ~(k <= i + Len(stops)) /\ ~(k + 1 <= i) /\ ~(k + 1 <= i + Len(stops))
      BY <3>1, <2>0, <2>3, <1>2
    <3>5. \A x \in 1..Len(m.waypoints) :
            ~(x <= i) /\ ~(x <= i + Len(stops)) => m.waypoints[x] = w[x - i - Len(stops) + j - 1]
      BY <1>4
    <3>6. m.waypoints[k] = w[q]
      BY <3>4, <3>5, <2>0
    <3>8. ASSUME NEW x, x = k + 1
          PROVE  m.waypoints[x] = w[q + 1]
      <4>1. x \in 1..Len(m.waypoints) /\ ~(x <= i) /\ ~(x <= i + Len(stops))
        BY <3>8, <3>4, <2>0
      <4>2. m.waypoints[x] = w[x - i - Len(stops) + j - 1]
        BY <4>1, <3>5, Zenon
      <4>3. x - i - Len(stops) + j - 1 = q + 1
        BY <3>8, <2>0, <1>2
      <4> HIDE DEF q
      <4> QED BY <4>2, <4>3, Zenon
    <3>7. q \in DOMAIN r
      <4>1. DOMAIN r = 1..Len(r)
        BY <1>1, LenProperties
      <4>2. Len(m.routes) = i - 1 + Len(legs) + Len(r) - h + 1 /\ k <= Len(m.routes)
        BY <2>0, <1>5
      <4>3. q \in 1..Len(r)
        <5>1. Len(r) \in Nat
          BY <1>1
        <5>2. k <= i + Len(stops) + Len(r) - j + 1
          BY <5>1, <3>1, <4>2, <2>0, <1>2
        <5>3. k \in Nat /\ j \in Nat /\ i \in Nat /\ Len(stops) \in Nat /\ j >= 1
              /\ ~(k <= i + Len(stops))
          BY <3>4, <2>0, <1>2
        <5> QED BY <5>1, <5>2, <5>3
      <4> QED BY <4>1, <4>3
    <3> HIDE DEF q
    <3> QED BY <3>2, <3>3, <3>6, <3>7, <3>8, <1>1
  <2> QED BY <2>1, <2>2, <2>3
<1>8. m \in Navigations(P, R) /\ m.active
  BY <1>1, <1>3, <1>4, <1>5 DEF Navigations
<1>9. Connected(m)
  BY <1>7 DEF Connected
<1>10. Between(P, m.waypoints, w, i, stops, j)
  BY <1>1, <1>4 DEF Between
<1> QED BY <1>6, <1>8, <1>9, <1>10 DEF w, Rerouted

-----------------------------------------------------------------------------
(* The edits.                                                              *)

\* An option that is offered is a route of the car from s to e, with its toll.
LEMMA OptionLeads ==
  ASSUME NEW P, NEW R, NEW answer \in Answers(P, R), Truly(answer), NEW s, NEW e,
         NEW o \in Options(answer, s, e)
  PROVE  o.id \in R /\ Leads[o.id] = <<s, e>> /\ (o.toll <=> o.id \in Tolled)
<1>1. /\ o \in {answer[k] : k \in DOMAIN answer}
      /\ o.start = s /\ o.end = e
  BY DEF Options
<1>2. PICK k \in DOMAIN answer : o = answer[k]
  BY <1>1
<1>3. answer[k].id \in R
  <2> DEFINE Option == [id : R, start : P, end : P, names : SUBSET STRING, minutes : Nat,
                        km : Nat, toll : BOOLEAN]
  <2>1. answer \in Seq(Option)
    BY DEF Answers
  <2> HIDE DEF Option
  <2>2. answer[k] \in Option
    BY <2>1, <1>2, ElementOfSeq, LenProperties
  <2> QED BY <2>2 DEF Option
<1> QED BY <1>1, <1>2, <1>3 DEF Truly

\* Whatever rule takes an option takes a route of the car from s to e.
LEMMA TakenLeads ==
  ASSUME NEW P, NEW R, NEW answer \in Answers(P, R), Truly(answer), NEW s, NEW e, NEW name,
         NEW id \in Chosen(name, answer, s, e) \cup Matching(name, answer, s, e)
                    \cup Joining(name, answer, s, e)
  PROVE  id \in R /\ Leads[id] = <<s, e>>
<1>1. \E o \in Options(answer, s, e) : id = o.id
  BY DEF Chosen, Matching, Joining
<1> QED BY <1>1, OptionLeads

\* The edits of a navigation: at waypoint i, to or over place p, with what the car
\* answered about the routes.
Edits(n, i, p, name, to, from) ==
  UNION {AfterAdding(n, i, p, name, to, from),
         IF i \in 2..(Final(n) - 1) THEN AfterReplacing(n, i, p, name, to, from) ELSE {},
         IF i \in 2..(Final(n) - 1) THEN AfterDeleting(n, i, name, to) ELSE {},
         AfterReplacingDestination(n, p, name, to)}

\* A splice of one or no stop, with the routes to it and from it.
LEMMA OneStop ==
  ASSUME NEW P, NEW R, NEW n, Route(n, P, R), NEW p \in P,
         NEW i \in 1..Final(n), NEW j \in (i + 1)..Final(n),
         NEW t \in R, NEW f \in R,
         Leads[t] = <<n.waypoints[i], p>>, Leads[f] = <<p, n.waypoints[j]>>
  PROVE  LeadOver(n, i, j, <<p>>, <<t, f>>)
<1>1. Len(<<p>>) = 1 /\ Len(<<t, f>>) = 2 /\ j # 0 /\ j <= Final(n)
  OBVIOUS
<1>2. Way(n, i, j, <<p>>, 0) = n.waypoints[i] /\ Way(n, i, j, <<p>>, 1) = p
      /\ Way(n, i, j, <<p>>, 2) = n.waypoints[j]
  BY DEF Way
<1>3. \A k \in 1..2 : Leads[<<t, f>>[k]] = <<Way(n, i, j, <<p>>, k - 1), Way(n, i, j, <<p>>, k)>>
  <2>1. Leads[<<t, f>>[1]] = <<Way(n, i, j, <<p>>, 0), Way(n, i, j, <<p>>, 1)>>
    BY <1>2
  <2>2. Leads[<<t, f>>[2]] = <<Way(n, i, j, <<p>>, 1), Way(n, i, j, <<p>>, 2)>>
    BY <1>2
  <2>3. \A k \in 1..2 : (k = 1 /\ k - 1 = 0) \/ (k = 2 /\ k - 1 = 1)
    OBVIOUS
  <2> QED BY <2>1, <2>2, <2>3
<1> QED BY <1>1, <1>3 DEF LeadOver

\* The same where the stop becomes the last waypoint, with the route to it only.
LEMMA LastStop ==
  ASSUME NEW P, NEW R, NEW n, NEW p \in P, NEW i, NEW j \in Nat, j > Final(n), Final(n) \in Nat,
         NEW t \in R, Leads[t] = <<n.waypoints[i], p>>
  PROVE  LeadOver(n, i, j, <<p>>, <<t>>)
<1>1. Way(n, i, j, <<p>>, 0) = n.waypoints[i] /\ Way(n, i, j, <<p>>, 1) = p
  BY DEF Way
<1>2. Leads[<<t>>[1]] = <<Way(n, i, j, <<p>>, 0), Way(n, i, j, <<p>>, 1)>>
  BY <1>1
<1>3. \A k \in 1..1 : k = 1 /\ k - 1 = 0
  OBVIOUS
<1> QED BY <1>2, <1>3 DEF LeadOver

\* And where a waypoint is left out, with one route between its neighbours.
LEMMA NoStop ==
  ASSUME NEW P, NEW R, NEW n, NEW i, NEW j \in Nat, j <= Final(n), Final(n) \in Nat,
         NEW t \in R, Leads[t] = <<n.waypoints[i], n.waypoints[j]>>
  PROVE  LeadOver(n, i, j, <<>>, <<t>>)
<1>1. Way(n, i, j, <<>>, 0) = n.waypoints[i] /\ Way(n, i, j, <<>>, 1) = n.waypoints[j]
  BY DEF Way
<1>2. Leads[<<t>>[1]] = <<Way(n, i, j, <<>>, 0), Way(n, i, j, <<>>, 1)>>
  BY <1>1
<1>3. \A k \in 1..1 : k = 1 /\ k - 1 = 0
  OBVIOUS
<1> QED BY <1>2, <1>3 DEF LeadOver

\* One stop, or none if the route goes on.
AtMostOne(n, b, p, stops) == stops = <<p>> \/ (stops = <<>> /\ b <= Final(n))

\* What each edit is a splice of.
LEMMA EditIsSplice ==
  ASSUME NEW P, NEW R, NEW n, Route(n, P, R), NEW p \in P, NEW i \in 1..Final(n), NEW name,
         NEW to \in Answers(P, R), NEW from \in Answers(P, R), Truly(to), Truly(from),
         NEW m \in Edits(n, i, p, name, to, from)
  PROVE  \E a \in 1..Final(n), b \in 2..(Final(n) + 1), stops \in Seq(P), legs \in Seq(R) :
             /\ a < b
             /\ AtMostOne(n, b, p, stops)
             /\ m = Spliced(n, a, b, stops, legs)
             /\ LeadOver(n, a, b, stops, legs)
<1>1. Final(n) \in Nat /\ Final(n) >= 2
  BY LenProperties DEF Route, Navigations, IsNavigation, Final
<1>s. <<p>> \in Seq(P) /\ <<>> \in Seq(P)
  OBVIOUS
<1>2. CASE m \in AfterAdding(n, i, p, name, to, from)
  <2>1. CASE i = Final(n)
    <3>1. PICK t \in Chosen(name, to, n.waypoints[i], p) : m = Added(n, i, p, <<t>>)
      BY <1>2, <2>1 DEF AfterAdding
    <3>2. t \in R /\ Leads[t] = <<n.waypoints[i], p>>
      BY TakenLeads
    <3>3. LeadOver(n, i, i + 1, <<p>>, <<t>>)
      BY <2>1, <3>2, <1>1, LastStop
    <3>4. i \in 1..Final(n) /\ i + 1 \in 2..(Final(n) + 1) /\ i < i + 1 /\ <<t>> \in Seq(R)
      BY <3>2, <1>1
    <3> QED BY <3>1, <3>3, <3>4, <1>s DEF Added, AtMostOne
  <2>2. CASE i # Final(n)
    <3>1. PICK t \in Chosen(name, to, n.waypoints[i], p),
               f \in Chosen(name, from, p, n.waypoints[i + 1]) : m = Added(n, i, p, <<t, f>>)
      BY <1>2, <2>2 DEF AfterAdding
    <3>2. t \in R /\ Leads[t] = <<n.waypoints[i], p>>
      BY TakenLeads
    <3>3. f \in R /\ Leads[f] = <<p, n.waypoints[i + 1]>>
      BY TakenLeads
    <3>4. i + 1 \in (i + 1)..Final(n) /\ i + 1 \in 2..(Final(n) + 1) /\ i < i + 1 /\ <<t, f>> \in Seq(R)
      BY <2>2, <3>2, <3>3, <1>1
    <3>5. LeadOver(n, i, i + 1, <<p>>, <<t, f>>)
      BY <3>2, <3>3, <3>4, OneStop
    <3> QED BY <3>1, <3>4, <3>5, <1>s DEF Added, AtMostOne
  <2> QED BY <2>1, <2>2
<1>3. CASE i \in 2..(Final(n) - 1) /\ m \in AfterReplacing(n, i, p, name, to, from)
  <2>1. PICK t \in Chosen(name, to, n.waypoints[i - 1], p),
             f \in Chosen(name, from, p, n.waypoints[i + 1]) : m = Replaced(n, i, p, <<t, f>>)
    BY <1>3 DEF AfterReplacing
  <2>2. t \in R /\ Leads[t] = <<n.waypoints[i - 1], p>>
    BY TakenLeads
  <2>3. f \in R /\ Leads[f] = <<p, n.waypoints[i + 1]>>
    BY TakenLeads
  <2>4. /\ i - 1 \in 1..Final(n) /\ i + 1 \in (i - 1 + 1)..Final(n)
        /\ i + 1 \in 2..(Final(n) + 1) /\ i - 1 < i + 1 /\ <<t, f>> \in Seq(R)
    BY <1>3, <2>2, <2>3, <1>1
  <2>5. LeadOver(n, i - 1, i + 1, <<p>>, <<t, f>>)
    BY <2>2, <2>3, <2>4, OneStop
  <2> QED BY <2>1, <2>4, <2>5, <1>s DEF Replaced, AtMostOne
<1>4. CASE i \in 2..(Final(n) - 1) /\ m \in AfterDeleting(n, i, name, to)
  <2>1. PICK t \in Joining(name, to, n.waypoints[i - 1], n.waypoints[i + 1]) : m = Deleted(n, i, t)
    BY <1>4 DEF AfterDeleting
  <2>2. t \in R /\ Leads[t] = <<n.waypoints[i - 1], n.waypoints[i + 1]>>
    BY TakenLeads
  <2>3. /\ i - 1 \in 1..Final(n) /\ i + 1 \in Nat /\ i + 1 <= Final(n)
        /\ i + 1 \in 2..(Final(n) + 1) /\ i - 1 < i + 1 /\ <<t>> \in Seq(R)
    BY <1>4, <2>2, <1>1
  <2>4. LeadOver(n, i - 1, i + 1, <<>>, <<t>>)
    BY <2>2, <2>3, <1>1, NoStop
  <2> QED BY <2>1, <2>3, <2>4, <1>s DEF Deleted, AtMostOne
<1>5. CASE m \in AfterReplacingDestination(n, p, name, to)
  <2>1. PICK t \in Matching(name, to, n.waypoints[Final(n) - 1], p) : m = DestinationReplaced(n, p, t)
    BY <1>5 DEF AfterReplacingDestination
  <2>2. t \in R /\ Leads[t] = <<n.waypoints[Final(n) - 1], p>>
    BY TakenLeads
  <2>3. /\ Final(n) - 1 \in 1..Final(n) /\ Final(n) + 1 \in Nat /\ Final(n) + 1 > Final(n)
        /\ Final(n) + 1 \in 2..(Final(n) + 1) /\ Final(n) - 1 < Final(n) + 1 /\ <<t>> \in Seq(R)
    BY <2>2, <1>1
  <2>4. LeadOver(n, Final(n) - 1, Final(n) + 1, <<p>>, <<t>>)
    BY <2>2, <2>3, <1>1, LastStop
  <2> QED BY <2>1, <2>3, <2>4, <1>s DEF DestinationReplaced, Replaced, AtMostOne
<1> QED BY <1>2, <1>3, <1>4, <1>5 DEF Edits

\* Distinct waypoints have distinct routes between them.
LEMMA RoutesAreDistinct ==
  ASSUME NEW P, NEW R, NEW m \in Navigations(P, R), Connected(m), Distinct(m.waypoints),
         Len(m.routes) = Len(m.waypoints) - 1
  PROVE  Distinct(m.routes)
<1>1. /\ DOMAIN m.routes = 1..Len(m.routes) /\ DOMAIN m.waypoints = 1..Len(m.waypoints)
      /\ Len(m.routes) \in Nat
  BY LenProperties DEF Navigations
<1>2. SUFFICES ASSUME NEW j \in DOMAIN m.routes, NEW k \in DOMAIN m.routes,
                      m.routes[j] = m.routes[k]
               PROVE  j = k
  BY DEF Distinct
<1>3. <<m.waypoints[j], m.waypoints[j + 1]>> = <<m.waypoints[k], m.waypoints[k + 1]>>
  BY <1>2 DEF Connected
<1>4. m.waypoints[j] = m.waypoints[k] /\ j \in DOMAIN m.waypoints /\ k \in DOMAIN m.waypoints
  BY <1>1, <1>3
<1> QED BY <1>4 DEF Distinct

\* No stop, or one that is new, for which there is room.
NewStop(n, b, p, stops) ==
  \/ stops = <<>> /\ b <= Final(n)
  \/ stops = <<p>> /\ Final(n) < Most /\ ~Among(p, n.waypoints)

\* A splice of distinct waypoints is one, when its stop is new.
LEMMA SplicedIsNavigation ==
  ASSUME NEW P, NEW R, NEW n, Route(n, P, R), NEW p \in P,
         NEW a \in 1..Final(n), NEW b \in (a + 1)..(Final(n) + 1),
         NEW stops, NewStop(n, b, p, stops), NEW legs \in Seq(R),
         NEW m, m = Spliced(n, a, b, stops, legs), LeadOver(n, a, b, stops, legs),
         Most \in Nat
  PROVE  IsNavigation(m)
<1>1. /\ n.waypoints \in Seq(P) /\ Final(n) \in Nat /\ Final(n) = Len(n.waypoints)
      /\ Final(n) >= 2 /\ Final(n) <= Most
      /\ Distinct(n.waypoints) /\ DOMAIN n.waypoints = 1..Final(n)
  BY LenProperties DEF Route, Navigations, IsNavigation, Final
<1>2. \/ stops = <<>> /\ b <= Final(n)
      \/ stops = <<p>> /\ Final(n) < Most /\ ~Among(p, n.waypoints)
  BY DEF NewStop
<1>s. stops \in Seq(P)
  <2>1. <<>> \in Seq(P) /\ <<p>> \in Seq(P)
    OBVIOUS
  <2> QED BY <2>1, <1>2, Zenon
<1>l. /\ Len(stops) \in {0, 1}
      /\ Len(stops) = 0 => b <= Final(n)
      /\ Len(stops) = 1 => Final(n) < Most /\ stops[1] = p /\ ~Among(p, n.waypoints)
  <2>1. Len(<<>>) = 0 /\ Len(<<p>>) = 1 /\ <<p>>[1] = p
    OBVIOUS
  <2>2. CASE stops = <<>> /\ b <= Final(n)
    BY <2>1, <2>2
  <2>3. CASE stops = <<p>> /\ Final(n) < Most /\ ~Among(p, n.waypoints)
    BY <2>1, <2>3
  <2> QED BY <1>2, <2>2, <2>3
<1>3. /\ m \in Navigations(P, R) /\ m.active
      /\ Len(m.waypoints) = a + Len(stops) + Final(n) - b + 1
      /\ Len(m.routes) = Len(m.waypoints) - 1
      /\ \A k \in 1..Len(m.waypoints) :
           m.waypoints[k] = IF k <= a THEN n.waypoints[k]
                            ELSE IF k <= a + Len(stops) THEN stops[k - a]
                            ELSE n.waypoints[k - a - Len(stops) + b - 1]
      /\ Connected(m)
  <2>1. Rerouted(P, R, m, n, a, stops, b)
    BY <1>s, SplicedIsConnected, Zenon
  <2> QED BY <2>1, <1>1 DEF Rerouted, Between
<1>4. a \in Nat /\ b \in Nat /\ a >= 1 /\ a < b /\ b <= Final(n) + 1 /\ a <= Final(n)
  BY <1>1
<1>5. Len(m.waypoints) \in 2..Most
  <2>1. Len(m.waypoints) = a + Len(stops) + Final(n) - b + 1
    BY <1>3
  <2>2. CASE Len(stops) = 0
    BY <2>1, <2>2, <1>1, <1>4, <1>l
  <2>3. CASE Len(stops) = 1
    <3>1. Len(m.waypoints) = a + 1 + Final(n) - b + 1
      BY <2>1, <2>3
    <3>2. Final(n) \in Nat /\ Final(n) < Most
      BY <2>3, <1>1, <1>l
    <3> QED BY <3>1, <3>2, <1>4
  <2> QED BY <2>2, <2>3, <1>l
<1>6. Distinct(m.waypoints)
  <2> DEFINE From(k) == IF k <= a THEN k ELSE k - a - Len(stops) + b - 1
             New(k) == ~(k <= a) /\ k <= a + Len(stops)
  <2>1. DOMAIN m.waypoints = 1..Len(m.waypoints) /\ Len(m.waypoints) \in Nat
    BY <1>3, LenProperties DEF Navigations
  <2>2. ASSUME NEW k \in 1..Len(m.waypoints)
        PROVE  /\ New(k) => m.waypoints[k] = p /\ k = a + 1 /\ ~Among(p, n.waypoints)
               /\ ~New(k) => m.waypoints[k] = n.waypoints[From(k)] /\ From(k) \in 1..Final(n)
    <3>1. CASE New(k)
      <4>1. Len(stops) = 1 /\ k = a + 1 /\ k - a = 1 /\ stops[1] = p /\ ~Among(p, n.waypoints)
        <5>1. k \in Nat /\ ~(k <= a) /\ k <= a + Len(stops)
          BY <3>1, <2>1
        <5>2. CASE Len(stops) = 0
          BY <5>1, <5>2, <1>4
        <5>3. CASE Len(stops) = 1
          <6>1. k <= a + 1
            BY <5>1, <5>3
          <6>2. k = a + 1
            BY <6>1, <5>1, <1>4
          <6> QED BY <6>2, <5>3, <1>4, <1>l
        <5> QED BY <5>2, <5>3, <1>l
      <4>2. m.waypoints[k] = stops[k - a]
        BY <3>1, <1>3
      <4> QED BY <3>1, <4>1, <4>2
    <3>2. CASE ~New(k) /\ k <= a
      <4>1. m.waypoints[k] = n.waypoints[k] /\ From(k) = k
        BY <3>2, <1>3
      <4> QED BY <3>2, <4>1, <1>1, <1>4, <2>1
    <3>3. CASE ~New(k) /\ ~(k <= a)
      <4>1. m.waypoints[k] = n.waypoints[k - a - Len(stops) + b - 1]
        BY <3>3, <1>3
      <4>2. k <= a + Len(stops) + Final(n) - b + 1 /\ k \in Nat /\ ~(k <= a + Len(stops))
        BY <3>3, <1>3, <2>1
      <4>3. From(k) = k - a - Len(stops) + b - 1
        BY <3>3
      <4>4. From(k) \in 1..Final(n)
        <5>1. Final(n) \in Nat /\ Len(stops) \in Nat
          BY <1>1, <1>l
        <5> QED BY <5>1, <4>2, <4>3, <1>4
      <4> QED BY <3>3, <4>1, <4>3, <4>4
    <3> QED BY <3>1, <3>2, <3>3
  <2>3. ASSUME NEW k \in 1..Len(m.waypoints), NEW l \in 1..Len(m.waypoints),
               ~New(k), ~New(l), From(k) = From(l)
        PROVE  k = l
    <3>1. k \in Nat /\ l \in Nat
      BY <2>1
    <3> QED BY <2>3, <3>1, <1>l, <1>4
  <2> HIDE DEF From
  <2>4. ASSUME NEW k \in 1..Len(m.waypoints), NEW l \in 1..Len(m.waypoints),
               New(k), ~New(l)
        PROVE  m.waypoints[k] # m.waypoints[l]
    <3>1. ~Among(p, n.waypoints)
      BY <2>4, <1>l, <1>4, <2>2
    <3>2. m.waypoints[l] = n.waypoints[From(l)] /\ From(l) \in DOMAIN n.waypoints
      BY <2>4, <2>2, <1>1
    <3> QED BY <2>4, <2>2, <3>1, <3>2 DEF Among
  <2>5. SUFFICES ASSUME NEW k \in 1..Len(m.waypoints), NEW l \in 1..Len(m.waypoints),
                        m.waypoints[k] = m.waypoints[l]
                 PROVE  k = l
    BY <2>1 DEF Distinct
  <2>6. CASE New(k) /\ New(l)
    BY <2>6, <2>2
  <2>7. CASE ~New(k) /\ ~New(l)
    <3>1. n.waypoints[From(k)] = n.waypoints[From(l)]
          /\ From(k) \in DOMAIN n.waypoints /\ From(l) \in DOMAIN n.waypoints
      BY <2>7, <2>2, <2>5, <1>1
    <3>2. From(k) = From(l)
      BY <3>1, <1>1 DEF Distinct
    <3> QED BY <2>7, <3>2, <2>3
  <2> QED BY <2>4, <2>5, <2>6, <2>7
<1>7. Distinct(m.routes)
  BY <1>3, <1>6, RoutesAreDistinct
<1> QED BY <1>3, <1>5, <1>6, <1>7 DEF IsNavigation

\* Every edit the agent expects of a navigation makes a route of the routes the car named:
\* each leads from its waypoint to the next, and the route still begins where it did
\* (_materialize_navigation_edit_goal_parameters and the workflows of the edits).
THEOREM EditsStayConnected ==
  ASSUME NEW P, NEW R, NEW n, Route(n, P, R), NEW p \in P, NEW i \in 1..Final(n), NEW name,
         NEW to \in Answers(P, R), NEW from \in Answers(P, R), Truly(to), Truly(from),
         NEW m \in Edits(n, i, p, name, to, from)
  PROVE  /\ m \in Navigations(P, R) /\ m.active /\ Connected(m)
         /\ Len(m.routes) = Len(m.waypoints) - 1
         /\ m.waypoints[1] = n.waypoints[1]
<1>1. PICK a \in 1..Final(n), b \in 2..(Final(n) + 1), stops \in Seq(P), legs \in Seq(R) :
        /\ b \in (a + 1)..(Final(n) + 1)
        /\ AtMostOne(n, b, p, stops)
        /\ m = Spliced(n, a, b, stops, legs)
        /\ LeadOver(n, a, b, stops, legs)
  <2>1. Final(n) \in Nat
    BY LenProperties DEF Route, Navigations, Final
  <2> QED BY <2>1, EditIsSplice
<1>3. /\ m \in Navigations(P, R) /\ m.active
      /\ Len(m.waypoints) = a + Len(stops) + Final(n) - b + 1
      /\ Len(m.routes) = Len(m.waypoints) - 1
      /\ \A k \in 1..Len(m.waypoints) :
           m.waypoints[k] = IF k <= a THEN n.waypoints[k]
                            ELSE IF k <= a + Len(stops) THEN stops[k - a]
                            ELSE n.waypoints[k - a - Len(stops) + b - 1]
      /\ Connected(m)
  <2>1. b \in (a + 1)..(Final(n) + 1) /\ m = Spliced(n, a, b, stops, legs)
    BY <1>1
  <2>2. LeadOver(n, a, b, stops, legs)
    BY <1>1
  <2>3. Rerouted(P, R, m, n, a, stops, b)
    BY <2>1, <2>2, SplicedIsConnected, Zenon
  <2>4. Len(n.waypoints) = Final(n)
    BY DEF Final
  <2> QED BY <2>3, <2>4 DEF Rerouted, Between
<1>4. Final(n) \in Nat /\ Len(stops) \in Nat
  BY LenProperties DEF Route, Navigations, Final
<1>5. 1 \in 1..Len(m.waypoints) /\ 1 <= a
  <2>1. a \in Nat /\ b \in Nat /\ 1 <= a /\ b <= Final(n) + 1
    BY <1>1, <1>4
  <2>2. Len(m.waypoints) = a + Len(stops) + Final(n) - b + 1
    BY <1>3
  <2> QED BY <2>1, <2>2, <1>4
<1>6. m.waypoints[1] = n.waypoints[1]
  BY <1>3, <1>5
<1> QED BY <1>3, <1>6

\* When there is room for a new place that is not on the route, the car after the edit is
\* one the agent can read again (_navigation_state_signature).  The code asks for
\* the second only before it adds a waypoint, and for the first nowhere.
THEOREM EditsStayReadable ==
  ASSUME NEW P, NEW R, NEW n, Route(n, P, R), NEW p \in P, NEW i \in 1..Final(n), NEW name,
         NEW to \in Answers(P, R), NEW from \in Answers(P, R), Truly(to), Truly(from),
         NEW m \in Edits(n, i, p, name, to, from), Most \in Nat,
         Final(n) < Most, ~Among(p, n.waypoints)
  PROVE  IsNavigation(m)
<1>1. PICK a \in 1..Final(n), b \in 2..(Final(n) + 1), stops \in Seq(P), legs \in Seq(R) :
        /\ b \in (a + 1)..(Final(n) + 1)
        /\ AtMostOne(n, b, p, stops)
        /\ m = Spliced(n, a, b, stops, legs)
        /\ LeadOver(n, a, b, stops, legs)
  <2>1. Final(n) \in Nat
    BY LenProperties DEF Route, Navigations, Final
  <2> QED BY <2>1, EditIsSplice
<1>2. NewStop(n, b, p, stops)
  BY <1>1 DEF NewStop, AtMostOne
<1> QED BY <1>1, <1>2, SplicedIsNavigation, Z3

\* The answer to an edit is taken for its success only when it shows the waypoints and
\* the routes the agent expected, and no others (SetCompletionValidator.validate, with the
\* arguments _process_tool_results adds).
THEOREM CompletedEditIsShown ==
  ASSUME NEW call, call.tool \in EditTools,
         NEW m, m.waypoints # Unknown, m.routes # Unknown,
         NEW raw, Judged(call, {m}, raw) = "success"
  PROVE  Shown(call.tool, raw.returned) = <<m.waypoints, m.routes>>
<1> DEFINE args == CompletionArguments(call, {m})
           tool == call.tool
<1>1. /\ "expected_post_waypoint_ids" \in DOMAIN args /\ args["expected_post_waypoint_ids"] = m.waypoints
      /\ "expected_post_route_ids" \in DOMAIN args /\ args["expected_post_route_ids"] = m.routes
  BY DEF CompletionArguments
<1>2. Compared(tool, args, raw.returned) = "success"
  BY DEF Judged, validate
<1> HIDE DEF args, tool
<1>3. \A k \in DOMAIN Specs[tool] : Verdict(Specs[tool][k], args, raw.returned) = "success"
  BY <1>2 DEF Compared
<1>4. ASSUME NEW fields, NEW a, a # "", a \in DOMAIN args, args[a] # Unknown,
             Verdict(Expected(a, fields), args, raw.returned) = "success"
      PROVE  Field(raw.returned, fields) = args[a]
  BY <1>4 DEF Verdict, Given, Expected, Optional, Compare, Matches
<1>5. ASSUME NEW k \in DOMAIN Specs[tool], NEW fields, NEW a, a # "", a \in DOMAIN args,
             args[a] # Unknown, Specs[tool][k] = Expected(a, fields)
      PROVE  Field(raw.returned, fields) = args[a]
  <2>1. Verdict(Expected(a, fields), args, raw.returned) = "success"
    BY <1>3, <1>5
  <2> QED BY <2>1, <1>4, <1>5
<1>6. CASE tool = "navigation_add_one_waypoint"
  <2>1. /\ 6 \in DOMAIN Specs[tool] /\ 7 \in DOMAIN Specs[tool]
        /\ Specs[tool][6] = Expected("expected_post_waypoint_ids", StopsOfAdd)
        /\ Specs[tool][7] = Expected("expected_post_route_ids", LegsOfAdd)
    BY <1>6 DEF Specs
  <2>2. Field(raw.returned, StopsOfAdd) = m.waypoints
    BY <2>1, <1>1, <1>5
  <2>3. Field(raw.returned, LegsOfAdd) = m.routes
    BY <2>1, <1>1, <1>5
  <2> QED BY <2>2, <2>3, <1>6 DEF Shown, tool
<1>7. CASE tool = "navigation_delete_waypoint"
  <2>1. /\ 4 \in DOMAIN Specs[tool] /\ 5 \in DOMAIN Specs[tool]
        /\ Specs[tool][4] = Expected("expected_post_waypoint_ids", Stops)
        /\ Specs[tool][5] = Expected("expected_post_route_ids", Legs)
    BY <1>7 DEF Specs
  <2>2. Field(raw.returned, Stops) = m.waypoints
    BY <2>1, <1>1, <1>5
  <2>3. Field(raw.returned, Legs) = m.routes
    BY <2>1, <1>1, <1>5
  <2> QED BY <2>2, <2>3, <1>7 DEF Shown, tool
<1>8. CASE tool = "navigation_replace_final_destination"
  <2>1. /\ 4 \in DOMAIN Specs[tool] /\ 5 \in DOMAIN Specs[tool]
        /\ Specs[tool][4] = Expected("expected_post_waypoint_ids", Stops)
        /\ Specs[tool][5] = Expected("expected_post_route_ids", Legs)
    BY <1>8 DEF Specs
  <2>2. Field(raw.returned, Stops) = m.waypoints
    BY <2>1, <1>1, <1>5
  <2>3. Field(raw.returned, Legs) = m.routes
    BY <2>1, <1>1, <1>5
  <2> QED BY <2>2, <2>3, <1>8 DEF Shown, tool
<1>9. CASE tool = "navigation_replace_one_waypoint"
  <2>1. /\ 6 \in DOMAIN Specs[tool] /\ 7 \in DOMAIN Specs[tool]
        /\ Specs[tool][6] = Expected("expected_post_waypoint_ids", Stops)
        /\ Specs[tool][7] = Expected("expected_post_route_ids", Legs)
    BY <1>9 DEF Specs
  <2>2. Field(raw.returned, Stops) = m.waypoints
    BY <2>1, <1>1, <1>5
  <2>3. Field(raw.returned, Legs) = m.routes
    BY <2>1, <1>1, <1>5
  <2> QED BY <2>2, <2>3, <1>9 DEF Shown, tool
<1>10. tool \in EditTools
  BY DEF tool
<1> QED BY <1>6, <1>7, <1>8, <1>9, <1>10 DEF EditTools

\* So a completed edit leaves the car, by its own answer, on a connected route from where
\* the old one began.
THEOREM CompletedEditIsConnected ==
  ASSUME NEW P, NEW R, NEW n, Route(n, P, R), NEW p \in P, NEW i \in 1..Final(n), NEW name,
         NEW to \in Answers(P, R), NEW from \in Answers(P, R), Truly(to), Truly(from),
         NEW m \in Edits(n, i, p, name, to, from), m.waypoints # Unknown, m.routes # Unknown,
         NEW call, call.tool \in EditTools,
         NEW raw, Judged(call, {m}, raw) = "success"
  PROVE  LET shown == Shown(call.tool, raw.returned) IN
         /\ shown[1][1] = n.waypoints[1]
         /\ \A k \in DOMAIN shown[2] : Leads[shown[2][k]] = <<shown[1][k], shown[1][k + 1]>>
<1>1. Shown(call.tool, raw.returned) = <<m.waypoints, m.routes>>
  BY CompletedEditIsShown
<1>2. Connected(m) /\ m.waypoints[1] = n.waypoints[1]
  BY EditsStayConnected
<1>3. /\ m.waypoints[1] = n.waypoints[1]
      /\ \A k \in DOMAIN m.routes : Leads[m.routes[k]] = <<m.waypoints[k], m.waypoints[k + 1]>>
  BY <1>2 DEF Connected
<1> QED BY <1>1, <1>3

-----------------------------------------------------------------------------
(* What the user is told.                                                  *)

\* The last route is exchanged, whatever the stops.
LEMMA LastRoute ==
  ASSUME NEW R, NEW r \in Seq(R), Len(r) >= 1, NEW x \in R
  PROVE  /\ DOMAIN Splice(r, Len(r) - 1, <<x>>, Len(r) + 2) = 1..Len(r)
         /\ Splice(r, Len(r) - 1, <<x>>, Len(r) + 2)[Len(r)] = x
         /\ \A k \in 1..(Len(r) - 1) : Splice(r, Len(r) - 1, <<x>>, Len(r) + 2)[k] = r[k]
<1> DEFINE L == Len(r)
           t == Splice(r, L - 1, <<x>>, L + 2)
<1>1. L \in Nat /\ L >= 1
  BY LenProperties
<1>2. t = Splice(r, L - 1, <<x>>, L + 1)
  <2>1. SubSeq(r, L + 2, L) = <<>> /\ SubSeq(r, L + 1, L) = <<>>
    <3>1. L + 2 \in Int /\ L + 1 \in Int /\ L \in Int /\ L < L + 2 /\ L < L + 1
      BY <1>1
    <3> HIDE DEF L
    <3> QED BY <3>1, SubSeqEmpty
  <2> QED BY <2>1 DEF Splice
<1> DEFINE g == L - 1
           h == L + 1
<1>3. g \in 0..Len(r) /\ h \in (g + 1)..(Len(r) + 1) /\ g + 1 = L /\ g + 1 + L - h + 1 = L
  BY <1>1
<1>4. <<x>> \in Seq(R) /\ Len(<<x>>) = 1 /\ <<x>>[1] = x
  OBVIOUS
<1>5. PICK new \in Seq(R) : new = <<x>> /\ Len(new) = 1 /\ new[1] = x
  BY <1>4
<1> HIDE DEF g, h
<1>6. Between(R, Splice(r, g, new, h), r, g, new, h)
  <2>1. new \in Seq(R) /\ g \in 0..Len(r) /\ h \in (g + 1)..(Len(r) + 1)
    BY <1>3, <1>5
  <2> QED BY <2>1, SpliceOfSequence, Zenon
<1>7. t = Splice(r, g, new, h)
  BY <1>2, <1>5 DEF g, h
<1> HIDE DEF t
<1>8. t \in Seq(R) /\ Len(t) = L
  BY <1>3, <1>5, <1>6, <1>7 DEF Between
<1>9. \A k \in 1..L : t[k] = IF k <= g THEN r[k]
                             ELSE IF k <= g + 1 THEN new[k - g] ELSE r[k - g - 1 + h - 1]
  BY <1>3, <1>5, <1>6, <1>7 DEF Between
<1> HIDE DEF L
<1>10. DOMAIN t = 1..L
  BY <1>8, LenProperties
<1>11. t[L] = x
  <2>1. L \in 1..L /\ ~(L <= g) /\ L <= g + 1 /\ L - g = 1
    BY <1>1, <1>3
  <2> QED BY <2>1, <1>5, <1>9
<1>12. \A k \in 1..(L - 1) : t[k] = r[k]
  <2>1. \A k \in 1..(L - 1) : k \in 1..L /\ k <= g
    BY <1>1, <1>3
  <2> QED BY <2>1, <1>9
<1> QED BY <1>10, <1>11, <1>12, Zenon DEF t, L

\* The user is told of a toll after the destination was replaced just when there is one on
\* the whole of the new route (_replacement_destination_route_toll_state).
THEOREM TollOfNewDestinationIsTrue ==
  ASSUME NEW P, NEW R, NEW call, NEW goal, goal.route \in R, NEW state, NEW options, NEW now,
         state.navigation \in Navigations(P, R),
         state.details \in Answers(P, R), Truly(state.details),
         options.answer \in Answers(P, R), Truly(options.answer),
         NEW told \in TollAfterReplacingDestination(call, goal, state, options, now)
  PROVE  told <=> HasToll(goal.expected)
<1> DEFINE n == state.navigation
           d == state.details
           r == n.routes
           L == Len(r)
<1>1. /\ IsNavigation(n) /\ n.active
      /\ goal.expected = DestinationReplaced(n, goal.destination, goal.route)
      /\ Describes(d, n)
      /\ \E o \in Options(options.answer, goal.start, goal.destination) :
           /\ o.id = goal.route
           /\ told = ((\E k \in 1..(Len(d) - 1) : d[k].toll) \/ o.toll)
  BY DEF TollAfterReplacingDestination
<1>2. PICK o \in Options(options.answer, goal.start, goal.destination) :
           /\ o.id = goal.route
           /\ told = ((\E k \in 1..(Len(d) - 1) : d[k].toll) \/ o.toll)
  BY <1>1
<1>3. o.toll <=> goal.route \in Tolled
  BY <1>2, OptionLeads
<1>4. /\ r \in Seq(R) /\ L \in Nat /\ L >= 1 /\ Final(n) - 1 = L /\ Len(d) = L
      /\ DOMAIN r = 1..L /\ DOMAIN d = 1..L
  BY <1>1, LenProperties DEF IsNavigation, Navigations, Final, Describes, Answers
<1>5. \A k \in 1..L : d[k].toll <=> r[k] \in Tolled
  BY <1>1, <1>4 DEF Truly, Describes
<1> DEFINE t == Splice(r, L - 1, <<goal.route>>, L + 2)
<1>6. goal.expected.routes = t
  <2>1. goal.expected.routes = Splice(r, Final(n) - 1 - 1, <<goal.route>>, Final(n) + 1)
    BY <1>1 DEF DestinationReplaced, Replaced, Spliced
  <2>2. Final(n) - 1 - 1 = L - 1 /\ Final(n) + 1 = L + 2
    BY <1>4, LenProperties DEF Navigations, Final
  <2> QED BY <2>1, <2>2
<1>7. DOMAIN t = 1..L /\ t[L] = goal.route /\ \A k \in 1..(L - 1) : t[k] = r[k]
  <2>1. r \in Seq(R) /\ Len(r) >= 1
    BY <1>4
  <2> HIDE DEF r
  <2> QED BY <2>1, LastRoute
<1> HIDE DEF t, L, d, n
<1>8. HasToll(goal.expected) <=> \E k \in 1..L : t[k] \in Tolled
  BY <1>6, <1>7 DEF HasToll
<1>9. (\E k \in 1..L : t[k] \in Tolled) <=> (\E k \in 1..(L - 1) : r[k] \in Tolled) \/ goal.route \in Tolled
  <2>1. \A k : k \in 1..L <=> k \in 1..(L - 1) \/ k = L
    BY <1>4
  <2> QED BY <2>1, <1>7
<1>10. (\E k \in 1..(L - 1) : r[k] \in Tolled) <=> (\E k \in 1..(Len(d) - 1) : d[k].toll)
  <2>1. \A k \in 1..(L - 1) : k \in 1..L
    BY <1>4
  <2> QED BY <2>1, <1>4, <1>5
<1> QED BY <1>2, <1>3, <1>8, <1>9, <1>10

\* The next stop and the toll of the route to it are told only after the first stop was
\* deleted, where it is the stop and the route that come next
\* (_navigation_waypoint_delete_completion).
THEOREM DeletionIsToldOfFirstStop ==
  ASSUME NEW P, NEW R, NEW n, Route(n, P, R), NEW i \in 2..(Final(n) - 1),
         NEW option, NEW call, NEW state, NEW options, NEW now,
         DeletionTold(call, DeletionGoal(n, i, option), state, options, now) # {}
  PROVE  i = 2
<1> DEFINE w == n.waypoints
           t == Splice(w, i - 1, <<>>, i + 1)
<1>1. w[i + 1] = t[2]
  BY DEF DeletionTold, DeletionGoal, Deleted, Spliced
<1>2. /\ w \in Seq(P) /\ Len(w) \in Nat /\ Final(n) = Len(w) /\ DOMAIN w = 1..Len(w)
      /\ Distinct(w)
  BY LenProperties DEF Route, Navigations, IsNavigation, Final
<1>3. SUFFICES ASSUME i # 2 PROVE FALSE
  OBVIOUS
<1> DEFINE g == i - 1
           h == i + 1
<1>4. /\ g \in 0..Len(w) /\ h \in (g + 1)..(Len(w) + 1) /\ g >= 2
      /\ 2 \in 1..(g + 0 + Len(w) - h + 1)
      /\ 2 \in DOMAIN w /\ i + 1 \in DOMAIN w /\ i + 1 # 2
  BY <1>2, <1>3
<1>5. PICK new \in Seq(P) : new = <<>> /\ Len(new) = 0
  BY EmptySeq
<1> HIDE DEF g, h, w
<1>6. Between(P, Splice(w, g, new, h), w, g, new, h)
  <2>1. new \in Seq(P) /\ w \in Seq(P) /\ g \in 0..Len(w) /\ h \in (g + 1)..(Len(w) + 1)
    BY <1>2, <1>4, <1>5
  <2> QED BY <2>1, SpliceOfSequence, Zenon
<1>7. Splice(w, g, new, h)[2] = w[2]
  BY <1>4, <1>5, <1>6 DEF Between
<1>8. t = Splice(w, g, new, h)
  BY <1>5 DEF g, h
<1> QED BY <1>1, <1>2, <1>4, <1>7, <1>8 DEF Distinct
=============================================================================
