------------------------- MODULE Track2AgentProofs -------------------------
(***************************************************************************)
(* Proofs about Track2Agent: the model never sees a call without its       *)
(* result, it works along the plan of the present turn, the books of turns *)
(* and clients add up, and hints of the provider are followed.             *)
(***************************************************************************)
EXTENDS Track2Agent, TLAPS

Tails == {"none", "user", "tool", "calls", "text"}
Histories == [tail : Tails, open : Actions \cup {<<>>}]
Plans == {"none", "fresh", "old", "unused"}
Sums == [calls : 0 .. Cap, wait : 0 .. Cap]
Called == [kind : {"calls"}, calls : Actions]
Wires == [kind : {"text", "waits", "over"}] \cup Called
Inboxes == [kind : {"none", "user"}] \cup [kind : {"tools"}, results : Actions]
Sendings == [kind : {"none", "text"}] \cup Called
Turn == [at : {"request", "sleep", "apologise"}, ctx : Contexts, using : Plans,
         attempt : Nat, calls : 0 .. Cap, wait : 0 .. Cap, queued : 0 .. 2, quota : 0 .. Cap,
         why : {"none", "refused", "hinted", "broken", "malformed"}]
Bills == [calls : Int, wait : Int, whole : BOOLEAN]
Counts == [attempted : 0 .. ClientCap, successful : 0 .. ClientCap,
           lastAttempted : Int, lastSuccessful : Int, sumAttempted : Int, sumSuccessful : Int]

\* The types of what is kept for the contexts and of the clients.
Kinds ==
  /\ hist \in [Contexts -> Histories] /\ plan \in [Contexts -> Plans]
  /\ metrics \in [Contexts -> Sums] /\ paid \in [Contexts -> Sums]
  /\ wire \in [Contexts -> Wires] /\ inbox \in [Contexts -> Inboxes] /\ sending \in [Contexts -> Sendings]
  /\ cancels \subseteq Contexts /\ spoiled \subseteq Contexts /\ unsent \subseteq Contexts
  /\ loop \in Turn \cup {Idle}
  /\ bill \in [Contexts -> Bills]
  /\ client \in [Clients -> Counts]

\* The event loop is in an execution for the context.
Busy(c) == loop.at # "idle" /\ loop.ctx = c

\* A message is in one place: with the user or the simulator, waiting to be executed, in
\* execution, or waiting to be enqueued.
OnePlace(c) ==
  /\ wire[c].kind # "waits" => inbox[c].kind = "none" /\ ~ Busy(c) /\ sending[c].kind = "none"
  /\ inbox[c].kind # "none" => ~ Busy(c) /\ sending[c].kind = "none"
  /\ Busy(c) => sending[c].kind = "none"

\* Calls that wait for their results are those that are on their way, and what comes back
\* has their results; unless an answer was not delivered, no one but the simulator speaks.
CallsFit(c) ==
  /\ hist[c].open # <<>> => hist[c].tail = "calls"
  /\ hist[c].tail = "calls" =>
       /\ ~ Busy(c)
       /\ sending[c].kind = "calls" => sending[c].calls = hist[c].open
       /\ wire[c].kind = "calls" => wire[c].calls = hist[c].open
       /\ inbox[c].kind = "tools" => inbox[c].results \in {hist[c].open, Reverse(hist[c].open)}
       /\ c \notin unsent => "text" \notin {wire[c].kind, sending[c].kind} /\ inbox[c].kind # "user"

\* While calls are made there is a plan, and it is that of the present turn unless the turn
\* goes on from calls that were not delivered.
PlanFits(c) ==
  /\ ~ Planner => plan[c] = "none"
  /\ Planner => plan[c] # "unused"
  /\ Planner /\ hist[c].tail = "calls" =>
       plan[c] # "none" /\ (plan[c] = "fresh" \/ c \in unsent)
  /\ Busy(c) =>
       /\ ~ Planner => loop.using = "unused"
       /\ Planner => loop.using # "unused"
       /\ loop.using = "old" => c \in unsent

\* What was paid since metrics were last published is in the metrics of the turn and in the
\* execution, or the turn has failed.
BooksFit(c) ==
  LET spent(kept, now) == IF Busy(c) THEN Capped(kept + now) ELSE kept
      calls == IF Busy(c) THEN loop.calls ELSE 0
      wait == IF Busy(c) THEN loop.wait ELSE 0
  IN /\ paid[c].calls >= spent(metrics[c].calls, calls)
     /\ paid[c].wait >= spent(metrics[c].wait, wait)
     /\ c \notin spoiled => /\ paid[c].calls = spent(metrics[c].calls, calls)
                            /\ paid[c].wait = spent(metrics[c].wait, wait)
     /\ Busy(c) /\ loop.at = "apologise" => c \in spoiled

CountsFit == \A r \in Clients : client[r].successful <= client[r].attempted

Serves ==
  /\ Kinds /\ BillAddsUp /\ ReportsAddUp /\ CountsFit
  /\ \A c \in Contexts : OnePlace(c) /\ CallsFit(c) /\ PlanFits(c) /\ BooksFit(c)

-----------------------------------------------------------------------------
(* The calls of a message and their results.                               *)

\* Calls that a model makes at once are one or two.
LEMMA CallsAreFew ==
  ASSUME NEW a \in Actions
  PROVE  \/ a \in [1 .. 1 -> Tools] /\ Len(a) = 1
         \/ a \in [1 .. 2 -> Tools] /\ Len(a) = 2
<1>1. PICK n \in 1 .. 2 : a \in [1 .. n -> Tools]
    BY DEF Actions
<1>2. a \in Seq(Tools) /\ Len(a) = n
    BY <1>1
<1>3. n = 1 \/ n = 2
    OBVIOUS
<1> QED
    BY <1>1, <1>2, <1>3

\* One or two tools are calls that a model makes at once.
LEMMA FewAreCalls ==
  ASSUME NEW n \in 1 .. 2, NEW a \in [1 .. n -> Tools]
  PROVE  a \in Actions /\ Len(a) = n
<1>1. a \in Actions
    BY DEF Actions
<1>2. Len(a) = n
    OBVIOUS
<1> QED
    BY <1>1, <1>2

\* The results can come back in the reverse order.
LEMMA ReversedCalls ==
  ASSUME NEW a \in Actions
  PROVE  a # <<>> /\ Reverse(a) \in Actions /\ Len(Reverse(a)) = Len(a)
         /\ \A i \in 1 .. Len(a) : Reverse(a)[i] = a[Len(a) - i + 1]
<1>1. CASE a \in [1 .. 1 -> Tools] /\ Len(a) = 1
    <2>1. Reverse(a) \in [1 .. 1 -> Tools] /\ Reverse(a)[1] = a[1]
        BY <1>1 DEF Reverse
    <2>2. Reverse(a) \in Actions /\ Len(Reverse(a)) = 1
        BY <2>1, FewAreCalls
    <2>3. \A i \in 1 .. 1 : i = 1 /\ 1 - i + 1 = 1
        OBVIOUS
    <2> QED
        BY <1>1, <2>1, <2>2, <2>3
<1>2. CASE a \in [1 .. 2 -> Tools] /\ Len(a) = 2
    <2>1. Reverse(a) \in [1 .. 2 -> Tools] /\ \A i \in 1 .. 2 : Reverse(a)[i] = a[2 - i + 1]
        BY <1>2 DEF Reverse
    <2>2. Reverse(a) \in Actions /\ Len(Reverse(a)) = 2
        BY <2>1, FewAreCalls
    <2> QED
        BY <1>2, <2>1, <2>2
<1> QED
    BY <1>1, <1>2, CallsAreFew

\* The result of one call takes that call.
LEMMA MatchedLast ==
  ASSUME NEW o \in [1 .. 1 -> Tools]
  PROVE  Matched(o, o[1]) = <<>>
<1> DEFINE at == {i \in DOMAIN o : o[i] = o[1]}
           k == CHOOSE i \in at : \A j \in at : i <= j
<1>1. at = {1} /\ Len(o) = 1
    OBVIOUS
<1>2. k \in at
    BY <1>1
<1>3. Matched(o, o[1]) = [i \in 1 .. Len(o) - 1 |-> IF i < k THEN o[i] ELSE o[i + 1]]
    BY <1>1 DEF Matched
<1>4. 1 .. Len(o) - 1 = {}
    BY <1>1
<1> HIDE DEF k, at
<1> QED
    BY <1>3, <1>4

\* The result of one of two calls leaves the other, whether or not they are of one tool.
LEMMA MatchedOne ==
  ASSUME NEW o \in [1 .. 2 -> Tools], NEW n \in 1 .. 2
  PROVE  Matched(o, o[n]) \in [1 .. 1 -> Tools] /\ Matched(o, o[n])[1] = o[3 - n]
<1> DEFINE at == {i \in DOMAIN o : o[i] = o[n]}
           k == CHOOSE i \in at : \A j \in at : i <= j
           rest == [i \in 1 .. 1 |-> IF i < k THEN o[i] ELSE o[i + 1]]
<1>1. at # {} /\ at \subseteq {1, 2} /\ n \in at /\ Len(o) = 2
    OBVIOUS
<1>2. k \in at /\ \A j \in at : k <= j
    <2>1. \E i \in at : \A j \in at : i <= j
        BY <1>1
    <2> HIDE DEF at
    <2> QED
        BY <2>1
<1>3. Matched(o, o[n]) = [i \in 1 .. Len(o) - 1 |-> IF i < k THEN o[i] ELSE o[i + 1]]
    BY <1>1 DEF Matched
<1>4. Matched(o, o[n]) = rest
    BY <1>1, <1>3
<1>5. k \in {1, 2} /\ k <= n /\ o[k] = o[n]
    BY <1>1, <1>2
<1> HIDE DEF k, at
<1>6. rest[1] = IF k = 1 THEN o[2] ELSE o[1]
    BY <1>5
<1>7. (IF k = 1 THEN o[2] ELSE o[1]) = o[3 - n]
    <2>1. CASE n = 1
        BY <1>5, <2>1
    <2>2. CASE n = 2
        BY <1>5, <2>2
    <2> QED
        BY <2>1, <2>2
<1> QED
    BY <1>4, <1>6, <1>7

\* The first results of a list are matched one after the other.
LEMMA AnsweredByOne ==
  ASSUME NEW o, NEW r, Len(r) = 1
  PROVE  Answered(o, r) = Matched(o, r[1])
<1> DEFINE f == [n \in 0 .. 1 |-> IF n = 0 THEN o ELSE Matched(o, r[1])]
           Fits(g) == g = [n \in 0 .. Len(r) |-> IF n = 0 THEN o ELSE Matched(g[n - 1], r[n])]
           rest == CHOOSE g : Fits(g)
<1>1. Fits(f)
    OBVIOUS
<1>2. Fits(rest)
    BY <1>1
<1>3. Answered(o, r) = rest[Len(r)]
    BY DEF Answered
<1> HIDE DEF rest
<1>4. rest = [n \in 0 .. 1 |-> IF n = 0 THEN o ELSE Matched(rest[n - 1], r[n])]
    BY <1>2
<1>5. rest[0] = o /\ rest[1] = Matched(rest[0], r[1])
    BY <1>4
<1> QED
    BY <1>3, <1>5

\* Two results are matched one after the other.
LEMMA AnsweredByTwo ==
  ASSUME NEW o, NEW r, Len(r) = 2
  PROVE  Answered(o, r) = Matched(Matched(o, r[1]), r[2])
<1> DEFINE f == [n \in 0 .. 2 |-> IF n = 0 THEN o ELSE IF n = 1 THEN Matched(o, r[1])
                                 ELSE Matched(Matched(o, r[1]), r[2])]
           Fits(g) == g = [n \in 0 .. Len(r) |-> IF n = 0 THEN o ELSE Matched(g[n - 1], r[n])]
           rest == CHOOSE g : Fits(g)
<1>1. Fits(f)
    <2>1. \A n \in 0 .. 2 : f[n] = IF n = 0 THEN o ELSE Matched(f[n - 1], r[n])
        <3>1. f[0] = o /\ f[1] = Matched(o, r[1]) /\ f[2] = Matched(f[1], r[2])
            OBVIOUS
        <3>2. \A n \in 0 .. 2 : n = 0 \/ n = 1 \/ n = 2
            OBVIOUS
        <3> HIDE DEF f
        <3> QED
            BY <3>1, <3>2
    <2> QED
        BY <2>1
<1>2. Fits(rest)
    BY <1>1
<1>3. Answered(o, r) = rest[Len(r)]
    BY DEF Answered
<1> HIDE DEF rest
<1>4. rest = [n \in 0 .. 2 |-> IF n = 0 THEN o ELSE Matched(rest[n - 1], r[n])]
    BY <1>2
<1>5. rest[0] = o /\ rest[1] = Matched(rest[0], r[1]) /\ rest[2] = Matched(rest[1], r[2])
    BY <1>4
<1> QED
    BY <1>3, <1>5

\* When there is one result for each call, in either order, no call is left without one.
LEMMA AllAnswered ==
  ASSUME NEW a \in Actions, NEW r \in {a, Reverse(a)}
  PROVE  Answered(a, r) = <<>>
<1>1. CASE a \in [1 .. 1 -> Tools] /\ Len(a) = 1
    <2>1. Len(r) = 1 /\ r[1] = a[1]
        BY <1>1, ReversedCalls
    <2> QED
        BY <1>1, <2>1, AnsweredByOne, MatchedLast
<1>2. CASE a \in [1 .. 2 -> Tools] /\ Len(a) = 2
    <2>1. PICK n \in 1 .. 2 : r[1] = a[n] /\ r[2] = a[3 - n]
        <3>1. CASE r = a
            BY <1>2, <3>1
        <3>2. CASE r = Reverse(a)
            BY <1>2, <3>2, ReversedCalls
        <3> QED
            BY <3>1, <3>2
    <2>2. Len(r) = 2
        BY <1>2, ReversedCalls
    <2> DEFINE left == Matched(a, a[n])
    <2>3. left \in [1 .. 1 -> Tools] /\ left[1] = a[3 - n]
        BY <1>2, MatchedOne
    <2> HIDE DEF left
    <2>4. Matched(left, a[3 - n]) = <<>>
        BY <2>3, MatchedLast
    <2> QED
        BY <2>1, <2>2, <2>4, AnsweredByTwo DEF left
<1> QED
    BY <1>1, <1>2, CallsAreFew

-----------------------------------------------------------------------------
(* The completion client.                                                  *)

\* The counts of a client fit together.
Counted(cl) ==
  /\ cl \in Counts /\ cl.successful <= cl.attempted
  /\ cl.sumAttempted = cl.lastAttempted /\ cl.sumSuccessful = cl.lastSuccessful
  /\ cl.lastAttempted <= cl.attempted

\* An attempt, a success and a report keep them so.
LEMMA ClientCounts ==
  ASSUME NEW cl, Counted(cl)
  PROVE  Counted(Recorded(cl)) /\ Counted(Succeeded(cl)) /\ Counted(Reported(cl))
<1>1. ClientCap \in Nat /\ cl.attempted \in 0 .. ClientCap /\ cl.successful \in 0 .. ClientCap
      /\ cl.lastAttempted \in Int /\ cl.lastSuccessful \in Int
    BY Track2Assumption DEF Counted, Counts
<1> DEFINE a == AtMost(cl.attempted + 1, ClientCap)
           s == AtMost(cl.successful + 1, ClientCap)
<1>2. a \in 0 .. ClientCap /\ s \in 0 .. ClientCap /\ a >= cl.attempted /\ s <= a
    BY <1>1 DEF Counted, AtMost
<1>3. Recorded(cl) = [cl EXCEPT !.attempted = a]
    BY DEF Recorded
<1>4. Succeeded(cl) = [cl EXCEPT !.attempted = a, !.successful = s]
    <2>1. Recorded(cl).successful = cl.successful
        BY <1>3 DEF Counted, Counts
    <2> QED
        BY <1>3, <2>1 DEF Succeeded
<1> HIDE DEF a, s
<1>5. Counted(Recorded(cl))
    BY <1>1, <1>2, <1>3 DEF Counted, Counts
<1>6. Counted(Succeeded(cl))
    <2> DEFINE b == [cl EXCEPT !.attempted = a, !.successful = s]
    <2>1. b \in Counts
        BY <1>2 DEF Counted, Counts
    <2>2. /\ b.attempted = a /\ b.successful = s /\ b.sumAttempted = cl.sumAttempted
          /\ b.lastAttempted = cl.lastAttempted /\ b.sumSuccessful = cl.sumSuccessful
          /\ b.lastSuccessful = cl.lastSuccessful
        BY DEF Counted, Counts
    <2> HIDE DEF b
    <2>3. Counted(b)
        BY <1>1, <1>2, <2>1, <2>2 DEF Counted
    <2> QED
        BY <1>4, <2>3 DEF b
<1>7. Counted(Reported(cl))
    <2>1. cl.sumAttempted + (cl.attempted - cl.lastAttempted) = cl.attempted
          /\ cl.sumSuccessful + (cl.successful - cl.lastSuccessful) = cl.successful
        BY <1>1 DEF Counted
    <2>2. Reported(cl) = [cl EXCEPT !.sumAttempted = cl.attempted, !.sumSuccessful = cl.successful,
                                    !.lastAttempted = cl.attempted, !.lastSuccessful = cl.successful]
        BY <2>1 DEF Reported
    <2>3. cl.attempted \in Int /\ cl.successful \in Int
        BY <1>1
    <2> QED
        <3> DEFINE b == [cl EXCEPT !.sumAttempted = cl.attempted, !.sumSuccessful = cl.successful,
                                   !.lastAttempted = cl.attempted, !.lastSuccessful = cl.successful]
        <3>1. b \in Counts
            BY <2>3 DEF Counted, Counts
        <3>2. /\ b.attempted = cl.attempted /\ b.successful = cl.successful
              /\ b.sumAttempted = cl.attempted /\ b.lastAttempted = cl.attempted
              /\ b.sumSuccessful = cl.successful /\ b.lastSuccessful = cl.successful
            BY DEF Counted, Counts
        <3> HIDE DEF b
        <3>3. Counted(b)
            BY <2>3, <3>1, <3>2 DEF Counted
        <3> QED
            BY <2>2, <3>3 DEF b
<1> QED
    BY <1>5, <1>6, <1>7

AllCounted == client \in [Clients -> Counts] /\ ReportsAddUp /\ CountsFit

\* Whatever one client counts, the counts of all fit together.
LEMMA ClientsFit ==
  ASSUME AllCounted, NEW r \in Clients, NEW cl, Counted(cl),
         client' = [client EXCEPT ![r] = cl]
  PROVE  AllCounted'
BY DEF AllCounted, ReportsAddUp, CountsFit, Counted

\* Each client fits, given that all do.
LEMMA ClientFits ==
  ASSUME AllCounted, NEW r \in Clients
  PROVE  Counted(client[r])
BY DEF AllCounted, ReportsAddUp, CountsFit, Counted

-----------------------------------------------------------------------------
(* What a step leaves alone.                                               *)

Fits(c) == OnePlace(c) /\ CallsFit(c) /\ PlanFits(c) /\ BooksFit(c)

\* A step that has nothing to do with a context leaves what is known of it.
LEMMA OthersFit ==
  ASSUME NEW d, Fits(d), ~ Busy(d), ~ Busy(d)',
         UNCHANGED <<hist[d], plan[d], metrics[d], wire[d], inbox[d], sending[d], paid[d]>>,
         d \in unsent' <=> d \in unsent, d \in spoiled' <=> d \in spoiled
  PROVE  Fits(d)'
<1>1. OnePlace(d)'
    BY DEF Fits, OnePlace
<1>2. CallsFit(d)'
    BY DEF Fits, CallsFit
<1>3. PlanFits(d)'
    BY DEF Fits, PlanFits
<1>4. BooksFit(d)'
    BY DEF Fits, BooksFit
<1> QED
    BY <1>1, <1>2, <1>3, <1>4 DEF Fits

\* Nor does anything of a context change while the event loop sleeps or wakes.
LEMMA SameFits ==
  ASSUME NEW d, Fits(d), Busy(d)' = Busy(d),
         Busy(d) => loop'.using = loop.using /\ loop'.calls = loop.calls /\ loop'.wait = loop.wait
                    /\ (loop'.at = "apologise" => loop.at = "apologise"),
         UNCHANGED <<hist[d], plan[d], metrics[d], wire[d], inbox[d], sending[d], paid[d]>>,
         d \in unsent' <=> d \in unsent, d \in spoiled' <=> d \in spoiled
  PROVE  Fits(d)'
<1>1. OnePlace(d)'
    BY DEF Fits, OnePlace
<1>2. CallsFit(d)'
    BY DEF Fits, CallsFit
<1>3. PlanFits(d)'
    BY DEF Fits, PlanFits
<1>4. BooksFit(d)'
    BY DEF Fits, BooksFit
<1> QED
    BY <1>1, <1>2, <1>3, <1>4 DEF Fits

\* What is kept of the contexts besides what every step is about.
LEMMA ServesSplit ==
  Serves <=> Kinds /\ BillAddsUp /\ AllCounted /\ \A c \in Contexts : Fits(c)
BY DEF Serves, AllCounted, Fits, Kinds

\* The same of the state after a step.
LEMMA ServesAfter ==
  ASSUME Kinds', BillAddsUp', AllCounted', \A c \in Contexts : Fits(c)'
  PROVE  Serves'
BY DEF Serves, AllCounted, Fits, Kinds

\* The types of what is kept for one context.
LEMMA KindsOf ==
  ASSUME Kinds, NEW c \in Contexts
  PROVE  /\ hist[c] \in Histories /\ plan[c] \in Plans /\ metrics[c] \in Sums /\ paid[c] \in Sums
         /\ wire[c] \in Wires /\ inbox[c] \in Inboxes /\ sending[c] \in Sendings
         /\ loop \in Turn \cup {Idle} /\ bill[c] \in Bills
BY DEF Kinds

-----------------------------------------------------------------------------
(* The environment.                                                        *)

\* The user speaks only when it is her turn.
LEMMA UserSpeaksFits ==
  ASSUME Serves, NEW c \in Contexts, UserSpeaks(c)
  PROVE  Serves'
<1>0. Kinds /\ BillAddsUp /\ AllCounted /\ \A d \in Contexts : Fits(d)
    BY ServesSplit
<1>1. /\ inbox' = [inbox EXCEPT ![c] = [kind |-> "user"]]
      /\ wire' = [wire EXCEPT ![c] = [kind |-> "waits"]]
      /\ inbox[c].kind = "none" /\ wire[c].kind = "text"
      /\ UNCHANGED <<hist, plan, metrics, cancels, loop, client, sending, ghosts>>
    BY DEF UserSpeaks
<1>2. Kinds'
    <2>1. [kind |-> "user"] \in Inboxes /\ [kind |-> "waits"] \in Wires
        BY DEF Inboxes, Wires
    <2> QED
        BY <1>0, <1>1, <2>1 DEF Kinds, ghosts
<1>3. Fits(c)'
    <2>1. inbox'[c] = [kind |-> "user"] /\ wire'[c] = [kind |-> "waits"]
        BY <1>0, <1>1 DEF Kinds
    <2>2. UNCHANGED <<hist[c], plan[c], metrics[c], sending[c], paid[c], unsent, spoiled, Busy(c)>>
        BY <1>1 DEF ghosts, Busy
    <2>3. OnePlace(c)' /\ CallsFit(c)'
        BY <1>0, <1>1, <2>1, <2>2 DEF Fits, OnePlace, CallsFit
    <2>4. PlanFits(c)' /\ BooksFit(c)'
        BY <1>0, <1>1, <2>2 DEF Fits, PlanFits, BooksFit
    <2> QED
        BY <2>3, <2>4 DEF Fits
<1>4. ASSUME NEW d \in Contexts, d # c PROVE Fits(d)'
    BY <1>0, <1>1, <1>4, SameFits DEF ghosts, Busy
<1>5. BillAddsUp' /\ AllCounted'
    BY <1>0, <1>1 DEF BillAddsUp, AllCounted, ReportsAddUp, CountsFit, ghosts
<1> QED
    BY <1>2, <1>3, <1>4, <1>5, ServesAfter

\* The simulator returns one result for each call it got.
LEMMA ToolsReturnFits ==
  ASSUME Serves, NEW c \in Contexts, ToolsReturn(c)
  PROVE  Serves'
<1>0. Kinds /\ BillAddsUp /\ AllCounted /\ \A d \in Contexts : Fits(d)
    BY ServesSplit
<1>1. PICK r \in {wire[c].calls, Reverse(wire[c].calls)} :
        inbox' = [inbox EXCEPT ![c] = [kind |-> "tools", results |-> r]]
    BY DEF ToolsReturn
<1>2. /\ wire' = [wire EXCEPT ![c] = [kind |-> "waits"]]
      /\ inbox[c].kind = "none" /\ wire[c].kind = "calls"
      /\ UNCHANGED <<hist, plan, metrics, cancels, loop, client, sending, ghosts>>
    BY DEF ToolsReturn
<1>3. wire[c].calls \in Actions /\ r \in Actions
    <2>1. wire[c].calls \in Actions
        BY <1>0, <1>2, KindsOf DEF Wires, Called
    <2> QED
        BY <1>1, <2>1, ReversedCalls
<1>4. Kinds'
    <2>1. [kind |-> "tools", results |-> r] \in Inboxes /\ [kind |-> "waits"] \in Wires
        BY <1>3 DEF Inboxes, Wires
    <2> QED
        BY <1>0, <1>1, <1>2, <2>1 DEF Kinds, ghosts
<1>5. Fits(c)'
    <2>1. inbox'[c] = [kind |-> "tools", results |-> r] /\ wire'[c] = [kind |-> "waits"]
        BY <1>0, <1>1, <1>2 DEF Kinds
    <2>2. UNCHANGED <<hist[c], plan[c], metrics[c], sending[c], paid[c], unsent, spoiled, Busy(c)>>
        BY <1>2 DEF ghosts, Busy
    <2>3. OnePlace(c)'
        BY <1>0, <1>2, <2>1, <2>2 DEF Fits, OnePlace
    <2>4. CallsFit(c)'
        <3>1. hist[c].tail = "calls" => wire[c].calls = hist[c].open
            BY <1>0, <1>2 DEF Fits, CallsFit
        <3>2. hist[c].tail = "calls" => r \in {hist[c].open, Reverse(hist[c].open)}
            BY <1>1, <3>1
        <3> QED
            BY <1>0, <1>2, <2>1, <2>2, <3>2 DEF Fits, CallsFit
    <2>5. PlanFits(c)' /\ BooksFit(c)'
        BY <1>0, <1>2, <2>2 DEF Fits, PlanFits, BooksFit
    <2> QED
        BY <2>3, <2>4, <2>5 DEF Fits
<1>6. ASSUME NEW d \in Contexts, d # c PROVE Fits(d)'
    BY <1>0, <1>1, <1>2, <1>6, SameFits DEF ghosts, Busy
<1>7. BillAddsUp' /\ AllCounted'
    BY <1>0, <1>2 DEF BillAddsUp, AllCounted, ReportsAddUp, CountsFit, ghosts
<1> QED
    BY <1>4, <1>5, <1>6, <1>7, ServesAfter

\* A cancel that waits changes nothing yet.
LEMMA UserCancelsFits ==
  ASSUME Serves, NEW c \in Contexts, UserCancels(c)
  PROVE  Serves'
<1>0. Kinds /\ BillAddsUp /\ AllCounted /\ \A d \in Contexts : Fits(d)
    BY ServesSplit
<1>1. /\ cancels' = cancels \cup {c}
      /\ UNCHANGED <<hist, plan, metrics, wire, inbox, loop, client, sending, ghosts>>
    BY DEF UserCancels
<1>2. Kinds'
    BY <1>0, <1>1 DEF Kinds, ghosts
<1>3. \A d \in Contexts : Fits(d)'
    BY <1>0, <1>1, SameFits DEF ghosts, Busy
<1>4. BillAddsUp' /\ AllCounted'
    BY <1>0, <1>1 DEF BillAddsUp, AllCounted, ReportsAddUp, CountsFit, ghosts
<1> QED
    BY <1>2, <1>3, <1>4, ServesAfter

-----------------------------------------------------------------------------
(* Answers.                                                                *)

\* An answer that waits to be enqueued is nowhere else.
LEMMA SendingAlone ==
  ASSUME Serves, NEW c \in Contexts, sending[c].kind # "none"
  PROVE  wire[c].kind = "waits" /\ inbox[c].kind = "none" /\ ~ Busy(c)
BY ServesSplit DEF Fits, OnePlace

\* An answer that is enqueued goes to the user or to the simulator.
LEMMA DeliverFits ==
  ASSUME Serves, NEW c \in Contexts, Deliver(c)
  PROVE  Serves'
<1>0. Kinds /\ BillAddsUp /\ AllCounted /\ \A d \in Contexts : Fits(d)
    BY ServesSplit
<1>1. /\ wire' = [wire EXCEPT ![c] = sending[c]]
      /\ sending' = [sending EXCEPT ![c] = [kind |-> "none"]]
      /\ UNCHANGED <<hist, plan, metrics, inbox, cancels, loop, client, ghosts>>
      /\ sending[c].kind # "none"
    BY DEF Deliver
<1>2. Kinds'
    <2>1. [kind |-> "none"] \in Sendings
        BY DEF Sendings
    <2>2. sending[c] \in Wires
        BY <1>0, <1>1, KindsOf DEF Wires, Sendings
    <2> QED
        BY <1>0, <1>1, <2>1, <2>2 DEF Kinds, ghosts
<1>3. Fits(c)'
    <2>1. wire'[c] = sending[c] /\ sending'[c] = [kind |-> "none"]
        BY <1>0, <1>1 DEF Kinds
    <2>2. UNCHANGED <<hist[c], plan[c], metrics[c], inbox[c], paid[c], unsent, spoiled, Busy(c)>>
        BY <1>1 DEF ghosts, Busy
    <2>3. OnePlace(c)' /\ CallsFit(c)'
        BY <1>0, <1>1, <2>1, <2>2, SendingAlone DEF Fits, OnePlace, CallsFit
    <2>4. PlanFits(c)' /\ BooksFit(c)'
        BY <1>0, <1>1, <2>2 DEF Fits, PlanFits, BooksFit
    <2> QED
        BY <2>3, <2>4 DEF Fits
<1>4. ASSUME NEW d \in Contexts, d # c PROVE Fits(d)'
    BY <1>0, <1>1, <1>4, SameFits DEF ghosts, Busy
<1>5. BillAddsUp' /\ AllCounted'
    BY <1>0, <1>1 DEF BillAddsUp, AllCounted, ReportsAddUp, CountsFit, ghosts
<1> QED
    BY <1>2, <1>3, <1>4, <1>5, ServesAfter

\* An answer that cannot be enqueued is noted; a text takes its place, or nothing does.
LEMMA DeliverFailsFits ==
  ASSUME Serves, NEW c \in Contexts, DeliverFails(c)
  PROVE  Serves'
<1>0. Kinds /\ BillAddsUp /\ AllCounted /\ \A d \in Contexts : Fits(d)
    BY ServesSplit
<1>1. /\ sending' = [sending EXCEPT ![c] = [kind |-> "none"]]
      /\ unsent' = IF sending[c].kind = "calls" THEN unsent \cup {c} ELSE unsent
      /\ UNCHANGED <<hist, plan, metrics, inbox, cancels, loop, client, paid, bill, spoiled>>
      /\ sending[c].kind # "none"
    BY DEF DeliverFails
<1>2. PICK k \in {"text", "over"} : wire' = [wire EXCEPT ![c] = [kind |-> k]]
    BY DEF DeliverFails
<1>3. Kinds'
    <2>1. [kind |-> "none"] \in Sendings /\ [kind |-> k] \in Wires
        BY DEF Sendings, Wires
    <2> QED
        BY <1>0, <1>1, <1>2, <2>1 DEF Kinds
<1>4. Fits(c)'
    <2>1. wire'[c] = [kind |-> k] /\ sending'[c] = [kind |-> "none"]
        BY <1>0, <1>1, <1>2 DEF Kinds
    <2>2. UNCHANGED <<hist[c], plan[c], metrics[c], inbox[c], paid[c], spoiled, Busy(c)>>
        BY <1>1 DEF Busy
    <2>3. OnePlace(c)' /\ CallsFit(c)'
        <3>1. sending[c].kind \in {"calls", "text"}
            BY <1>0, <1>1, KindsOf DEF Sendings, Called
        <3>2. (c \in unsent => c \in unsent') /\ (sending[c].kind = "calls" => c \in unsent')
            BY <1>1
        <3> QED
            BY <1>0, <1>1, <2>1, <2>2, <3>1, <3>2, SendingAlone DEF Fits, OnePlace, CallsFit
    <2>4. PlanFits(c)' /\ BooksFit(c)'
        BY <1>0, <1>1, <2>2 DEF Fits, PlanFits, BooksFit
    <2> QED
        BY <2>3, <2>4 DEF Fits
<1>5. ASSUME NEW d \in Contexts, d # c PROVE Fits(d)'
    BY <1>0, <1>1, <1>2, <1>5, SameFits DEF Busy
<1>6. BillAddsUp' /\ AllCounted'
    BY <1>0, <1>1 DEF BillAddsUp, AllCounted, ReportsAddUp, CountsFit
<1> QED
    BY <1>3, <1>4, <1>5, <1>6, ServesAfter

\* What has failed ends with an apology.
LEMMA ApologiseFits ==
  ASSUME Serves, Apologise
  PROVE  Serves'
<1>0. Kinds /\ BillAddsUp /\ AllCounted /\ \A d \in Contexts : Fits(d)
    BY ServesSplit
<1>11. loop.at = "apologise" /\ loop.ctx \in Contexts
    BY <1>0 DEF Apologise, Kinds, Turn, Idle
<1>12. PICK c \in Contexts : c = loop.ctx
    BY <1>11
<1>1. /\ sending' = [sending EXCEPT ![c] = [kind |-> "text"]] /\ loop' = Idle
      /\ UNCHANGED <<hist, plan, metrics, wire, inbox, cancels, client, ghosts>>
      /\ loop.at = "apologise"
    BY <1>12 DEF Apologise
<1>2. Busy(c) /\ \A d \in Contexts : ~ Busy(d)' /\ (Busy(d) => d = c)
    BY <1>1, <1>12 DEF Idle, Busy
<1>3. Kinds'
    <2>1. [kind |-> "text"] \in Sendings
        BY DEF Sendings
    <2> QED
        BY <1>0, <1>1, <1>2, <2>1 DEF Kinds, ghosts
<1>4. Fits(c)'
    <2>1. sending'[c] = [kind |-> "text"]
        BY <1>0, <1>1, <1>2 DEF Kinds
    <2>2. UNCHANGED <<hist[c], plan[c], metrics[c], wire[c], inbox[c], paid[c], unsent, spoiled>>
        BY <1>1 DEF ghosts
    <2>3. OnePlace(c)' /\ CallsFit(c)' /\ PlanFits(c)'
        BY <1>0, <1>1, <1>2, <2>1, <2>2 DEF Fits, OnePlace, CallsFit, PlanFits
    <2>4. BooksFit(c)'
        <3>1. metrics[c].calls \in 0 .. Cap /\ metrics[c].wait \in 0 .. Cap
              /\ paid[c].calls \in Int /\ paid[c].wait \in Int
              /\ loop.calls \in Nat /\ loop.wait \in Nat /\ Cap \in Nat
            BY <1>0, <1>1, KindsOf, Track2Assumption DEF Sums, Turn, Idle
        <3>2. paid[c].calls >= Capped(metrics[c].calls + loop.calls)
              /\ paid[c].wait >= Capped(metrics[c].wait + loop.wait) /\ c \in spoiled
            BY <1>0, <1>1, <1>2 DEF Fits, BooksFit
        <3>3. paid[c].calls >= metrics[c].calls /\ paid[c].wait >= metrics[c].wait
            BY <3>1, <3>2 DEF Capped, AtMost
        <3> QED
            BY <1>2, <2>2, <3>2, <3>3 DEF BooksFit
    <2> QED
        BY <2>3, <2>4 DEF Fits
<1>5. ASSUME NEW d \in Contexts, d # c PROVE Fits(d)'
    BY <1>0, <1>1, <1>2, <1>5, OthersFit DEF ghosts
<1>6. BillAddsUp' /\ AllCounted'
    BY <1>0, <1>1 DEF BillAddsUp, AllCounted, ReportsAddUp, CountsFit, ghosts
<1> QED
    BY <1>3, <1>4, <1>5, <1>6, ServesAfter

\* A cancel drops everything that is kept.
LEMMA CancelFits ==
  ASSUME Serves, NEW c \in Contexts, Cancel(c)
  PROVE  Serves'
<1>0. Kinds /\ BillAddsUp /\ AllCounted /\ \A d \in Contexts : Fits(d)
    BY ServesSplit
<1>1. /\ loop = Idle /\ cancels' = cancels \ {c}
      /\ hist' = [hist EXCEPT ![c] = NewHistory] /\ plan' = [plan EXCEPT ![c] = "none"]
      /\ metrics' = [metrics EXCEPT ![c] = NoMetrics] /\ paid' = [paid EXCEPT ![c] = NoMetrics]
      /\ spoiled' = spoiled \ {c} /\ unsent' = unsent \ {c}
      /\ UNCHANGED <<wire, inbox, loop, client, sending, bill>>
    BY DEF Cancel
<1>2. \A d \in Contexts : ~ Busy(d) /\ ~ Busy(d)'
    BY <1>1 DEF Busy, Idle
<1>3. Kinds'
    <2>1. NewHistory \in Histories /\ "none" \in Plans /\ NoMetrics \in Sums
        BY Track2Assumption DEF NewHistory, Histories, Tails, Plans, NoMetrics, Sums
    <2> QED
        BY <1>0, <1>1, <2>1 DEF Kinds
<1>4. Fits(c)'
    <2>1. /\ hist'[c] = NewHistory /\ plan'[c] = "none" /\ metrics'[c] = NoMetrics
          /\ paid'[c] = NoMetrics /\ UNCHANGED <<wire[c], inbox[c], sending[c]>>
        BY <1>0, <1>1 DEF Kinds
    <2>2. OnePlace(c)' /\ CallsFit(c)' /\ PlanFits(c)'
        BY <1>0, <1>2, <2>1 DEF Fits, OnePlace, CallsFit, PlanFits, NewHistory
    <2>3. BooksFit(c)'
        BY <1>2, <2>1 DEF BooksFit, NoMetrics
    <2> QED
        BY <2>2, <2>3 DEF Fits
<1>5. ASSUME NEW d \in Contexts, d # c PROVE Fits(d)'
    BY <1>0, <1>1, <1>2, <1>5, OthersFit
<1>6. BillAddsUp' /\ AllCounted'
    BY <1>0, <1>1 DEF BillAddsUp, AllCounted, ReportsAddUp, CountsFit
<1> QED
    BY <1>3, <1>4, <1>5, <1>6, ServesAfter

-----------------------------------------------------------------------------
(* The execution of a message.                                             *)

\* A message that is taken leaves no call without its result, and finds the plan of its turn.
LEMMA BeginFits ==
  ASSUME Serves, NEW c \in Contexts, Begin(c)
  PROVE  Serves'
<1> DEFINE h == Appended(hist[c], inbox[c])
           p == IF inbox[c].kind = "user" THEN Aged(plan[c]) ELSE plan[c]
           kept == Retained(h, p)
           using == PlanFor(h, p)
<1>0. Kinds /\ BillAddsUp /\ AllCounted /\ (\A d \in Contexts : Fits(d)) /\ Cap \in Nat
    BY ServesSplit, Track2Assumption
<1>1. /\ loop = Idle /\ inbox[c].kind # "none"
      /\ hist' = [hist EXCEPT ![c] = h] /\ plan' = [plan EXCEPT ![c] = kept]
      /\ loop' = NewTurn(c, using)
      /\ inbox' = [inbox EXCEPT ![c] = [kind |-> "none"]]
      /\ unsent' = IF h.tail = "user" THEN unsent \ {c} ELSE unsent
      /\ UNCHANGED <<metrics, wire, cancels, client, sending, paid, bill, spoiled>>
    BY DEF Begin
<1>2. /\ h.open = <<>> /\ h \in Histories /\ h.tail \in {"user", "tool"}
      /\ h.tail = "tool" <=> hist[c].tail = "calls"
    <2>1. CASE hist[c].tail # "calls"
        BY <2>1 DEF Appended, Histories, Tails
    <2>2. CASE hist[c].tail = "calls" /\ inbox[c].kind = "user"
        BY <2>2 DEF Appended, Histories, Tails
    <2>3. CASE hist[c].tail = "calls" /\ inbox[c].kind = "tools"
        <3>1. inbox[c].results \in Actions
            BY <1>0, <2>3, KindsOf DEF Inboxes
        <3>2. inbox[c].results \in {hist[c].open, Reverse(hist[c].open)}
            BY <1>0, <2>3 DEF Fits, CallsFit
        <3>3. hist[c].open \in Actions
            <4>1. hist[c].open \in Actions \cup {<<>>}
                BY <1>0, KindsOf DEF Histories
            <4>2. hist[c].open # <<>>
                <5> SUFFICES ASSUME hist[c].open = <<>> PROVE FALSE
                    OBVIOUS
                <5>1. Reverse(<<>>) = <<>>
                    BY DEF Reverse
                <5>2. inbox[c].results = <<>>
                    BY <3>2, <5>1
                <5> QED
                    BY <3>1, <5>2, ReversedCalls
            <4> QED
                BY <4>1, <4>2
        <3>4. Answered(hist[c].open, inbox[c].results) = <<>>
            BY <3>2, <3>3, AllAnswered
        <3>5. h = [tail |-> "tool", open |-> <<>>]
            BY <2>3, <3>4 DEF Appended
        <3> QED
            BY <2>3, <3>5 DEF Histories, Tails
    <2>4. inbox[c].kind \in {"user", "tools"}
        BY <1>0, <1>1, KindsOf DEF Inboxes
    <2> QED
        BY <2>1, <2>2, <2>3, <2>4
<1>3. /\ kept \in Plans /\ using \in Plans
      /\ ~ Planner => kept = "none" /\ using = "unused"
      /\ Planner => kept # "unused" /\ using # "unused"
      /\ using = "old" => c \in unsent'
    <2>1. plan[c] \in Plans /\ inbox[c].kind \in {"user", "tools"}
        BY <1>0, <1>1, KindsOf DEF Inboxes
    <2>2. CASE ~ Planner
        <3>1. plan[c] = "none"
            BY <1>0, <2>2 DEF Fits, PlanFits
        <3> QED
            BY <2>2, <3>1 DEF Retained, PlanFor, Aged, Plans
    <2>3. CASE Planner /\ h.tail = "user"
        BY <2>3 DEF Retained, PlanFor, Plans
    <2>4. CASE Planner /\ h.tail # "user"
        <3>1. /\ hist[c].tail = "calls" /\ plan[c] \notin {"none", "unused"}
              /\ plan[c] = "fresh" \/ c \in unsent
              /\ c \notin unsent => inbox[c].kind # "user"
            BY <1>0, <1>2, <2>4 DEF Fits, PlanFits, CallsFit
        <3>2. kept = p /\ p \in {"fresh", "old"} /\ using = p
            BY <2>1, <2>4, <3>1 DEF Retained, PlanFor, Aged, Plans
        <3>3. p = "old" => c \in unsent'
            BY <1>1, <2>1, <2>4, <3>1
        <3> QED
            BY <2>4, <3>2, <3>3 DEF Plans
    <2> QED
        BY <2>2, <2>3, <2>4
<1> HIDE DEF h, kept, using, p
<1>4. Kinds'
    <2>1. NewTurn(c, using) \in Turn
        BY <1>0, <1>3 DEF NewTurn, Turn
    <2>2. [kind |-> "none"] \in Inboxes
        BY DEF Inboxes
    <2> QED
        BY <1>0, <1>1, <1>2, <1>3, <2>1, <2>2 DEF Kinds
<1>5. /\ Busy(c)' /\ loop'.using = using /\ loop'.calls = 0 /\ loop'.wait = 0 /\ loop'.at = "request"
      /\ \A d \in Contexts : ~ Busy(d) /\ (Busy(d)' => d = c)
    BY <1>1 DEF Busy, Idle, NewTurn
<1>6. Fits(c)'
    <2>1. /\ hist'[c] = h /\ plan'[c] = kept /\ inbox'[c] = [kind |-> "none"]
          /\ UNCHANGED <<metrics[c], wire[c], sending[c], paid[c], spoiled>>
        BY <1>0, <1>1 DEF Kinds
    <2>2. OnePlace(c)' /\ CallsFit(c)'
        BY <1>0, <1>1, <1>2, <2>1 DEF Fits, OnePlace, CallsFit
    <2>3. PlanFits(c)'
        BY <1>2, <1>3, <1>5, <2>1 DEF PlanFits
    <2>4. BooksFit(c)'
        <3>1. metrics[c].calls \in 0 .. Cap /\ metrics[c].wait \in 0 .. Cap
            BY <1>0, KindsOf DEF Sums
        <3>2. Capped(metrics[c].calls + 0) = metrics[c].calls /\ Capped(metrics[c].wait + 0) = metrics[c].wait
            BY <1>0, <3>1 DEF Capped, AtMost
        <3> QED
            BY <1>0, <1>5, <2>1, <3>2 DEF Fits, BooksFit
    <2> QED
        BY <2>2, <2>3, <2>4 DEF Fits
<1>7. ASSUME NEW d \in Contexts, d # c PROVE Fits(d)'
    BY <1>0, <1>1, <1>5, <1>7, OthersFit
<1>8. BillAddsUp' /\ AllCounted'
    BY <1>0, <1>1 DEF BillAddsUp, AllCounted, ReportsAddUp, CountsFit
<1> QED
    BY <1>4, <1>6, <1>7, <1>8, ServesAfter

\* An execution is for one context, and its model calls are made by one of the clients.
LEMMA InExecution ==
  ASSUME Serves, loop.at # "idle"
  PROVE  loop \in Turn /\ Role \in Clients /\ Busy(loop.ctx)
         /\ \A d \in Contexts : Busy(d) <=> d = loop.ctx
BY DEF Serves, Kinds, Turn, Idle, Role, Clients, Busy

\* What does not end an execution, nor charge it, leaves everything else as it was.
LEMMA GoesOn ==
  ASSUME Serves, loop.at # "idle", NEW l \in Turn, loop' = l,
         l.ctx = loop.ctx, l.using = loop.using, l.calls = loop.calls, l.wait = loop.wait,
         AllCounted', UNCHANGED <<hist, plan, metrics, wire, inbox, cancels, sending, paid, bill, unsent>>,
         \/ l.at # "apologise" /\ spoiled' = spoiled
         \/ loop.at # "apologise" /\ spoiled' = spoiled \cup {loop.ctx}
  PROVE  Serves'
<1>0. Kinds /\ BillAddsUp /\ AllCounted /\ \A d \in Contexts : Fits(d)
    BY ServesSplit
<1>1. PICK c \in Contexts : c = loop.ctx
    BY InExecution DEF Turn
<1>2. /\ l.at # "idle" /\ \A d \in Contexts : (Busy(d) <=> d = c) /\ (Busy(d)' <=> d = c)
    BY <1>1, InExecution DEF Busy, Turn
<1>3. Kinds'
    BY <1>0, <1>1 DEF Kinds, AllCounted
<1>4. Fits(c)'
    <2>1. OnePlace(c)' /\ CallsFit(c)' /\ PlanFits(c)'
        BY <1>0, <1>2 DEF Fits, OnePlace, CallsFit, PlanFits
    <2>2. BooksFit(c)'
        BY <1>0, <1>1, <1>2 DEF Fits, BooksFit
    <2> QED
        BY <2>1, <2>2 DEF Fits
<1>5. ASSUME NEW d \in Contexts, d # c PROVE Fits(d)'
    BY <1>0, <1>1, <1>2, <1>5, OthersFit
<1>6. BillAddsUp'
    BY <1>0 DEF BillAddsUp
<1> QED
    BY <1>3, <1>4, <1>5, <1>6, ServesAfter

\* The waits that are known from a refusal are numbers of seconds.
LEMMA WaitsAreSeconds ==
  ASSUME NEW sig \in Signals, NEW n \in Nat, NEW w \in Waits(sig, n)
  PROVE  w \in Nat
<1>1. \A s \in Headers : s # Absent => Buffered(s) \in Nat
    BY Track2Assumption DEF Headers, Buffered
<1>2. Backoff(n) \subseteq Nat
    BY DEF Backoff
<1>3. sig.tokens \in Headers /\ sig.day \in Headers /\ sig.after \in Headers
    BY DEF Signals
<1> QED
    BY <1>1, <1>2, <1>3 DEF Waits

\* A request that is refused sleeps or fails.
LEMMA RefuseFits ==
  ASSUME Serves, NEW sig \in Signals, Refuse(sig)
  PROVE  Serves'
<1>1. loop.at = "request" /\ client' = [client EXCEPT ![Role] = Reported(Recorded(@))]
      /\ UNCHANGED <<hist, plan, metrics, wire, inbox, cancels, sending>>
    BY DEF Refuse
<1>2. loop \in Turn /\ Role \in Clients /\ AllCounted
    BY <1>1, InExecution, ServesSplit
<1>3. AllCounted'
    BY <1>1, <1>2, ClientFits, ClientCounts, ClientsFit
<1>4. ASSUME NEW w \in Waits(sig, loop.queued + 1),
             loop' = [loop EXCEPT !.at = "sleep",
                        !.queued = IF sig.queue /\ @ < 2 THEN @ + 1 ELSE @,
                        !.quota = IF QuotaEligible(sig) THEN Capped(@ + w) ELSE @],
             UNCHANGED ghosts
      PROVE  Serves'
    <2> DEFINE queued == IF sig.queue /\ loop.queued < 2 THEN loop.queued + 1 ELSE loop.queued
               quota == IF QuotaEligible(sig) THEN Capped(loop.quota + w) ELSE loop.quota
               l == [loop EXCEPT !.at = "sleep", !.queued = queued, !.quota = quota]
    <2>1. loop.queued \in 0 .. 2 /\ loop.quota \in 0 .. Cap /\ Cap \in Nat
        BY <1>2, Track2Assumption DEF Turn
    <2>2. w \in Nat
        BY <2>1, WaitsAreSeconds
    <2>3. queued \in 0 .. 2 /\ quota \in 0 .. Cap
        BY <2>1, <2>2 DEF Capped, AtMost
    <2>4. loop' = l
        BY <1>4
    <2> HIDE DEF queued, quota
    <2>5. l \in Turn
        BY <1>2, <2>3 DEF Turn
    <2>6. l.ctx = loop.ctx /\ l.using = loop.using /\ l.calls = loop.calls /\ l.wait = loop.wait
          /\ l.at = "sleep"
        BY <1>2 DEF Turn
    <2> HIDE DEF l
    <2> QED
        BY <1>1, <1>3, <1>4, <2>4, <2>5, <2>6, GoesOn DEF ghosts
<1>5. ASSUME Fails(IF Waits(sig, 1) = {} THEN "refused" ELSE "hinted")
      PROVE  Serves'
    <2>1. PICK why \in {"refused", "hinted"} : Fails(why)
        BY <1>5
    <2> DEFINE l == [loop EXCEPT !.at = "apologise", !.why = why]
    <2>2. loop' = l /\ spoiled' = spoiled \cup {loop.ctx} /\ UNCHANGED <<paid, bill, unsent>>
        BY <2>1 DEF Fails
    <2>3. l \in Turn /\ l.ctx = loop.ctx /\ l.using = loop.using /\ l.calls = loop.calls
          /\ l.wait = loop.wait
        BY <1>2 DEF Turn
    <2> HIDE DEF l
    <2> QED
        BY <1>1, <1>3, <2>2, <2>3, GoesOn
<1> QED
    BY <1>4, <1>5 DEF Refuse

\* A sleep ends.
LEMMA WakeFits ==
  ASSUME Serves, Wake
  PROVE  Serves'
<1> DEFINE l == [loop EXCEPT !.at = "request"]
<1>1. loop.at = "sleep" /\ loop' = l
      /\ UNCHANGED <<hist, plan, metrics, wire, inbox, cancels, client, sending, ghosts>>
    BY DEF Wake
<1>2. loop \in Turn /\ AllCounted
    BY <1>1, InExecution, ServesSplit
<1>3. l \in Turn /\ l.ctx = loop.ctx /\ l.using = loop.using /\ l.calls = loop.calls
      /\ l.wait = loop.wait /\ l.at = "request"
    BY <1>2 DEF Turn
<1>4. AllCounted'
    BY <1>1, <1>2 DEF AllCounted, ReportsAddUp, CountsFit
<1> HIDE DEF l
<1> QED
    BY <1>1, <1>3, <1>4, GoesOn DEF ghosts

\* A request fails.
LEMMA BreakFits ==
  ASSUME Serves, Break
  PROVE  Serves'
<1> DEFINE l == [loop EXCEPT !.at = "apologise", !.why = "broken"]
<1>1. loop.at = "request" /\ loop' = l /\ client' = [client EXCEPT ![Role] = Recorded(@)]
      /\ spoiled' = spoiled \cup {loop.ctx}
      /\ UNCHANGED <<hist, plan, metrics, wire, inbox, cancels, sending, paid, bill, unsent>>
    BY DEF Break, Fails
<1>2. loop \in Turn /\ Role \in Clients /\ AllCounted
    BY <1>1, InExecution, ServesSplit
<1>3. l \in Turn /\ l.ctx = loop.ctx /\ l.using = loop.using /\ l.calls = loop.calls
      /\ l.wait = loop.wait
    BY <1>2 DEF Turn
<1>4. AllCounted'
    BY <1>1, <1>2, ClientFits, ClientCounts, ClientsFit
<1> HIDE DEF l
<1> QED
    BY <1>1, <1>3, <1>4, GoesOn

\* Adding up before and after the cap is the same.
LEMMA SumsAgree ==
  ASSUME NEW m \in Nat, NEW l \in Nat, NEW p \in Nat, NEW q \in Nat, p >= Capped(m + l)
  PROVE  /\ Capped(p + q) >= Capped(m + Capped(l + q))
         /\ p = Capped(m + l) => Capped(p + q) = Capped(m + Capped(l + q))
         /\ Capped(p + q) \in 0 .. Cap /\ Capped(m + Capped(l + q)) \in 0 .. Cap
         /\ Capped(l + q) \in 0 .. Cap
<1>1. Cap \in Nat
    BY Track2Assumption
<1> QED
    BY <1>1 DEF Capped, AtMost

\* An answer of the model is paid for, and charged to the execution.
LEMMA ChargedFits ==
  ASSUME Serves, loop.at = "request", NEW c \in Contexts, c = loop.ctx
  PROVE  LET l == Charged(loop)
             due == [calls |-> Capped(paid[c].calls + 1), wait |-> Capped(paid[c].wait + loop.quota)]
         IN /\ l \in Turn /\ l.ctx = c /\ l.using = loop.using /\ l.at = "request"
            /\ l.attempt = loop.attempt
            /\ due \in Sums
            /\ due.calls >= Capped(metrics[c].calls + l.calls)
            /\ due.wait >= Capped(metrics[c].wait + l.wait)
            /\ c \notin spoiled => /\ due.calls = Capped(metrics[c].calls + l.calls)
                                   /\ due.wait = Capped(metrics[c].wait + l.wait)
            /\ Added(metrics[c], l) \in Sums
<1>1. loop \in Turn /\ Kinds /\ Busy(c) /\ Cap \in Nat /\ BooksFit(c)
    BY InExecution, ServesSplit, Track2Assumption DEF Fits
<1> DEFINE calls == Capped(loop.calls + 1)
           wait == Capped(loop.wait + loop.quota)
           l == Charged(loop)
<1>2. loop.calls \in Nat /\ loop.wait \in Nat /\ loop.quota \in Nat
      /\ metrics[c].calls \in Nat /\ metrics[c].wait \in Nat
      /\ paid[c].calls \in Nat /\ paid[c].wait \in Nat
    BY <1>1, KindsOf DEF Turn, Sums
<1>3. /\ paid[c].calls >= Capped(metrics[c].calls + loop.calls)
      /\ paid[c].wait >= Capped(metrics[c].wait + loop.wait)
      /\ c \notin spoiled => /\ paid[c].calls = Capped(metrics[c].calls + loop.calls)
                             /\ paid[c].wait = Capped(metrics[c].wait + loop.wait)
    BY <1>1 DEF BooksFit
<1>4. /\ Capped(paid[c].calls + 1) >= Capped(metrics[c].calls + calls)
      /\ c \notin spoiled => Capped(paid[c].calls + 1) = Capped(metrics[c].calls + calls)
      /\ Capped(paid[c].calls + 1) \in 0 .. Cap /\ Capped(metrics[c].calls + calls) \in 0 .. Cap
      /\ calls \in 0 .. Cap
    BY <1>2, <1>3, SumsAgree
<1>5. /\ Capped(paid[c].wait + loop.quota) >= Capped(metrics[c].wait + wait)
      /\ c \notin spoiled => Capped(paid[c].wait + loop.quota) = Capped(metrics[c].wait + wait)
      /\ Capped(paid[c].wait + loop.quota) \in 0 .. Cap /\ Capped(metrics[c].wait + wait) \in 0 .. Cap
      /\ wait \in 0 .. Cap
    BY <1>2, <1>3, SumsAgree
<1>6. l = [loop EXCEPT !.calls = calls, !.wait = wait, !.queued = 0, !.quota = 0]
    BY DEF Charged
<1> HIDE DEF l, calls, wait
<1>7. l \in Turn
    <2>1. 0 \in 0 .. 2 /\ 0 \in 0 .. Cap
        BY <1>1
    <2> QED
        BY <1>1, <1>4, <1>5, <1>6, <2>1 DEF Turn
<1>8. /\ l.calls = calls /\ l.wait = wait /\ l.ctx = c /\ l.using = loop.using /\ l.at = "request"
      /\ l.attempt = loop.attempt
    BY <1>1, <1>6 DEF Turn
<1>9. [calls |-> Capped(paid[c].calls + 1), wait |-> Capped(paid[c].wait + loop.quota)] \in Sums
    BY <1>4, <1>5 DEF Sums
<1>10. Added(metrics[c], l) \in Sums
    BY <1>4, <1>5, <1>8 DEF Added, Sums
<1> QED
    BY <1>4, <1>5, <1>7, <1>8, <1>9, <1>10 DEF l

\* An answer after which the execution goes on, with the plan in use or with a new one.
LEMMA PaidFits ==
  ASSUME Serves, loop.at = "request", Paid, AllCounted',
         NEW l \in Turn, loop' = l,
         l.ctx = loop.ctx, l.calls = Charged(loop).calls, l.wait = Charged(loop).wait,
         \/ l.using = loop.using /\ plan' = plan
         \/ l.using = "fresh" /\ Planner /\ plan' = [plan EXCEPT ![loop.ctx] = "fresh"],
         UNCHANGED <<hist, metrics, wire, inbox, cancels, sending, bill, unsent>>,
         \/ l.at # "apologise" /\ spoiled' = spoiled
         \/ spoiled' = spoiled \cup {loop.ctx}
  PROVE  Serves'
<1>0. Kinds /\ BillAddsUp /\ AllCounted /\ \A d \in Contexts : Fits(d)
    BY ServesSplit
<1>1. PICK c \in Contexts : c = loop.ctx
    BY InExecution DEF Turn
<1>2. /\ l.at # "idle" /\ \A d \in Contexts : (Busy(d) <=> d = c) /\ (Busy(d)' <=> d = c)
    BY <1>1, InExecution DEF Busy, Turn
<1> DEFINE due == [calls |-> Capped(paid[c].calls + 1), wait |-> Capped(paid[c].wait + loop.quota)]
<1>3. /\ due \in Sums
      /\ due.calls >= Capped(metrics[c].calls + l.calls) /\ due.wait >= Capped(metrics[c].wait + l.wait)
      /\ c \notin spoiled => /\ due.calls = Capped(metrics[c].calls + l.calls)
                             /\ due.wait = Capped(metrics[c].wait + l.wait)
    BY <1>1, ChargedFits
<1>4. paid' = [paid EXCEPT ![c] = due]
    BY <1>1 DEF Paid
<1>5. plan' \in [Contexts -> Plans] /\ \A d \in Contexts : d # c => plan'[d] = plan[d]
    BY <1>0, <1>1 DEF Kinds, Plans
<1> HIDE DEF due
<1>6. paid'[c] = due /\ \A d \in Contexts : d # c => paid'[d] = paid[d]
    BY <1>0, <1>4 DEF Kinds
<1>7. Kinds'
    BY <1>0, <1>1, <1>3, <1>4, <1>5 DEF Kinds, AllCounted
<1>8. Fits(c)'
    <2>1. OnePlace(c)' /\ CallsFit(c)'
        BY <1>0, <1>2 DEF Fits, OnePlace, CallsFit
    <2>2. PlanFits(c)'
        <3>1. hist[c].tail # "calls"
            BY <1>0, <1>2 DEF Fits, CallsFit
        <3>2. CASE l.using = loop.using /\ plan' = plan
            BY <1>0, <1>2, <3>2 DEF Fits, PlanFits
        <3>3. CASE l.using = "fresh" /\ Planner /\ plan' = [plan EXCEPT ![loop.ctx] = "fresh"]
            <4>1. plan'[c] = "fresh"
                BY <1>0, <1>1, <3>3 DEF Kinds
            <4> QED
                BY <3>3, <4>1 DEF PlanFits
        <3> QED
            BY <3>2, <3>3
    <2>3. BooksFit(c)'
        BY <1>1, <1>2, <1>3, <1>6 DEF BooksFit
    <2> QED
        BY <2>1, <2>2, <2>3 DEF Fits
<1>9. ASSUME NEW d \in Contexts, d # c PROVE Fits(d)'
    BY <1>0, <1>1, <1>2, <1>5, <1>6, <1>9, OthersFit
<1>10. BillAddsUp'
    BY <1>0 DEF BillAddsUp
<1> QED
    BY <1>7, <1>8, <1>9, <1>10, ServesAfter

\* The planner answers with a plan.
LEMMA ReplyPlanFits ==
  ASSUME Serves, ReplyPlan
  PROVE  Serves'
<1> DEFINE l == [Charged(loop) EXCEPT !.using = "fresh"]
<1>1. /\ loop.at = "request" /\ Role = "planner" /\ Paid /\ loop' = l
      /\ client' = [client EXCEPT !["planner"] = Succeeded(@)]
      /\ plan' = [plan EXCEPT ![loop.ctx] = "fresh"]
      /\ UNCHANGED <<hist, metrics, wire, inbox, cancels, sending, bill, spoiled, unsent>>
    BY DEF ReplyPlan
<1>2. loop \in Turn /\ Role \in Clients /\ AllCounted /\ loop.ctx \in Contexts
    BY <1>1, InExecution, ServesSplit DEF Turn
<1>3. Planner
    BY <1>1, <1>2, InExecution, ServesSplit DEF Fits, PlanFits, Role
<1>4. Charged(loop) \in Turn /\ Charged(loop).ctx = loop.ctx /\ Charged(loop).at = "request"
    BY <1>1, <1>2, ChargedFits
<1>5. l \in Turn /\ l.ctx = loop.ctx /\ l.using = "fresh" /\ l.calls = Charged(loop).calls
      /\ l.wait = Charged(loop).wait /\ l.at = "request"
    BY <1>4 DEF Turn, Plans
<1>6. AllCounted'
    BY <1>1, <1>2, ClientFits, ClientCounts, ClientsFit
<1> HIDE DEF l
<1> QED
    BY <1>1, <1>3, <1>5, <1>6, PaidFits

\* What the model says is not a plan or an action.
LEMMA ReplyMalformedFits ==
  ASSUME Serves, ReplyMalformed
  PROVE  Serves'
<1>1. /\ loop.at = "request" /\ Paid /\ client' = [client EXCEPT ![Role] = Succeeded(@)]
      /\ UNCHANGED <<hist, plan, metrics, wire, inbox, cancels, sending, bill, unsent>>
    BY DEF ReplyMalformed
<1>2. loop \in Turn /\ Role \in Clients /\ AllCounted /\ loop.ctx \in Contexts
    BY <1>1, InExecution, ServesSplit DEF Turn
<1>3. Charged(loop) \in Turn /\ Charged(loop).ctx = loop.ctx /\ Charged(loop).at = "request"
      /\ Charged(loop).using = loop.using
    BY <1>1, <1>2, ChargedFits
<1>4. AllCounted'
    BY <1>1, <1>2, ClientFits, ClientCounts, ClientsFit
<1>5. CASE loop' = Corrected(loop) /\ spoiled' = spoiled
    <2> DEFINE l == Corrected(loop)
    <2>1. loop' = l /\ spoiled' = spoiled
        BY <1>5
    <2>2. l = [Charged(loop) EXCEPT !.attempt = Charged(loop).attempt + 1]
        BY DEF Corrected
    <2>3. l \in Turn /\ l.ctx = loop.ctx /\ l.using = loop.using /\ l.calls = Charged(loop).calls
          /\ l.wait = Charged(loop).wait /\ l.at = "request"
        BY <1>3, <2>2 DEF Turn
    <2> HIDE DEF l
    <2> QED
        BY <1>1, <1>4, <2>1, <2>3, PaidFits
<1>6. CASE /\ loop' = [Charged(loop) EXCEPT !.at = "apologise", !.why = "malformed"]
           /\ spoiled' = spoiled \cup {loop.ctx}
    <2> DEFINE l == [Charged(loop) EXCEPT !.at = "apologise", !.why = "malformed"]
    <2>1. loop' = l /\ spoiled' = spoiled \cup {loop.ctx}
        BY <1>6
    <2>2. l \in Turn /\ l.ctx = loop.ctx /\ l.using = loop.using /\ l.calls = Charged(loop).calls
          /\ l.wait = Charged(loop).wait
        BY <1>3 DEF Turn
    <2> HIDE DEF l
    <2> QED
        BY <1>1, <1>4, <2>1, <2>2, PaidFits
<1> QED
    BY <1>5, <1>6 DEF ReplyMalformed

\* An action ends the execution; its calls are in the history and on their way, and a text
\* closes the books of the turn.
LEMMA ReplyActionFits ==
  ASSUME Serves, NEW action \in Actions \cup {<<>>}, ReplyAction(action)
  PROVE  Serves'
<1>0. Kinds /\ BillAddsUp /\ AllCounted /\ (\A d \in Contexts : Fits(d)) /\ Cap \in Nat
    BY ServesSplit, Track2Assumption
<1>1. loop.at = "request" /\ Role = "executor" /\ loop.at # "idle"
    BY DEF ReplyAction
<1>2. PICK c \in Contexts : c = loop.ctx
    BY <1>1, InExecution DEF Turn
<1> DEFINE sum == Added(metrics[c], Charged(loop))
           due == [calls |-> Capped(paid[c].calls + 1), wait |-> Capped(paid[c].wait + loop.quota)]
           message == IF action = <<>> THEN [kind |-> "text"] ELSE [kind |-> "calls", calls |-> action]
           kept == PlanAfter(action, loop.using)
           left == MetricsAfter(action, sum)
<1>3. /\ hist' = [hist EXCEPT ![c] = Said(action)] /\ plan' = [plan EXCEPT ![c] = kept]
      /\ metrics' = [metrics EXCEPT ![c] = left] /\ sending' = [sending EXCEPT ![c] = message]
      /\ client' = [client EXCEPT !["executor"] = Succeeded(@)]
      /\ loop' = Idle /\ UNCHANGED <<wire, inbox, cancels, unsent>>
    BY <1>2 DEF ReplyAction
<1>4. Added(paid[c], [calls |-> 1, wait |-> loop.quota]) = due
    BY DEF Added
<1>5. IF action = <<>>
      THEN /\ paid' = [paid EXCEPT ![c] = NoMetrics]
           /\ bill' = [bill EXCEPT ![c] = [calls |-> due.calls - sum.calls, wait |-> due.wait - sum.wait,
                                           whole |-> c \notin spoiled]]
           /\ spoiled' = spoiled \ {c}
      ELSE paid' = [paid EXCEPT ![c] = due] /\ UNCHANGED <<bill, spoiled>>
    BY <1>2, <1>4 DEF ReplyAction
<1>6. /\ due \in Sums /\ sum \in Sums /\ due.calls >= sum.calls /\ due.wait >= sum.wait
      /\ c \notin spoiled => due.calls = sum.calls /\ due.wait = sum.wait
    BY <1>1, <1>2, ChargedFits DEF Added
<1>7. Busy(c) /\ \A d \in Contexts : ~ Busy(d)' /\ (Busy(d) => d = c)
    BY <1>1, <1>2, <1>3, InExecution DEF Busy, Idle
<1> HIDE DEF sum, due
<1>8. Said(action) \in Histories /\ message \in Sendings /\ left \in Sums /\ NoMetrics \in Sums
    <2>1. Said(action) \in Histories
        BY DEF Said, Histories, Tails
    <2>2. message \in Sendings
        BY DEF Sendings, Called
    <2>3. NoMetrics \in Sums
        BY <1>0 DEF NoMetrics, Sums
    <2> QED
        BY <1>6, <2>1, <2>2, <2>3 DEF MetricsAfter
<1>9. /\ loop.using \in Plans \ {"none"}
      /\ ~ Planner => kept = "none"
      /\ Planner => kept # "unused"
      /\ Planner /\ action # <<>> => kept # "none" /\ (kept = "fresh" \/ c \in unsent)
      /\ kept \in Plans
    <2>1. loop.using \in Plans \ {"none"}
        BY <1>1, InExecution DEF Turn, Role
    <2>2. (Planner => loop.using # "unused") /\ (loop.using = "old" => c \in unsent)
        BY <1>0, <1>7 DEF Fits, PlanFits
    <2> QED
        BY <2>1, <2>2 DEF PlanAfter, Plans
<1> HIDE DEF message, kept, left
<1>10. AllCounted'
    <2>1. "executor" \in Clients
        BY DEF Clients
    <2> QED
        BY <1>0, <1>3, <2>1, ClientFits, ClientCounts, ClientsFit
<1>11. Kinds'
    <2>1. paid' \in [Contexts -> Sums] /\ spoiled' \subseteq Contexts
        BY <1>0, <1>5, <1>6, <1>8 DEF Kinds
    <2>2. bill' \in [Contexts -> Bills]
        <3>1. due.calls - sum.calls \in Int /\ due.wait - sum.wait \in Int
            BY <1>6 DEF Sums
        <3>2. [calls |-> due.calls - sum.calls, wait |-> due.wait - sum.wait,
               whole |-> c \notin spoiled] \in Bills
            BY <3>1 DEF Bills
        <3> QED
            BY <1>0, <1>5, <3>2 DEF Kinds
    <2> QED
        BY <1>0, <1>3, <1>8, <1>9, <1>10, <2>1, <2>2 DEF Kinds, AllCounted
<1>12. Fits(c)'
    <2>1. /\ hist'[c] = Said(action) /\ plan'[c] = kept /\ metrics'[c] = left /\ sending'[c] = message
          /\ UNCHANGED <<wire[c], inbox[c], unsent>> /\ ~ Busy(c)'
        BY <1>0, <1>3, <1>7 DEF Kinds
    <2>2. OnePlace(c)'
        BY <1>0, <1>7, <2>1 DEF Fits, OnePlace
    <2>3. CallsFit(c)'
        <3>1. wire[c].kind = "waits" /\ inbox[c].kind = "none"
            BY <1>0, <1>7 DEF Fits, OnePlace
        <3>2. /\ Said(action).open # <<>> => Said(action).tail = "calls"
              /\ Said(action).tail = "calls" =>
                   message.kind = "calls" /\ message.calls = Said(action).open
            BY DEF Said, message
        <3> QED
            BY <2>1, <3>1, <3>2 DEF CallsFit
    <2>4. PlanFits(c)'
        <3>1. Said(action).tail = "calls" => action # <<>>
            BY DEF Said
        <3> QED
            BY <1>9, <2>1, <3>1 DEF PlanFits
    <2>5. BooksFit(c)'
        <3>1. CASE action = <<>>
            <4>1. paid'[c] = NoMetrics /\ left = NoMetrics
                BY <1>0, <1>5, <3>1 DEF Kinds, left, MetricsAfter
            <4> QED
                BY <2>1, <4>1 DEF BooksFit, NoMetrics
        <3>2. CASE action # <<>>
            <4>1. paid'[c] = due /\ left = sum /\ spoiled' = spoiled
                BY <1>0, <1>5, <3>2 DEF Kinds, left, MetricsAfter
            <4> QED
                BY <1>6, <2>1, <4>1 DEF BooksFit
        <3> QED
            BY <3>1, <3>2
    <2> QED
        BY <2>2, <2>3, <2>4, <2>5 DEF Fits
<1>13. ASSUME NEW d \in Contexts, d # c PROVE Fits(d)'
    <2>1. paid'[d] = paid[d] /\ (d \in spoiled' <=> d \in spoiled)
        BY <1>0, <1>5, <1>13 DEF Kinds
    <2> QED
        BY <1>0, <1>3, <1>7, <1>13, <2>1, OthersFit
<1>14. BillAddsUp'
    <2>1. /\ due.calls - sum.calls >= 0 /\ due.wait - sum.wait >= 0
          /\ c \notin spoiled => due.calls - sum.calls = 0 /\ due.wait - sum.wait = 0
        BY <1>6 DEF Sums
    <2>2. bill'[c] = bill[c] \/ bill'[c] = [calls |-> due.calls - sum.calls, wait |-> due.wait - sum.wait,
                                            whole |-> c \notin spoiled]
        BY <1>0, <1>5 DEF Kinds
    <2>3. \A d \in Contexts : d # c => bill'[d] = bill[d]
        BY <1>0, <1>5 DEF Kinds
    <2> QED
        <3>1. ASSUME NEW d \in Contexts
              PROVE  /\ bill'[d].whole => bill'[d].calls = 0 /\ bill'[d].wait = 0
                     /\ bill'[d].calls >= 0 /\ bill'[d].wait >= 0
            <4>1. CASE bill'[d] = bill[d]
                BY <1>0, <4>1 DEF BillAddsUp
            <4>2. CASE d = c /\ bill'[c] # bill[c]
                <5>1. bill'[d] = [calls |-> due.calls - sum.calls, wait |-> due.wait - sum.wait,
                                  whole |-> c \notin spoiled]
                    BY <2>2, <4>2
                <5>2. bill'[d].calls = due.calls - sum.calls /\ bill'[d].wait = due.wait - sum.wait
                    BY <5>1
                <5>3. bill'[d].whole = (c \notin spoiled)
                    BY <5>1
                <5>4. bill'[d].whole => c \notin spoiled
                    BY <5>3
                <5> QED
                    BY <2>1, <5>2, <5>4
            <4> QED
                BY <2>3, <4>1, <4>2
        <3> QED
            BY <3>1 DEF BillAddsUp
<1> QED
    BY <1>10, <1>11, <1>12, <1>13, <1>14, ServesAfter

-----------------------------------------------------------------------------
(* The theorems.                                                           *)

\* At the start nothing was said and nothing is owed.
LEMMA ServesInit == ASSUME Init PROVE Serves
<1>1. Cap \in Nat /\ ClientCap \in Nat
    BY Track2Assumption
<1>2. Kinds
    <2>1. NewHistory \in Histories /\ "none" \in Plans /\ NoMetrics \in Sums
        BY <1>1 DEF NewHistory, Histories, Tails, Plans, NoMetrics, Sums
    <2>2. [kind |-> "text"] \in Wires /\ [kind |-> "none"] \in Inboxes /\ [kind |-> "none"] \in Sendings
        BY DEF Wires, Inboxes, Sendings
    <2>3. [calls |-> 0, wait |-> 0, whole |-> TRUE] \in Bills
        BY DEF Bills
    <2>4. [attempted |-> 0, successful |-> 0, lastAttempted |-> 0, lastSuccessful |-> 0,
           sumAttempted |-> 0, sumSuccessful |-> 0] \in Counts
        BY <1>1 DEF Counts
    <2> QED
        BY <2>1, <2>2, <2>3, <2>4 DEF Init, Kinds
<1>3. BillAddsUp /\ AllCounted
    <2>1. client \in [Clients -> Counts]
        BY <1>2 DEF Kinds
    <2> QED
        BY <2>1 DEF Init, BillAddsUp, AllCounted, ReportsAddUp, CountsFit
<1>4. ASSUME NEW c \in Contexts PROVE Fits(c)
    <2>1. /\ hist[c] = NewHistory /\ plan[c] = "none" /\ metrics[c] = NoMetrics /\ paid[c] = NoMetrics
          /\ wire[c] = [kind |-> "text"] /\ inbox[c] = [kind |-> "none"] /\ sending[c] = [kind |-> "none"]
          /\ ~ Busy(c)
        BY DEF Init, Busy, Idle
    <2> QED
        BY <2>1 DEF Fits, OnePlace, CallsFit, PlanFits, BooksFit, NewHistory, NoMetrics
<1> QED
    BY <1>2, <1>3, <1>4, ServesSplit

\* Every step keeps the invariant.
LEMMA ServesKept == Serves /\ [Next]_vars => Serves'
<1> SUFFICES ASSUME Serves, [Next]_vars PROVE Serves'
    OBVIOUS
<1>1. CASE Environment
    BY <1>1, UserSpeaksFits, ToolsReturnFits, UserCancelsFits DEF Environment
<1>2. CASE Provider
    BY <1>2, RefuseFits, BreakFits, ReplyPlanFits, ReplyMalformedFits, ReplyActionFits DEF Provider
<1>3. CASE Wake \/ Apologise
    BY <1>3, WakeFits, ApologiseFits
<1>4. CASE \E c \in Contexts : Begin(c) \/ Answers(c) \/ Cancel(c)
    BY <1>4, BeginFits, DeliverFits, DeliverFailsFits, CancelFits DEF Answers
<1>5. CASE UNCHANGED vars
    <2>1. Kinds /\ BillAddsUp /\ AllCounted /\ \A d \in Contexts : Fits(d)
        BY ServesSplit
    <2>2. Kinds' /\ BillAddsUp' /\ AllCounted'
        BY <1>5, <2>1 DEF vars, ghosts, Kinds, BillAddsUp, AllCounted, ReportsAddUp, CountsFit
    <2>3. \A d \in Contexts : Fits(d)'
        BY <1>5, <2>1, SameFits DEF vars, Busy
    <2> QED
        BY <2>2, <2>3, ServesAfter
<1> QED
    BY <1>1, <1>2, <1>3, <1>4, <1>5 DEF Next

\* A message of a context is in one place, the calls in its history are those on their way,
\* and its books agree with what was paid: for any contexts, tools, retries and headers, with
\* and without a planner.
THEOREM ServesAlways == Spec => []Serves
<1>1. Init => Serves
    BY ServesInit
<1> QED
    BY <1>1, ServesKept, PTL DEF Spec

\* The types of the run hold for any contexts, tools and retries.
THEOREM Track2Types == Spec => []TypeOK
<1>1. Serves => TypeOK
    BY DEF Serves, CountsFit, Kinds, Histories, Tails, Plans, Sums, TypeOK
<1> QED
    BY <1>1, ServesAlways, PTL

\* The model never sees a call without its result, whichever tools are called, in whatever
\* order the results come, and however often an answer is not delivered or a context is
\* canceled (_format_tool_results).
THEOREM NoDanglingAlways == Spec => []NoDanglingCalls
<1>1. Serves => NoDanglingCalls
    BY DEF Serves, CallsFit, NoDanglingCalls
<1> QED
    BY <1>1, ServesAlways, PTL

\* The executor works along the plan of the present turn, and the fallback plan is never
\* needed, unless its calls were not delivered (_should_create_private_plan).
THEOREM PresentPlanAlways == Spec => []FollowsPresentPlan
<1>1. Serves => FollowsPresentPlan
    <2> SUFFICES ASSUME Serves, loop.at = "request", Role = "executor", Planner
                 PROVE  loop.using = "fresh" \/ loop.ctx \in unsent
        BY DEF FollowsPresentPlan
    <2>1. loop \in Turn /\ Busy(loop.ctx) /\ loop.ctx \in Contexts
        BY InExecution DEF Turn
    <2>2. loop.using \in Plans \ {"none", "unused"} /\ (loop.using = "old" => loop.ctx \in unsent)
        BY <2>1, ServesSplit DEF Fits, PlanFits, Turn, Role
    <2> QED
        BY <2>2 DEF Plans
<1> QED
    BY <1>1, ServesAlways, PTL

\* No call and no wait is lost or counted twice, in the metrics of a turn and in the reports
\* of a client, whatever the caps at which the model stops counting.
THEOREM AccountsAlways == Spec => []AccountsAddUp
<1>1. Serves => AccountsAddUp
    BY DEF Serves, AccountsAddUp
<1> QED
    BY <1>1, ServesAlways, PTL

\* With a buffer above zero no wait that the provider hints at is too short to be worth it,
\* so that a rate limit that says how long to wait never fails the turn (generate).
THEOREM HintsAlways == ASSUME Buffer > 0 PROVE Spec => []HintsAreFollowed
<1> DEFINE Inv == loop.at # "idle" => loop.why # "hinted"
<1>1. Init => Inv
    BY DEF Init, Idle
<1>2. ASSUME NEW sig \in Signals, NEW n \in Nat, \A w \in Waits(sig, n) : ~ WorthWaiting(w)
      PROVE  Waits(sig, 1) = {}
    <2>1. \A s \in Headers : s # Absent => Buffered(s) > 0
        BY Track2Assumption DEF Headers, Buffered
    <2>2. sig.tokens \in Headers /\ sig.day \in Headers /\ sig.after \in Headers
        BY DEF Signals
    <2>3. CASE sig.queue /\ sig.after = Absent
        <3>1. Waits(sig, n) = Backoff(n)
            BY <2>3 DEF Waits
        <3>2. \E w \in Backoff(n) : w > 0
            <4>1. 1 \in 1 .. 1 /\ 1 \in 1 .. 2 /\ 2 \in 2 .. 3
                OBVIOUS
            <4> QED
                BY <4>1 DEF Backoff
        <3> QED
            BY <1>2, <3>1, <3>2 DEF WorthWaiting
    <2>4. CASE ~ (sig.queue /\ sig.after = Absent)
        <3>1. Waits(sig, n) = Waits(sig, 1)
            BY <2>4 DEF Waits
        <3>2. \A w \in Waits(sig, 1) : w > 0
            BY <2>1, <2>2, <2>4 DEF Waits
        <3> QED
            BY <1>2, <3>1, <3>2 DEF WorthWaiting
    <2> QED
        BY <2>3, <2>4
<1>3. ASSUME Serves, Inv, [Next]_vars PROVE Inv'
    <2>1. loop.at # "idle" => loop \in Turn
        BY <1>3, InExecution
    <2>2. CASE UNCHANGED loop
        BY <1>3, <2>2
    <2>3. CASE \E sig \in Signals : Refuse(sig)
        <3>1. PICK sig \in Signals : Refuse(sig)
            BY <2>3
        <3>2. loop.at = "request" /\ loop \in Turn /\ loop.queued + 1 \in Nat
            <4>1. loop.at = "request"
                BY <3>1 DEF Refuse
            <4>2. loop \in Turn
                BY <2>1, <4>1
            <4> QED
                BY <4>1, <4>2 DEF Turn
        <3>3. CASE \A w \in Waits(sig, loop.queued + 1) : ~ WorthWaiting(w)
            <4>1. Waits(sig, 1) = {}
                BY <1>2, <3>2, <3>3
            <4>2. loop'.why # "hinted"
                BY <1>3, <3>1, <3>2, <3>3, <4>1 DEF Refuse, Fails, Turn
            <4> QED
                BY <4>2
        <3>4. CASE ~ \A w \in Waits(sig, loop.queued + 1) : ~ WorthWaiting(w)
            <4>1. loop'.why = loop.why
                BY <3>1, <3>2, <3>4 DEF Refuse, Turn
            <4> QED
                BY <1>3, <3>2, <4>1
        <3> QED
            BY <3>3, <3>4
    <2>4. CASE Wake \/ Break \/ ReplyPlan \/ ReplyMalformed
        <3>1. loop.at # "idle" /\ loop \in Turn /\ loop.why # "hinted"
            BY <1>3, <2>1, <2>4 DEF Wake, Break, ReplyPlan, ReplyMalformed
        <3>2. CASE Wake
            BY <3>1, <3>2 DEF Wake, Turn
        <3>3. CASE Break
            BY <3>1, <3>3 DEF Break, Fails, Turn
        <3>4. CASE ReplyPlan
            BY <3>1, <3>4 DEF ReplyPlan, Charged, Turn
        <3>5. CASE ReplyMalformed
            BY <3>1, <3>5 DEF ReplyMalformed, Corrected, Charged, Turn
        <3> QED
            BY <2>4, <3>2, <3>3, <3>4, <3>5
    <2>5. CASE Apologise \/ \E action \in Actions \cup {<<>>} : ReplyAction(action)
        <3>1. loop' = Idle
            BY <2>5 DEF Apologise, ReplyAction
        <3> QED
            BY <3>1 DEF Idle
    <2>6. CASE \E c \in Contexts : Begin(c)
        BY <2>6 DEF Begin, NewTurn
    <2>7. CASE Environment \/ \E c \in Contexts : Answers(c) \/ Cancel(c)
        BY <1>3, <2>7 DEF Environment, UserSpeaks, ToolsReturn, UserCancels, Answers, Deliver,
           DeliverFails, Cancel
    <2>8. CASE UNCHANGED vars
        BY <2>2, <2>8 DEF vars
    <2> QED
        BY <1>3, <2>3, <2>4, <2>5, <2>6, <2>7, <2>8 DEF Next, Provider
<1>4. Inv => HintsAreFollowed
    BY DEF HintsAreFollowed
<1> QED
    BY <1>1, <1>3, <1>4, ServesAlways, PTL DEF Spec
=============================================================================
