------------------------- MODULE SessionStoreProofs -------------------------
(***************************************************************************)
(* Proofs about SessionStore: the locks, what a closed session keeps, the  *)
(* one answer of a message, and, as long as nothing is evicted, the one    *)
(* open session and the one worker of a context.                           *)
(***************************************************************************)
EXTENDS SessionStore, FiniteSetTheorems, SequenceTheorems, TLAPS

Call == [op : {"none", "handle", "cancel", "reopen"}, ctx : Context \cup {None},
         msg : Message \cup {None}, at : Nat]

\* The places where a thread is inside the locked scope of a session it obtained.
Inside == {"work", "closeRead", "closeMark", "closeCommit", "closeBlind"}

Handles(t) == call[t].op = "handle"

\* Thread t has got a session object for its message and not answered yet.
Holds(t) == pc[t] \in {"replay", "enter"} \cup Inside /\ Handles(t)

\* What a thread is at fits the operation it runs and the objects it works with.
CallOf(t) ==
    /\ Handles(t) <=> call[t].msg \in Message
    /\ Handles(t) => call[t].ctx \in Context
    /\ pc[t] # "idle" => call[t].op # "none" /\ call[t].ctx \in Context
    /\ pc[t] \in {"lookup", "replay", "enter", "work"} => Handles(t)
    /\ pc[t] \in Inside => call[t].op \in {"handle", "cancel"}
    /\ pc[t] = "create" => call[t].op \in {"handle", "reopen"}
    /\ pc[t] = "reopen" => call[t].op = "reopen"
    /\ Holds(t) => ref[t] \in 1..created
    /\ pc[t] \in {"closeMark", "closeCommit"} => target[t] \in 1..created
CallOK == \A t \in Thread : CallOf(t)

\* A session lock is held by the thread that was let in, and by the one that closes it.
LockOf(t) ==
    /\ \A o \in Object : owner[o] = t =>
          \/ pc[t] \in Inside /\ Handles(t) /\ ref[t] = o
          \/ pc[t] = "closeCommit" /\ target[t] = o
    /\ pc[t] \in Inside /\ Handles(t) => owner[ref[t]] = t
    /\ pc[t] = "closeCommit" => owner[target[t]] = t
LockOK == \A t \in Thread : LockOf(t)

\* A session object that is not created yet is blank.
BlankOK ==
    \A o \in Object : o > created => ~obj[o].closed /\ obj[o].seen = {} /\ obj[o].out = NoOut

\* An answer is cached for a message that was accepted, once.
AnswersOK ==
    /\ \A o \in Object, m \in Message : obj[o].out[m] # None => m \in obj[o].seen
    /\ \A t \in Thread : pc[t] = "work" =>
          /\ ~obj[ref[t]].closed
          /\ call[t].msg \in obj[ref[t]].seen
          /\ obj[ref[t]].out[call[t].msg] = None
    /\ \A t \in Thread : pc[t] \in Inside \ {"work"} /\ Handles(t) =>
          obj[ref[t]].out[call[t].msg] # None

\* What was returned from a session object is what it keeps for the message; a message
\* that was found without an answer gets none any more.
ResultsOK ==
    \A t \in Thread : result[t].from \in Object /\ Handles(t) =>
        LET o == result[t].from
            m == call[t].msg
        IN  /\ o <= created
            /\ \/ result[t].val = obj[o].out[m] /\ obj[o].out[m] # None
               \/ /\ result[t].val = "unavailable"
                  /\ obj[o].out[m] = None /\ m \in obj[o].seen
                  /\ \A u \in Thread : pc[u] = "work" /\ ref[u] = o => call[u].msg # m

\* A tombstone that replays nothing it must not.
SafeTombstone ==
    {x \in Tombstone : \A m \in Message : x.out[m] # None =>
        x.out[m] = "text" /\ (x.lifecycle = "cancelled" => Kind[m] = "cancel")}

\* What the two dictionaries hold.
LiveOK == live \in Seq(1..created) /\ Len(live) <= MaxSessions
TombsOK == tombs \in Seq(SafeTombstone) /\ Len(tombs) <= MaxSessions

\* The types of the other variables.
Kinds ==
    /\ now \in 0..MaxTime
    /\ created \in 0..MaxObjects
    /\ obj \in [Object -> Session]
    /\ owner \in [Object -> Thread \cup {None}]
    /\ pc \in [Thread -> {"idle", "lookup", "replay", "create", "enter", "work", "reopen",
                          "closeRead", "closeMark", "closeCommit", "closeBlind"}]
    /\ call \in [Thread -> Call]
    /\ ref \in [Thread -> Object \cup {None}]
    /\ target \in [Thread -> Object \cup {None}]
    /\ result \in [Thread -> Result]

Store == /\ Kinds /\ LiveOK /\ TombsOK
         /\ CallOK /\ LockOK /\ BlankOK /\ AnswersOK /\ ResultsOK

\* Nothing leaves the store but by a close: no session grows too old, there is room for
\* every context, and nobody removes or reopens one.
NothingEvicted ==
    ~AdminOps /\ MaxTime < Ttl /\ IsFiniteSet(Context) /\ Cardinality(Context) <= MaxSessions

\* The store maps each context to at most one session object, and no open one is missing.
Mapped ==
    /\ \A t \in Thread : pc[t] # "reopen" /\ call[t].op # "reopen"
    /\ \A i \in DOMAIN live : obj[live[i]].ctx \in Context
    /\ \A i, j \in DOMAIN live : obj[live[i]].ctx = obj[live[j]].ctx => i = j
    /\ \A o \in 1..created : ~obj[o].closed => \E i \in DOMAIN live : live[i] = o
    /\ \A t \in Thread : Holds(t) => obj[ref[t]].ctx = call[t].ctx
    /\ \A t \in Thread : pc[t] = "closeCommit" => obj[target[t]].closed
-----------------------------------------------------------------------------
(* What the operators on the ordered dictionaries do.                      *)

\* Picking entries of a sequence gives a sequence of just these entries, none of them
\* twice.
LEMMA PickedEntries ==
    ASSUME NEW S, NEW s \in Seq(S), NEW K \in SUBSET DOMAIN s
    PROVE  /\ Picked(s, K) \in Seq(S) /\ Len(Picked(s, K)) <= Len(s)
           /\ K # DOMAIN s => Len(Picked(s, K)) < Len(s)
           /\ \A n \in DOMAIN Picked(s, K) : \E k \in K : Picked(s, K)[n] = s[k]
           /\ \A k \in K : \E n \in DOMAIN Picked(s, K) : Picked(s, K)[n] = s[k]
           /\ \A m, n \in DOMAIN Picked(s, K) : m # n =>
                 \E j, k \in K : j # k /\ Picked(s, K)[m] = s[j] /\ Picked(s, K)[n] = s[k]
<1> DEFINE size == Cardinality(K)
           Below(k) == {j \in K : j <= k}
           Rank(k) == Cardinality(Below(k))
           rank == [k \in K |-> Rank(k)]
           Position(n) == CHOOSE k \in K : Rank(k) = n
<1>1. K \subseteq 1..Len(s) /\ Len(s) \in Nat
    OBVIOUS
<1>2. /\ IsFiniteSet(K) /\ size \in Nat /\ size <= Len(s)
      /\ K # DOMAIN s => size < Len(s)
    <2>1. IsFiniteSet(1..Len(s)) /\ Cardinality(1..Len(s)) = Len(s)
        <3> DEFINE n == Len(s)
        <3>1. n \in Int /\ n \in Nat /\ 1 \in Int
            BY <1>1
        <3> HIDE DEF n
        <3>2. IsFiniteSet(1..n) /\ Cardinality(1..n) = IF 1 > n THEN 0 ELSE n - 1 + 1
            BY <3>1, FS_Interval
        <3>3. (IF 1 > n THEN 0 ELSE n - 1 + 1) = n
            BY <3>1
        <3> QED
            BY <3>2, <3>3 DEF n
    <2> QED
        BY <1>1, <2>1, FS_Subset, FS_CardinalityType
<1>3. \A k \in K : /\ IsFiniteSet(Below(k)) /\ Rank(k) \in Nat
                    /\ k \in Below(k) /\ Below(k) \subseteq K
    BY <1>1, <1>2, FS_Subset, FS_CardinalityType
<1>4. \A k \in K : Rank(k) \in 1..size
    <2> TAKE k \in K
    <2>1. Rank(k) <= size
        BY <1>2, <1>3, FS_Subset
    <2>2. Rank(k) # 0
        BY <1>3, FS_EmptySet
    <2>3. Rank(k) \in Nat
        BY <1>3
    <2> HIDE DEF Rank, size
    <2> QED
        BY <1>2, <2>1, <2>2, <2>3
<1>5. \A j, k \in K : Rank(j) = Rank(k) => j = k
    <2>1. ASSUME NEW j \in K, NEW k \in K, j < k PROVE Rank(j) # Rank(k)
        <3>1. Below(j) \subseteq Below(k) /\ k \notin Below(j)
            BY <1>1, <2>1
        <3>2. Below(j) \in SUBSET Below(k) /\ Below(j) # Below(k)
            BY <1>3, <3>1
        <3> HIDE DEF Below
        <3> QED
            BY <1>3, <3>2, FS_Subset
    <2> HIDE DEF Rank
    <2> QED
        BY <1>1, <2>1
<1>6. \A n \in 1..size : Position(n) \in K /\ Rank(Position(n)) = n
    <2>1. rank \in Injection(K, 1..size)
        <3> HIDE DEF Rank
        <3> QED
            BY <1>4, <1>5 DEF Injection, IsInjective
    <2>2. IsFiniteSet(1..size) /\ Cardinality(1..size) = size
        BY <1>2, FS_Interval
    <2>3. rank \in Surjection(K, 1..size)
        BY <2>1, <2>2, FS_Injection
    <2>4. \A n \in 1..size : \E k \in K : Rank(k) = n
        BY <2>3 DEF Surjection
    <2> HIDE DEF Rank
    <2> QED
        BY <2>4
<1>7. Picked(s, K) = [n \in 1..size |-> s[Position(n)]]
    BY DEF Picked
<1> HIDE DEF Position, Rank, size
<1>8. \A n \in 1..size : s[Position(n)] \in S
    BY <1>1, <1>6
<1>9. Picked(s, K) \in Seq(S) /\ Len(Picked(s, K)) = size /\ DOMAIN Picked(s, K) = 1..size
    BY <1>2, <1>7, <1>8
<1>10. \A k \in K : Rank(k) \in 1..size /\ Position(Rank(k)) = k
    BY <1>4, <1>5, <1>6
<1>11. \A n \in 1..size : Picked(s, K)[n] = s[Position(n)]
    BY <1>7
<1>12. \A k \in K : Picked(s, K)[Rank(k)] = s[k]
    BY <1>10, <1>11
<1>13. \A m, n \in 1..size : m # n => Position(m) # Position(n)
    BY <1>6
<1> QED
    BY <1>2, <1>6, <1>9, <1>10, <1>11, <1>12, <1>13

\* The newest entries of a dictionary are entries of it, and as many as it may have.
LEMMA NewestEntries ==
    ASSUME NEW S, NEW s \in Seq(S)
    PROVE  /\ Newest(s) \in Seq(S) /\ Len(Newest(s)) <= MaxSessions
           /\ Len(s) <= MaxSessions => Newest(s) = s
<1>1. MaxSessions \in Nat \ {0} /\ Len(s) \in Nat
    BY StoreAssumption
<1>2. CASE Len(s) > MaxSessions
    <2> DEFINE first == Len(s) - MaxSessions + 1
    <2>1. first \in 1..Len(s)
        BY <1>1, <1>2
    <2>2. \A i \in first..Len(s) : s[i] \in S
        BY <1>1, <2>1
    <2>3. SubSeq(s, first, Len(s)) \in Seq(S)
        BY <1>1, <2>1, <2>2
    <2>4. Len(SubSeq(s, first, Len(s))) = MaxSessions
        BY <1>1, <1>2, <2>1
    <2> QED
        BY <1>1, <1>2, <2>3, <2>4 DEF Newest
<1>3. CASE ~(Len(s) > MaxSessions)
    BY <1>1, <1>3 DEF Newest
<1> QED
    BY <1>2, <1>3

\* The session of a context is one of the sessions given, and it is of that context.
LEMMA SessionFound ==
    ASSUME NEW S, NEW s \in Seq(S), None \notin S, NEW c
    PROVE  /\ SessionOf(s, c) # None =>
                 /\ SessionOf(s, c) \in S /\ obj[SessionOf(s, c)].ctx = c
                 /\ \E i \in DOMAIN s : s[i] = SessionOf(s, c)
           /\ SessionOf(s, c) = None => \A i \in DOMAIN s : obj[s[i]].ctx # c
<1> DEFINE k == CHOOSE i \in DOMAIN s : obj[s[i]].ctx = c
<1>1. CASE \E i \in DOMAIN s : obj[s[i]].ctx = c
    <2>1. k \in DOMAIN s /\ obj[s[k]].ctx = c
        BY <1>1
    <2>2. SessionOf(s, c) = s[k]
        BY <1>1 DEF SessionOf
    <2>3. s[k] \in S
        BY <2>1
    <2> HIDE DEF k
    <2> QED
        BY <2>1, <2>2, <2>3
<1>2. CASE ~ \E i \in DOMAIN s : obj[s[i]].ctx = c
    BY <1>2 DEF SessionOf
<1> QED
    BY <1>1, <1>2

\* The same for tombstones.
LEMMA TombFound ==
    ASSUME NEW S, NEW b \in Seq(S), NEW c, TombOf(b, c) # None
    PROVE  /\ TombOf(b, c) \in S /\ TombOf(b, c).ctx = c
           /\ \E i \in DOMAIN b : b[i] = TombOf(b, c)
<1> DEFINE k == CHOOSE i \in DOMAIN b : b[i].ctx = c
<1>1. \E i \in DOMAIN b : b[i].ctx = c
    BY DEF TombOf
<1>2. k \in DOMAIN b /\ b[k].ctx = c
    BY <1>1
<1>3. TombOf(b, c) = b[k]
    BY <1>1 DEF TombOf
<1>4. b[k] \in S
    BY <1>2
<1> HIDE DEF k
<1> QED
    BY <1>2, <1>3, <1>4

\* A tombstone replays text or nothing.
LEMMA TombSilent ==
    ASSUME NEW b \in SafeTombstone \cup {None}, NEW m \in Message \cup {None}
    PROVE  TombReplay(b, m) \in {"text", None}
BY DEF TombReplay, SafeTombstone

-----------------------------------------------------------------------------
(* The two dictionaries keep their shape.                                  *)

\* Purging leaves the sessions that are in the store.
LEMMA FreshSessionsOK ==
    ASSUME LiveOK
    PROVE  /\ FreshSessions \in Seq(1..created) /\ Len(FreshSessions) <= MaxSessions
           /\ \A n \in DOMAIN FreshSessions : \E k \in DOMAIN live : FreshSessions[n] = live[k]
<1> DEFINE K == {i \in DOMAIN live : now - obj[live[i]].access < Ttl}
           S == 1..created
<1>1. live \in Seq(S) /\ Len(live) <= MaxSessions /\ K \in SUBSET DOMAIN live
      /\ MaxSessions \in Nat
    BY StoreAssumption DEF LiveOK
<1>2. FreshSessions = Picked(live, K)
    BY DEF FreshSessions
<1> HIDE DEF K, S
<1>3. /\ Picked(live, K) \in Seq(S) /\ Len(Picked(live, K)) <= Len(live)
      /\ \A n \in DOMAIN Picked(live, K) : \E k \in K : Picked(live, K)[n] = live[k]
    BY <1>1, PickedEntries
<1> QED
    BY <1>1, <1>2, <1>3 DEF S

\* It leaves the tombstones that are in the store.
LEMMA FreshTombsOK ==
    ASSUME TombsOK
    PROVE  FreshTombs \in Seq(SafeTombstone) /\ Len(FreshTombs) <= MaxSessions
<1> DEFINE K == {i \in DOMAIN tombs : now - tombs[i].closedAt < Ttl}
           S == SafeTombstone
<1>1. tombs \in Seq(S) /\ Len(tombs) <= MaxSessions /\ K \in SUBSET DOMAIN tombs
      /\ MaxSessions \in Nat
    BY StoreAssumption DEF TombsOK
<1>2. FreshTombs = Picked(tombs, K)
    BY DEF FreshTombs
<1> HIDE DEF K, S
<1>3. Picked(tombs, K) \in Seq(S) /\ Len(Picked(tombs, K)) <= Len(tombs)
    BY <1>1, PickedEntries
<1> QED
    BY <1>1, <1>2, <1>3 DEF S

\* Dropping a context leaves room for it, when it was there.
LEMMA WithoutOK ==
    ASSUME NEW S, NEW s \in Seq(S), NEW c
    PROVE  /\ Without(s, c) \in Seq(S) /\ Len(Without(s, c)) <= Len(s)
           /\ (\E i \in DOMAIN s : obj[s[i]].ctx = c) => Len(Without(s, c)) < Len(s)
<1> DEFINE K == {i \in DOMAIN s : obj[s[i]].ctx # c}
<1>1. K \in SUBSET DOMAIN s /\ ((\E i \in DOMAIN s : obj[s[i]].ctx = c) => K # DOMAIN s)
    OBVIOUS
<1>2. Without(s, c) = Picked(s, K)
    BY DEF Without
<1> HIDE DEF K
<1> QED
    BY <1>1, <1>2, PickedEntries

\* The same for tombstones.
LEMMA TombsWithoutOK ==
    ASSUME NEW S, NEW b \in Seq(S), NEW c
    PROVE  /\ TombsWithout(b, c) \in Seq(S) /\ Len(TombsWithout(b, c)) <= Len(b)
           /\ (\E i \in DOMAIN b : b[i].ctx = c) => Len(TombsWithout(b, c)) < Len(b)
<1> DEFINE K == {i \in DOMAIN b : b[i].ctx # c}
<1>1. K \in SUBSET DOMAIN b /\ ((\E i \in DOMAIN b : b[i].ctx = c) => K # DOMAIN b)
    OBVIOUS
<1>2. TombsWithout(b, c) = Picked(b, K)
    BY DEF TombsWithout
<1> HIDE DEF K
<1> QED
    BY <1>1, <1>2, PickedEntries

\* A tombstone is put in place of the one of its context, within the limit.
LEMMA PutTombOK ==
    ASSUME NEW S, NEW b \in Seq(S), NEW x \in S
    PROVE  PutTomb(b, x) \in Seq(S) /\ Len(PutTomb(b, x)) <= MaxSessions
<1>1. TombsWithout(b, x.ctx) \in Seq(S)
    BY TombsWithoutOK
<1>2. Append(TombsWithout(b, x.ctx), x) \in Seq(S)
    BY <1>1
<1> QED
    BY <1>2, NewestEntries DEF PutTomb

\* A tombstone that is read moves to the end, and the others stay.
LEMMA TombToEndOK ==
    ASSUME NEW S, NEW b \in Seq(S), NEW c, TombOf(b, c) # None, Len(b) <= MaxSessions
    PROVE  TombToEnd(b, c) \in Seq(S) /\ Len(TombToEnd(b, c)) <= MaxSessions
<1>1. TombOf(b, c) \in S /\ \E i \in DOMAIN b : b[i].ctx = c
    BY TombFound
<1>2. /\ TombsWithout(b, c) \in Seq(S) /\ Len(TombsWithout(b, c)) < Len(b)
      /\ Len(TombsWithout(b, c)) \in Nat /\ Len(b) \in Nat /\ MaxSessions \in Nat
    BY <1>1, TombsWithoutOK, StoreAssumption
<1>3. <<TombOf(b, c)>> \in Seq(S) /\ Len(<<TombOf(b, c)>>) = 1
    BY <1>1
<1>4. TombToEnd(b, c) \in Seq(S) /\ Len(TombToEnd(b, c)) = Len(TombsWithout(b, c)) + 1
    BY <1>2, <1>3 DEF TombToEnd
<1> QED
    BY <1>2, <1>4

\* A session object moves to the end of the dictionary, or enters it, within the limit.
LEMMA ToEndOK ==
    ASSUME NEW n \in Nat, NEW s \in Seq(1..n), NEW o \in 1..n, NEW c
    PROVE  LET r == Newest(Append(Without(s, c), o))
           IN  r \in Seq(1..n) /\ Len(r) <= MaxSessions
<1> DEFINE S == 1..n
<1> HIDE DEF S
<1>1. Without(s, c) \in Seq(S)
    BY WithoutOK DEF S
<1>2. Append(Without(s, c), o) \in Seq(S)
    BY <1>1 DEF S
<1> QED
    BY <1>2, NewestEntries DEF S

\* What a close leaves behind replays nothing it must not.
LEMMA ClosedSafely ==
    ASSUME Kinds, CallOK, NEW t \in Thread, pc[t] \in {"closeCommit", "closeBlind"},
           NEW old \in [Message -> Outbound \cup {None}]
    PROVE  TombstoneOf(t, old) \in SafeTombstone
<1> DEFINE x == TombstoneOf(t, old)
<1>1. /\ call[t].ctx \in Context /\ call[t].op \in {"handle", "cancel"} /\ call[t].at \in Nat
      /\ Handles(t) <=> call[t].msg \in Message
      /\ Handles(t) => ref[t] \in Object
    BY StoreAssumption DEF CallOK, CallOf, Kinds, Call, Inside, Holds, Object
<1>2. Lifecycle(t) \in {"terminal", "cancelled"}
    BY DEF Lifecycle
<1>3. Handles(t) => ClosingOut(t) \in Outbound \cup {None}
    BY <1>1 DEF ClosingOut, Kinds, Session, Handles
<1>4. ~Handles(t) => ClosingOut(t) = None
    BY DEF ClosingOut, Handles
<1>5. \A m \in Message : Kept(t, old)[m] \in {"text", None}
    BY <1>3, <1>4 DEF Kept, SafeReplay
<1>6. x.out = Kept(t, old) /\ x.lifecycle = Lifecycle(t) /\ x.ctx = call[t].ctx
      /\ x.closedAt = call[t].at
    BY DEF TombstoneOf
<1>7. Kept(t, old) \in [Message -> Outbound \cup {None}]
    BY <1>5 DEF Kept, Outbound
<1>8. x \in Tombstone
    BY <1>1, <1>2, <1>7 DEF TombstoneOf, Tombstone
<1>9. Lifecycle(t) = "cancelled" =>
         \A m \in Message : Kept(t, old)[m] # None => Kind[m] = "cancel"
    <2> SUFFICES ASSUME Lifecycle(t) = "cancelled", NEW m \in Message, Kept(t, old)[m] # None
                 PROVE  Kind[m] = "cancel"
        OBVIOUS
    <2>1. call[t].msg = m
        BY DEF Kept
    <2>2. Handles(t)
        BY <1>1, <2>1
    <2> QED
        BY <2>1, <2>2 DEF Lifecycle, Handles
<1>10. \A m \in Message : x.out[m] # None => x.out[m] = "text"
    BY <1>5, <1>6
<1>11. x.lifecycle = "cancelled" => \A m \in Message : x.out[m] # None => Kind[m] = "cancel"
    BY <1>6, <1>9
<1> QED
    BY <1>8, <1>10, <1>11 DEF SafeTombstone

\* Every step keeps the sessions and the tombstones of the store what they are.
LEMMA DictionariesKept ==
    ASSUME Store, Next
    PROVE  LiveOK' /\ TombsOK'
<1> USE DEF Store
<1>1. /\ FreshSessions \in Seq(1..created) /\ Len(FreshSessions) <= MaxSessions
      /\ FreshTombs \in Seq(SafeTombstone) /\ Len(FreshTombs) <= MaxSessions
    BY FreshSessionsOK, FreshTombsOK
<1>2. created \in Nat /\ MaxSessions \in Nat /\ None \notin 1..created
    BY StoreAssumption DEF Kinds
<1>3. ASSUME UNCHANGED <<live, created, tombs>>
      PROVE  LiveOK' /\ TombsOK'
    BY <1>3 DEF LiveOK, TombsOK
<1>4. ASSUME UNCHANGED created, live' = FreshSessions PROVE LiveOK'
    BY <1>1, <1>4 DEF LiveOK
<1>5. ASSUME tombs' = FreshTombs PROVE TombsOK'
    BY <1>1, <1>5 DEF TombsOK
<1>6. ASSUME NEW c, tombs' = TombsWithout(FreshTombs, c) PROVE TombsOK'
    <2>1. Len(TombsWithout(FreshTombs, c)) \in Nat
        BY <1>1, TombsWithoutOK
    <2> QED
        BY <1>1, <1>2, <1>6, <2>1, TombsWithoutOK DEF TombsOK
<1>7. ASSUME NEW t \in Thread, Step(t) PROVE LiveOK' /\ TombsOK'
    <2>1. CASE ReplayLookup(t)
        BY <1>4, <1>5, <2>1 DEF ReplayLookup
    <2>2. CASE ReplayRead(t)
        BY <1>3, <2>2 DEF ReplayRead
    <2>3. CASE GetOrCreate(t)
        <3> DEFINE c == call[t].ctx
                   s == SessionOf(FreshSessions, c)
                   b == TombOf(FreshTombs, c)
        <3>1. CASE b # None /\ Refused(t, b)
            <4>1. TombToEnd(FreshTombs, c) \in Seq(SafeTombstone)
                  /\ Len(TombToEnd(FreshTombs, c)) <= MaxSessions
                BY <1>1, <3>1, TombToEndOK
            <4> QED
                BY <1>4, <3>1, <4>1 DEF Refused, TombsOK
        <3>2. CASE RefusedClosing(t)
            <4>1. Without(FreshSessions, c) \in Seq(1..created)
                  /\ Len(Without(FreshSessions, c)) <= Len(FreshSessions)
                BY <1>1, WithoutOK
            <4>2. Len(Without(FreshSessions, c)) \in Nat /\ Len(FreshSessions) \in Nat
                BY <1>1, <4>1
            <4> QED
                BY <1>1, <1>2, <1>5, <3>2, <4>1, <4>2 DEF RefusedClosing, LiveOK
        <3>3. CASE s # None /\ Obtain(t, s) /\ UNCHANGED created
            <4>1. s \in 1..created
                BY <1>1, <1>2, <3>3, SessionFound
            <4> HIDE DEF s
            <4> QED
                BY <1>1, <1>2, <1>5, <3>3, <4>1, ToEndOK DEF Obtain, LiveOK
        <3>4. CASE /\ created' = created + 1
                   /\ live' = Newest(Append(FreshSessions, created + 1))
                   /\ tombs' = FreshTombs
            <4> DEFINE S == 1..created + 1
            <4>1. FreshSessions \in Seq(S)
                BY <1>1, <1>2
            <4>2. Append(FreshSessions, created + 1) \in Seq(S)
                BY <1>2, <4>1
            <4> HIDE DEF S
            <4>3. live' \in Seq(S) /\ Len(live') <= MaxSessions
                BY <3>4, <4>2, NewestEntries
            <4> QED
                BY <1>5, <3>4, <4>3 DEF LiveOK, S
        <3> QED
            BY <2>3, <3>1, <3>2, <3>3, <3>4 DEF GetOrCreate
    <2>4. CASE Enter(t) \/ Work(t) \/ Fail(t) \/ CloseRead(t) \/ CloseMark(t)
        BY <1>3, <2>4 DEF Enter, Work, Fail, CloseRead, CloseMark
    <2>5. CASE CloseCommit(t)
        <3> DEFINE K == {i \in DOMAIN live : live[i] # target[t]}
                   S == 1..created
                   old == obj[target[t]].out
        <3>1. target[t] \in Object
            BY <1>2, <2>5 DEF CloseCommit, CallOK, CallOf, Kinds, Object
        <3>2. old \in [Message -> Outbound \cup {None}]
            BY <3>1 DEF Kinds, Session
        <3>3. TombstoneOf(t, old) \in SafeTombstone
            BY <2>5, <3>2, ClosedSafely DEF CloseCommit
        <3>4. tombs' = PutTomb(tombs, TombstoneOf(t, old)) /\ tombs \in Seq(SafeTombstone)
            BY <2>5 DEF CloseCommit, TombsOK
        <3>5. TombsOK'
            BY <3>3, <3>4, PutTombOK DEF TombsOK
        <3>6. /\ live' = Picked(live, K) /\ created' = created /\ K \in SUBSET DOMAIN live
              /\ live \in Seq(S) /\ Len(live) <= MaxSessions /\ Len(live) \in Nat
            BY <2>5 DEF CloseCommit, LiveOK
        <3> HIDE DEF K, S
        <3>7. live' \in Seq(S) /\ Len(live') <= Len(live)
            BY <3>6, PickedEntries
        <3>8. LiveOK'
            BY <1>2, <3>6, <3>7 DEF LiveOK, S
        <3> QED
            BY <3>5, <3>8
    <2>6. CASE CloseBlind(t)
        <3>1. NoOut \in [Message -> Outbound \cup {None}]
            BY DEF NoOut
        <3>2. TombstoneOf(t, NoOut) \in SafeTombstone
            BY <2>6, <3>1, ClosedSafely DEF CloseBlind
        <3>3. tombs' = PutTomb(tombs, TombstoneOf(t, NoOut)) /\ tombs \in Seq(SafeTombstone)
            BY <2>6 DEF CloseBlind, TombsOK
        <3> QED
            BY <2>6, <3>2, <3>3, PutTombOK DEF CloseBlind, TombsOK, LiveOK
    <2>7. CASE Reopen(t)
        BY <1>4, <1>5, <1>6, <2>7 DEF Reopen
    <2> QED
        BY <1>7, <2>1, <2>2, <2>3, <2>4, <2>5, <2>6, <2>7 DEF Step
<1>8. ASSUME NEW c \in Context, GetSession(c) PROVE LiveOK' /\ TombsOK'
    <2> DEFINE s == SessionOf(FreshSessions, c)
    <2>1. CASE s # None /\ live' = Append(Without(FreshSessions, c), s)
        <3>1. s \in 1..created /\ obj[s].ctx = c /\ \E i \in DOMAIN FreshSessions : FreshSessions[i] = s
            <4> DEFINE S == 1..created
            <4>1. FreshSessions \in Seq(S) /\ None \notin S
                BY <1>1, <1>2
            <4> HIDE DEF S
            <4>2. s \in S /\ obj[s].ctx = c /\ \E i \in DOMAIN FreshSessions : FreshSessions[i] = s
                BY <2>1, <4>1, SessionFound
            <4> QED
                BY <4>2 DEF S
        <3>2. /\ Without(FreshSessions, c) \in Seq(1..created)
              /\ Len(Without(FreshSessions, c)) < Len(FreshSessions)
            BY <1>1, <3>1, WithoutOK
        <3> HIDE DEF s
        <3>3. live' \in Seq(1..created) /\ Len(live') = Len(Without(FreshSessions, c)) + 1
              /\ Len(Without(FreshSessions, c)) \in Nat /\ Len(FreshSessions) \in Nat
            BY <1>1, <2>1, <3>1, <3>2
        <3> QED
            BY <1>1, <1>2, <1>5, <1>8, <3>2, <3>3 DEF GetSession, LiveOK
    <2>2. CASE live' = FreshSessions
        BY <1>4, <1>5, <1>8, <2>2 DEF GetSession
    <2> QED
        BY <1>8, <2>1, <2>2 DEF GetSession
<1>9. ASSUME NEW c \in Context, RemoveContext(c) PROVE LiveOK' /\ TombsOK'
    <2>1. /\ live \in Seq(1..created) /\ Len(live) <= MaxSessions /\ Len(live) \in Nat
          /\ tombs \in Seq(SafeTombstone) /\ Len(tombs) <= MaxSessions /\ Len(tombs) \in Nat
        BY DEF LiveOK, TombsOK
    <2>2. /\ Without(live, c) \in Seq(1..created) /\ Len(Without(live, c)) <= Len(live)
          /\ TombsWithout(tombs, c) \in Seq(SafeTombstone)
          /\ Len(TombsWithout(tombs, c)) <= Len(tombs)
        BY <2>1, WithoutOK, TombsWithoutOK
    <2>3. Len(Without(live, c)) \in Nat /\ Len(TombsWithout(tombs, c)) \in Nat
        BY <2>2
    <2> QED
        BY <1>2, <1>9, <2>1, <2>2, <2>3 DEF RemoveContext, LiveOK, TombsOK
<1>10. ASSUME NEW t \in Thread, NEW op, NEW c, NEW m, Start(t, op, c, m)
       PROVE  LiveOK' /\ TombsOK'
    BY <1>3, <1>10 DEF Start
<1>11. CASE Tick
    BY <1>3, <1>11 DEF Tick
<1> QED
    BY <1>7, <1>8, <1>9, <1>10, <1>11 DEF Next

-----------------------------------------------------------------------------
(* The types of the other variables.                                       *)

\* What a thread finds when it looks for its context.
LEMMA Lookups ==
    ASSUME Store, NEW c, NEW m \in Message \cup {None}
    PROVE  /\ SessionOf(FreshSessions, c) \in (1..created) \cup {None}
           /\ SessionOf(live, c) \in (1..created) \cup {None}
           /\ TombReplay(TombOf(FreshTombs, c), m) \in {"text", None}
<1> DEFINE S == 1..created
<1>1. /\ FreshSessions \in Seq(S) /\ live \in Seq(S) /\ None \notin S
      /\ FreshTombs \in Seq(SafeTombstone)
    BY FreshSessionsOK, FreshTombsOK, StoreAssumption DEF Store, LiveOK, Kinds
<1> HIDE DEF S
<1>2. SessionOf(FreshSessions, c) \in S \cup {None} /\ SessionOf(live, c) \in S \cup {None}
    BY <1>1, SessionFound
<1>3. TombOf(FreshTombs, c) \in SafeTombstone \cup {None}
    BY <1>1, TombFound
<1> QED
    BY <1>2, <1>3, TombSilent DEF S

\* The refusal of a closed session names no session object, and replays at most text.
LEMMA Refusals ==
    ASSUME NEW b, NEW m, TombReplay(b, m) \in {"text", None}
    PROVE  /\ ClosedReply(b, m) \in Result /\ ClosedReply(b, m).from \notin Object
           /\ ClosedReply(b, m).val \in {"text", "closed"}
BY StoreAssumption DEF ClosedReply, Ret, Result, Outbound, Grave, Object

\* Without a tombstone nothing is replayed.
LEMMA NoTombstone == ASSUME NEW m PROVE TombReplay(None, m) \in {"text", None}
BY DEF TombReplay

\* Results have their type.
LEMMA ResultsTyped ==
    ASSUME NEW v \in Outbound \cup {"closed", "unavailable", "error", None},
           NEW f \in Object \cup {Grave, None}, NEW b \in BOOLEAN
    PROVE  Ret(v, f, b) \in Result /\ Ret(v, f, b).val = v /\ Ret(v, f, b).from = f
           /\ Ret(v, f, b).fromClosed = b
BY DEF Ret, Result

\* A thread works with a message, a session object and what that keeps for the message.
LEMMA Held ==
    ASSUME Store, NEW t \in Thread
    PROVE  /\ Handles(t) => call[t].msg \in Message
           /\ Holds(t) => /\ ref[t] \in Object /\ obj[ref[t]] \in Session
                          /\ obj[ref[t]].out[call[t].msg] \in Outbound \cup {None}
                          /\ call[t].msg \in Message
           /\ pc[t] \in {"replay", "enter", "work"} => Holds(t)
           /\ pc[t] \in {"closeMark", "closeCommit"} => target[t] \in Object
<1>1. created \in Nat /\ 1..created \subseteq Object
    BY StoreAssumption DEF Store, Kinds, Object
<1>2. CallOK /\ obj \in [Object -> Session]
    BY DEF Store, Kinds
<1>3. Holds(t) => ref[t] \in Object /\ call[t].msg \in Message
    BY <1>1, <1>2 DEF CallOK, CallOf, Holds
<1>4. Holds(t) => /\ obj[ref[t]] \in Session
                  /\ obj[ref[t]].out[call[t].msg] \in Outbound \cup {None}
    BY <1>2, <1>3 DEF Session
<1>5. pc[t] \in {"replay", "enter", "work"} => Holds(t)
    BY <1>2 DEF CallOK, CallOf, Holds, Inside
<1>6. pc[t] \in {"closeMark", "closeCommit"} => target[t] \in Object
    BY <1>1, <1>2 DEF CallOK, CallOf
<1> QED
    BY <1>2, <1>3, <1>4, <1>5, <1>6 DEF CallOK, CallOf

\* A session object that is used or closed is a session object.
LEMMA ObjectsTyped ==
    ASSUME Kinds, NEW o \in Object
    PROVE  /\ [obj EXCEPT ![o].access = now] \in [Object -> Session]
           /\ [obj EXCEPT ![o].closed = TRUE] \in [Object -> Session]
<1>1. obj[o] \in Session /\ obj \in [Object -> Session] /\ now \in Nat
    BY StoreAssumption DEF Kinds
<1>2. [obj[o] EXCEPT !.access = now] \in Session /\ [obj[o] EXCEPT !.closed = TRUE] \in Session
    BY <1>1 DEF Session
<1> HIDE DEF Session
<1>3. \A x \in Session : [obj EXCEPT ![o] = x] \in [Object -> Session]
    BY <1>1
<1> QED
    BY <1>2, <1>3

\* A return makes a thread idle and keeps the types.
LEMMA ReturnKeepsTypes ==
    ASSUME Kinds, NEW t \in Thread, NEW r \in Result, Return(t, r)
    PROVE  /\ pc' \in [Thread -> {"idle", "lookup", "replay", "create", "enter", "work", "reopen",
                          "closeRead", "closeMark", "closeCommit", "closeBlind"}]
           /\ result' \in [Thread -> Result]
BY DEF Kinds, Return

\* What ends a close keeps the types.
LEMMA CloseReturnsTyped ==
    ASSUME Store, NEW t \in Thread, pc[t] \in Inside
    PROVE  /\ CloseReturns(t) => \E r \in Result : Return(t, r)
           /\ CloseRaises(t) => \E r \in Result : Return(t, r)
           /\ Unlock(t, owner) \in [Object -> Thread \cup {None}]
<1>1. Handles(t) => Holds(t)
    BY DEF Holds
<1>2. Handles(t) => ClosingOut(t) \in Outbound \cup {None} /\ ref[t] \in Object
    BY <1>1, Held DEF ClosingOut, Handles
<1>3. Ret("text", None, FALSE) \in Result /\ Ret("error", None, FALSE) \in Result
    BY DEF Ret, Result, Outbound
<1>4. Handles(t) => Ret(ClosingOut(t), ref[t], FALSE) \in Result
    BY <1>2, ResultsTyped
<1>5. ClosedReply(None, None) \in Result
    BY Refusals, NoTombstone
<1>6. Unlock(t, owner) \in [Object -> Thread \cup {None}]
    BY DEF Unlock, Store, Kinds
<1> QED
    BY <1>3, <1>4, <1>5, <1>6 DEF CloseReturns, CloseRaises, Handles

\* Every step keeps the types.
LEMMA KindsKept ==
    ASSUME Store, Next
    PROVE  Kinds'
<1> DEFINE Pcs == {"idle", "lookup", "replay", "create", "enter", "work", "reopen",
                   "closeRead", "closeMark", "closeCommit", "closeBlind"}
<1> Kinds
    BY DEF Store
<1>1. /\ Object \subseteq Nat /\ created \in Nat /\ 1..created \subseteq Object /\ MaxTime \in Nat
      /\ now \in Nat /\ MaxObjects \in Nat
    BY StoreAssumption DEF Kinds, Object
<1>2. ASSUME NEW t \in Thread, NEW c \in Context, NEW op \in {"handle", "cancel", "reopen"},
             NEW m \in Message \cup {None}, Start(t, op, c, m)
      PROVE  Kinds'
    <2>1. call' \in [Thread -> Call]
        BY <1>2 DEF Start, Kinds, Call
    <2>2. result' \in [Thread -> Result]
        BY <1>2, ResultsTyped DEF Start, Kinds, NoResult
    <2>3. pc' \in [Thread -> Pcs] /\ ref' \in [Thread -> Object \cup {None}]
          /\ target' \in [Thread -> Object \cup {None}]
        BY <1>2 DEF Start, Goto, Kinds
    <2> QED
        BY <1>2, <2>1, <2>2, <2>3 DEF Start, Kinds
<1>3. ASSUME NEW t \in Thread, Step(t) PROVE Kinds'
    <2> DEFINE c == call[t].ctx
               m == call[t].msg
               s == SessionOf(FreshSessions, c)
               b == TombOf(FreshTombs, c)
    <2>1. m \in Message \cup {None} /\ c \in Context \cup {None}
        BY DEF Kinds, Call
    <2>2. /\ s \in 1..created \cup {None} /\ s \in Object \cup {None}
          /\ TombReplay(b, m) \in {"text", None}
          /\ SessionOf(live, c) \in Object \cup {None}
        BY <1>1, <2>1, Lookups
    <2>3. ASSUME NEW r \in Result, Return(t, r)
          PROVE  pc' \in [Thread -> Pcs] /\ result' \in [Thread -> Result]
        BY <2>3, ReturnKeepsTypes
    <2>4. ASSUME NEW l \in Pcs, Goto(t, l)
          PROVE  pc' \in [Thread -> Pcs]
        BY <2>4 DEF Goto, Kinds
    <2>5. /\ ClosedReply(b, m) \in Result /\ ClosedReply(None, None) \in Result
          /\ ClosedReply(None, m) \in Result
        BY <2>2, Refusals, NoTombstone
    <2> HIDE DEF s, b, c, m
    <2>6. CASE ReplayLookup(t)
        <3>1. ref' \in [Thread -> Object \cup {None}]
            BY <2>2, <2>6 DEF ReplayLookup, Kinds, s, c
        <3>2. Ret(TombReplay(b, m), Grave, TRUE) \in Result
            BY <2>2, ResultsTyped DEF Outbound
        <3>3. pc' \in [Thread -> Pcs] /\ result' \in [Thread -> Result]
            <4>1. CASE Return(t, Ret(TombReplay(b, m), Grave, TRUE))
                BY <2>3, <3>2, <4>1
            <4>2. CASE (Goto(t, "replay") \/ Goto(t, "create")) /\ UNCHANGED result
                BY <2>4, <4>2 DEF Kinds
            <4> QED
                BY <2>6, <4>1, <4>2 DEF ReplayLookup, b, c, m
        <3> QED
            BY <2>6, <3>1, <3>3 DEF ReplayLookup, Kinds
    <2>7. CASE ReplayRead(t)
        <3>1. Holds(t) /\ ref[t] \in Object /\ obj[ref[t]] \in Session
              /\ obj[ref[t]].out[m] \in Outbound \cup {None}
            BY <2>7, Held DEF ReplayRead, m
        <3>2. Ret(obj[ref[t]].out[m], ref[t], obj[ref[t]].closed) \in Result
            BY <3>1, ResultsTyped DEF Session
        <3>3. pc' \in [Thread -> Pcs] /\ result' \in [Thread -> Result]
            <4>1. CASE Return(t, Ret(obj[ref[t]].out[m], ref[t], obj[ref[t]].closed))
                BY <2>3, <3>2, <4>1
            <4>2. CASE Goto(t, "create") /\ UNCHANGED result
                BY <2>4, <4>2 DEF Kinds
            <4> QED
                BY <2>7, <4>1, <4>2 DEF ReplayRead, m
        <3> QED
            BY <2>7, <3>3 DEF ReplayRead, Kinds
    <2>8. CASE GetOrCreate(t)
        <3>1. Ret("error", None, TRUE) \in Result
            BY ResultsTyped
        <3>2. CASE b # None /\ Refused(t, b)
            <4>1. pc' \in [Thread -> Pcs] /\ result' \in [Thread -> Result]
                BY <2>3, <2>5, <3>1, <3>2 DEF Refused, m
            <4> QED
                BY <2>8, <3>2, <4>1 DEF GetOrCreate, Refused, Kinds
        <3>3. CASE RefusedClosing(t)
            <4>1. pc' \in [Thread -> Pcs] /\ result' \in [Thread -> Result]
                BY <2>3, <2>5, <3>1, <3>3 DEF RefusedClosing
            <4> QED
                BY <2>8, <3>3, <4>1 DEF GetOrCreate, RefusedClosing, Kinds
        <3>4. CASE s # None /\ Obtain(t, s) /\ obj' = [obj EXCEPT ![s].access = now]
                   /\ UNCHANGED created
            <4>1. s \in Object
                BY <2>2, <3>4
            <4>2. Ret("text", s, FALSE) \in Result
                BY <4>1, ResultsTyped DEF Outbound
            <4>3. pc' \in [Thread -> Pcs] /\ result' \in [Thread -> Result]
                <5>1. CASE Goto(t, "enter") /\ UNCHANGED result
                    BY <2>4, <5>1 DEF Kinds
                <5>2. CASE Return(t, Ret("text", s, FALSE))
                    BY <2>3, <4>2, <5>2
                <5> QED
                    BY <3>4, <5>1, <5>2 DEF Obtain
            <4>4. obj' \in [Object -> Session]
                BY <3>4, <4>1, ObjectsTyped
            <4>5. ref' \in [Thread -> Object \cup {None}]
                BY <3>4, <4>1 DEF Obtain, Kinds
            <4> QED
                BY <2>8, <3>4, <4>3, <4>4, <4>5 DEF GetOrCreate, Kinds
        <3>5. CASE /\ created + 1 \in Object
                   /\ created' = created + 1
                   /\ obj' = [obj EXCEPT ![created + 1] = NewSession(c)]
                   /\ ref' = [ref EXCEPT ![t] = created + 1]
                   /\ IF call[t].op = "handle" THEN Goto(t, "enter") /\ UNCHANGED result
                      ELSE Return(t, Ret("text", created + 1, FALSE))
            <4>1. Ret("text", created + 1, FALSE) \in Result
                BY <3>5, ResultsTyped DEF Outbound
            <4>2. pc' \in [Thread -> Pcs] /\ result' \in [Thread -> Result]
                <5>1. CASE Goto(t, "enter") /\ UNCHANGED result
                    BY <2>4, <5>1 DEF Kinds
                <5>2. CASE Return(t, Ret("text", created + 1, FALSE))
                    BY <2>3, <4>1, <5>2
                <5> QED
                    BY <3>5, <5>1, <5>2
            <4>3. NewSession(c) \in Session
                BY <1>1, <2>1 DEF NewSession, Session, NoOut
            <4>4. obj' \in [Object -> Session] /\ ref' \in [Thread -> Object \cup {None}]
                BY <3>5, <4>3 DEF Kinds
            <4>5. created' \in 0..MaxObjects
                BY <1>1, <3>5 DEF Object
            <4> QED
                BY <2>8, <4>2, <4>4, <4>5 DEF GetOrCreate, Kinds
        <3> QED
            BY <2>8, <3>2, <3>3, <3>4, <3>5 DEF GetOrCreate, s, b, c
    <2>9. CASE Enter(t)
        <3> DEFINE o == ref[t]
        <3>1. o \in Object /\ obj[o] \in Session /\ obj[o].out[m] \in Outbound \cup {None}
              /\ m \in Message
            BY <2>9, Held DEF Enter, m
        <3>2. CASE Return(t, ClosedReply(None, m)) /\ UNCHANGED <<obj, owner>>
            BY <2>3, <2>5, <2>9, <3>2 DEF Enter, Kinds
        <3>3. CASE /\ Return(t, IF obj[o].out[m] # None THEN Ret(obj[o].out[m], o, obj[o].closed)
                                ELSE Ret("unavailable", o, FALSE))
                   /\ UNCHANGED <<obj, owner>>
            <4>1. Ret(obj[o].out[m], o, obj[o].closed) \in Result
                  /\ Ret("unavailable", o, FALSE) \in Result
                BY <3>1, ResultsTyped DEF Session
            <4> QED
                BY <2>3, <2>9, <3>3, <4>1 DEF Enter, Kinds
        <3>4. CASE /\ obj' = [obj EXCEPT ![o].seen = @ \cup {m}]
                   /\ owner' = [owner EXCEPT ![o] = t]
                   /\ Goto(t, "work") /\ UNCHANGED result
            <4>1. obj' \in [Object -> Session] /\ owner' \in [Object -> Thread \cup {None}]
                BY <3>1, <3>4 DEF Kinds, Session
            <4> QED
                BY <2>4, <2>9, <3>4, <4>1 DEF Enter, Kinds
        <3> QED
            BY <2>9, <3>2, <3>3, <3>4 DEF Enter, m
    <2>10. CASE Work(t)
        <3> DEFINE o == ref[t]
        <3>1. o \in Object /\ obj[o] \in Session /\ m \in Message
            BY <2>10, Held DEF Work, m
        <3>2. PICK out \in Answers(m) :
                /\ obj' = CacheOutbound(o, m, out)
                /\ IF Kind[m] # "user" \/ out = "lastTools"
                   THEN Goto(t, "closeRead") /\ UNCHANGED <<owner, result>>
                   ELSE /\ owner' = [owner EXCEPT ![o] = None]
                        /\ Return(t, Ret(out, o, FALSE))
            BY <2>10 DEF Work, m
        <3>3. out \in Outbound
            BY DEF Answers, Outbound
        <3>4. obj' \in [Object -> Session]
            BY <3>1, <3>2, <3>3 DEF CacheOutbound, Kinds, Session
        <3>5. Ret(out, o, FALSE) \in Result
            BY <3>1, <3>3, ResultsTyped
        <3>6. pc' \in [Thread -> Pcs] /\ result' \in [Thread -> Result]
              /\ owner' \in [Object -> Thread \cup {None}]
            BY <2>3, <2>4, <3>2, <3>5 DEF Kinds
        <3> QED
            BY <2>10, <3>4, <3>6 DEF Work, Kinds
    <2>11. CASE Fail(t)
        <3>1. Ret("error", None, FALSE) \in Result
            BY ResultsTyped
        <3> QED
            BY <2>3, <2>11, <3>1 DEF Fail, Kinds
    <2>12. CASE CloseRead(t)
        <3>1. pc[t] \in Inside
            BY <2>12 DEF CloseRead, Inside
        <3>2. pc' \in [Thread -> Pcs] /\ result' \in [Thread -> Result]
              /\ owner' \in [Object -> Thread \cup {None}]
            <4>1. CASE CloseReturns(t) /\ owner' = Unlock(t, owner)
                BY <2>3, <3>1, <4>1, CloseReturnsTyped
            <4>2. CASE (Goto(t, "closeBlind") \/ Goto(t, "closeMark")) /\ UNCHANGED <<owner, result>>
                BY <2>4, <4>2 DEF Kinds
            <4> QED
                BY <2>12, <4>1, <4>2 DEF CloseRead
        <3>3. call' \in [Thread -> Call] /\ target' \in [Thread -> Object \cup {None}]
            <4>1. call[t] \in Call /\ [call[t] EXCEPT !.at = now] \in Call
                BY <1>1 DEF Kinds, Call
            <4>2. call' = [call EXCEPT ![t] = [call[t] EXCEPT !.at = now]]
                BY <2>12 DEF CloseRead
            <4>3. call' \in [Thread -> Call]
                BY <4>1, <4>2 DEF Kinds
            <4>4. target' \in [Thread -> Object \cup {None}]
                BY <2>2, <2>12 DEF CloseRead, Kinds, c
            <4> QED
                BY <4>3, <4>4
        <3> QED
            BY <2>12, <3>2, <3>3 DEF CloseRead, Kinds
    <2>13. CASE CloseMark(t)
        <3>1. pc[t] \in Inside /\ target[t] \in Object
            BY <2>13, Held DEF CloseMark, Inside
        <3>2. CASE (CloseReturns(t) \/ CloseRaises(t)) /\ owner' = Unlock(t, owner) /\ UNCHANGED obj
            BY <2>3, <2>13, <3>1, <3>2, CloseReturnsTyped DEF CloseMark, Kinds
        <3>3. CASE /\ obj' = [obj EXCEPT ![target[t]].closed = TRUE]
                   /\ owner' = [owner EXCEPT ![target[t]] = t]
                   /\ Goto(t, "closeCommit") /\ UNCHANGED result
            <4>1. obj' \in [Object -> Session]
                BY <3>1, <3>3, ObjectsTyped
            <4>2. owner' \in [Object -> Thread \cup {None}]
                BY <3>1, <3>3 DEF Kinds
            <4> QED
                BY <2>4, <2>13, <3>3, <4>1, <4>2 DEF CloseMark, Kinds
        <3> QED
            BY <2>13, <3>2, <3>3 DEF CloseMark
    <2>14. CASE CloseCommit(t) \/ CloseBlind(t)
        <3>1. pc[t] \in Inside /\ CloseReturns(t)
            BY <2>14 DEF CloseCommit, CloseBlind, Inside
        <3>2. pc' \in [Thread -> Pcs] /\ result' \in [Thread -> Result]
              /\ Unlock(t, owner) \in [Object -> Thread \cup {None}]
            BY <2>3, <3>1, CloseReturnsTyped
        <3>3. owner' \in [Object -> Thread \cup {None}]
            BY <2>14, <3>2 DEF CloseCommit, CloseBlind
        <3> QED
            BY <2>14, <3>2, <3>3 DEF CloseCommit, CloseBlind, Kinds
    <2>15. CASE Reopen(t)
        <3>1. Ret("error", None, FALSE) \in Result
            BY ResultsTyped
        <3>2. pc' \in [Thread -> Pcs] /\ result' \in [Thread -> Result]
            <4>1. CASE Return(t, Ret("error", None, FALSE))
                BY <2>3, <3>1, <4>1
            <4>2. CASE Goto(t, "create") /\ UNCHANGED result
                BY <2>4, <4>2 DEF Kinds
            <4> QED
                BY <2>15, <4>1, <4>2 DEF Reopen
        <3> QED
            BY <2>15, <3>2 DEF Reopen, Kinds
    <2> QED
        BY <1>3, <2>6, <2>7, <2>8, <2>9, <2>10, <2>11, <2>12, <2>13, <2>14, <2>15 DEF Step
<1>4. ASSUME NEW c \in Context, GetSession(c) PROVE Kinds'
    <2> DEFINE s == SessionOf(FreshSessions, c)
    <2>1. s \in Object \cup {None}
        BY <1>1, Lookups
    <2> HIDE DEF s
    <2>2. obj' \in [Object -> Session]
        <3>1. CASE s # None /\ obj' = [obj EXCEPT ![s].access = now]
            BY <2>1, <3>1, ObjectsTyped
        <3>2. CASE UNCHANGED obj
            BY <3>2 DEF Kinds
        <3> QED
            BY <1>4, <3>1, <3>2 DEF GetSession, s
    <2> QED
        BY <1>4, <2>2 DEF GetSession, Kinds
<1>5. ASSUME NEW c \in Context, RemoveContext(c) PROVE Kinds'
    BY <1>5 DEF RemoveContext, Kinds
<1>6. CASE Tick
    BY <1>1, <1>6 DEF Tick, Kinds
<1> QED
    BY <1>2, <1>3, <1>4, <1>5, <1>6 DEF Next

-----------------------------------------------------------------------------
(* Where the threads are.                                                  *)

\* Two threads that are at the same place with the same operation are alike.
Alike(t) ==
    /\ pc'[t] = pc[t] /\ call'[t] = call[t] /\ ref'[t] = ref[t]
    /\ target'[t] = target[t] /\ result'[t] = result[t]

\* A step of a thread moves no other thread, and session objects are only added.
LEMMA OnlyOneMoves ==
    ASSUME Store, NEW t \in Thread, Step(t)
    PROVE  /\ \A u \in Thread \ {t} : Alike(u)
           /\ created' \in {created, created + 1}
<1> USE DEF Alike
<1>0. Kinds
    BY DEF Store
<1>1. CASE ReplayLookup(t)
    BY <1>0, <1>1 DEF ReplayLookup, Goto, Return, Kinds
<1>2. CASE ReplayRead(t)
    BY <1>0, <1>2 DEF ReplayRead, Goto, Return, Kinds
<1>3. CASE GetOrCreate(t)
    <2>1. /\ \/ \E r : Return(t, r)
             \/ \E l : Goto(t, l) /\ UNCHANGED result
          /\ ref' = ref \/ \E o : ref' = [ref EXCEPT ![t] = o]
          /\ call' = call /\ target' = target
          /\ created' \in {created, created + 1}
        BY <1>3 DEF GetOrCreate, Refused, RefusedClosing, Obtain
    <2>2. \A u \in Thread \ {t} : pc'[u] = pc[u] /\ result'[u] = result[u]
        BY <1>0, <2>1 DEF Goto, Return, Kinds
    <2>3. \A u \in Thread \ {t} : ref'[u] = ref[u]
        BY <1>0, <2>1 DEF Kinds
    <2> QED
        BY <2>1, <2>2, <2>3
<1>4. CASE Enter(t)
    BY <1>0, <1>4 DEF Enter, Goto, Return, Kinds
<1>5. CASE Work(t) \/ Fail(t)
    BY <1>0, <1>5 DEF Work, Fail, Goto, Return, Kinds
<1>6. CASE CloseRead(t)
    BY <1>0, <1>6 DEF CloseRead, CloseReturns, Goto, Return, Kinds
<1>7. CASE CloseMark(t)
    BY <1>0, <1>7 DEF CloseMark, CloseReturns, CloseRaises, Goto, Return, Kinds
<1>8. CASE CloseCommit(t) \/ CloseBlind(t)
    BY <1>0, <1>8 DEF CloseCommit, CloseBlind, CloseReturns, Return, Kinds
<1>9. CASE Reopen(t)
    BY <1>0, <1>9 DEF Reopen, Goto, Return, Kinds
<1> QED
    BY <1>1, <1>2, <1>3, <1>4, <1>5, <1>6, <1>7, <1>8, <1>9 DEF Step

\* Nor does the start of an operation.
LEMMA OnlyOneStarts ==
    ASSUME Store, NEW t \in Thread, NEW op, NEW c, NEW m, Start(t, op, c, m)
    PROVE  /\ \A u \in Thread \ {t} : Alike(u)
           /\ created' = created
BY DEF Start, Goto, Alike, Store, Kinds

\* The steps of no thread.
Elsewhere == (\E c \in Context : GetSession(c) \/ RemoveContext(c)) \/ Tick

\* They move no thread.
LEMMA NobodyMoves ==
    ASSUME Elsewhere
    PROVE  (\A t \in Thread : Alike(t)) /\ created' = created /\ owner' = owner
BY DEF Elsewhere, GetSession, RemoveContext, Tick, Alike

\* Whoever does not move keeps what it works with.
LEMMA AlikeIsAlike ==
    ASSUME Store, NEW t \in Thread, Alike(t)
    PROVE  /\ Handles(t)' = Handles(t) /\ Holds(t)' = Holds(t)
           /\ created' \in {created, created + 1} => CallOf(t)'
<1>1. Handles(t)' = Handles(t) /\ Holds(t)' = Holds(t)
    BY DEF Alike, Handles, Holds
<1>2. created \in Nat /\ CallOf(t)
    BY StoreAssumption DEF Store, Kinds, CallOK
<1>3. ASSUME created' \in {created, created + 1} PROVE CallOf(t)'
    <2>1. 1..created \subseteq 1..created'
        BY <1>2, <1>3
    <2> QED
        BY <1>1, <1>2, <2>1 DEF CallOf, Alike
<1> QED
    BY <1>1, <1>3

\* A thread that stands on is where its operation and its objects fit.
LEMMA CallKept ==
    ASSUME Store, Next
    PROVE  CallOK'
<1>0. Kinds /\ CallOK /\ None \notin Message
    BY StoreAssumption DEF Store
<1>1. /\ Object \subseteq Nat /\ created \in Nat /\ None \notin 1..created
    BY <1>0, StoreAssumption DEF Kinds, Object
<1>2. ASSUME NEW t \in Thread, NEW c \in Context, NEW op \in {"handle", "cancel", "reopen"},
             NEW m \in Message \cup {None}, Start(t, op, c, m)
      PROVE  CallOK'
    <2>1. \A u \in Thread \ {t} : CallOf(u)'
        BY <1>2, OnlyOneStarts, AlikeIsAlike
    <2>2. /\ call'[t] = [op |-> op, ctx |-> c, msg |-> m, at |-> 0]
          /\ pc'[t] = (CASE op = "handle" -> "lookup" [] op = "cancel" -> "closeRead"
                         [] OTHER -> "reopen")
          /\ op = "handle" <=> m # None
        BY <1>0, <1>2 DEF Start, Goto, Kinds
    <2>3. CallOf(t)'
        BY <1>0, <2>2 DEF CallOf, Handles, Holds, Inside
    <2> QED
        BY <2>1, <2>3 DEF CallOK
<1>3. ASSUME NEW t \in Thread, Step(t) PROVE CallOK'
    <2>1. \A u \in Thread \ {t} : CallOf(u)'
        BY <1>3, OnlyOneMoves, AlikeIsAlike
    <2>2. CallOf(t) /\ created' \in {created, created + 1}
        BY <1>0, <1>3, OnlyOneMoves DEF CallOK
    <2>3. 1..created \subseteq 1..created' /\ created' \in Nat
        BY <1>1, <2>2
    <2> DEFINE c == call[t].ctx
               s == SessionOf(FreshSessions, c)
               Stays == /\ pc'[t] = "idle" /\ call'[t].op = call[t].op
                        /\ call'[t].msg = call[t].msg /\ call'[t].ctx = call[t].ctx
    <2>4. s \in (1..created) \cup {None} /\ SessionOf(live, c) \in (1..created) \cup {None}
        BY <1>0, Lookups DEF Kinds, Call
    <2>5. ASSUME Stays PROVE CallOf(t)'
        BY <2>2, <2>5 DEF CallOf, Handles, Holds, Inside
    <2> HIDE DEF s
    <2> SUFFICES CallOf(t)'
        BY <2>1 DEF CallOK
    <2>6. CASE ReplayLookup(t)
        <3>1. CASE s # None /\ Goto(t, "replay")
            BY <1>0, <2>2, <2>3, <2>4, <2>6, <3>1
               DEF ReplayLookup, Goto, Kinds, CallOf, Handles, Holds, Inside, s
        <3>2. CASE \E r : Return(t, r)
            BY <1>0, <2>5, <2>6, <3>2 DEF ReplayLookup, Return, Kinds
        <3>3. CASE Goto(t, "create")
            BY <1>0, <2>2, <2>6, <3>3
               DEF ReplayLookup, Goto, Kinds, CallOf, Handles, Holds, Inside
        <3> QED
            BY <2>6, <3>1, <3>2, <3>3 DEF ReplayLookup, s
    <2>7. CASE ReplayRead(t)
        <3>1. CASE \E r : Return(t, r)
            BY <1>0, <2>5, <2>7, <3>1 DEF ReplayRead, Return, Kinds
        <3>2. CASE Goto(t, "create")
            BY <1>0, <2>2, <2>7, <3>2
               DEF ReplayRead, Goto, Kinds, CallOf, Handles, Holds, Inside
        <3> QED
            BY <2>7, <3>1, <3>2 DEF ReplayRead
    <2>8. CASE GetOrCreate(t)
        <3>1. CASE \E r : Return(t, r)
            BY <1>0, <2>5, <2>8, <3>1 DEF GetOrCreate, Return, Kinds
        <3>2. CASE Goto(t, "enter") /\ Handles(t) /\ ref'[t] \in 1..created'
            BY <1>0, <2>2, <2>3, <2>8, <3>2
               DEF GetOrCreate, Goto, Kinds, CallOf, Handles, Holds, Inside
        <3>3. CASE s # None /\ Obtain(t, s) /\ UNCHANGED created
            <4>1. s \in 1..created /\ ref'[t] = s
                BY <1>0, <2>4, <3>3 DEF Obtain, Kinds
            <4> QED
                BY <3>1, <3>2, <3>3, <4>1 DEF Obtain, Handles
        <3>4. CASE /\ created' = created + 1
                   /\ ref' = [ref EXCEPT ![t] = created + 1]
                   /\ IF call[t].op = "handle" THEN Goto(t, "enter") /\ UNCHANGED result
                      ELSE Return(t, Ret("text", created + 1, FALSE))
            <4>1. ref'[t] \in 1..created'
                BY <1>0, <1>1, <3>4 DEF Kinds
            <4> QED
                BY <3>1, <3>2, <3>4, <4>1 DEF Handles
        <3> QED
            BY <2>8, <3>1, <3>3, <3>4 DEF GetOrCreate, Refused, RefusedClosing, s
    <2>9. CASE Enter(t)
        <3>1. CASE \E r : Return(t, r)
            BY <1>0, <2>5, <2>9, <3>1 DEF Enter, Return, Kinds
        <3>2. CASE Goto(t, "work")
            BY <1>0, <2>2, <2>3, <2>9, <3>2
               DEF Enter, Goto, Kinds, CallOf, Handles, Holds, Inside
        <3> QED
            BY <2>9, <3>1, <3>2 DEF Enter
    <2>10. CASE Work(t)
        <3>1. CASE \E r : Return(t, r)
            BY <1>0, <2>5, <2>10, <3>1 DEF Work, Return, Kinds
        <3>2. CASE Goto(t, "closeRead")
            BY <1>0, <2>2, <2>3, <2>10, <3>2
               DEF Work, Goto, Kinds, CallOf, Handles, Holds, Inside
        <3> QED
            BY <2>10, <3>1, <3>2 DEF Work
    <2>11. CASE Fail(t)
        BY <1>0, <2>5, <2>11 DEF Fail, Return, Kinds
    <2>12. CASE CloseRead(t)
        <3>1. /\ call'[t].op = call[t].op /\ call'[t].msg = call[t].msg
              /\ call'[t].ctx = call[t].ctx
              /\ ref'[t] = ref[t] /\ target'[t] = SessionOf(live, c)
            BY <1>0, <2>12 DEF CloseRead, Kinds, Call
        <3>2. CASE CloseReturns(t)
            BY <1>0, <2>5, <3>1, <3>2 DEF CloseReturns, Return, Kinds
        <3>3. CASE Goto(t, "closeBlind")
            BY <1>0, <2>2, <2>3, <2>12, <3>1, <3>3
               DEF CloseRead, Goto, Kinds, CallOf, Handles, Holds, Inside
        <3>4. CASE SessionOf(live, c) # None /\ Goto(t, "closeMark")
            BY <1>0, <2>2, <2>3, <2>4, <2>12, <3>1, <3>4
               DEF CloseRead, Goto, Kinds, CallOf, Handles, Holds, Inside
        <3> QED
            BY <2>12, <3>2, <3>3, <3>4 DEF CloseRead
    <2>13. CASE CloseMark(t)
        <3>1. CASE CloseReturns(t) \/ CloseRaises(t)
            BY <1>0, <2>5, <2>13, <3>1 DEF CloseMark, CloseReturns, CloseRaises, Return, Kinds
        <3>2. CASE Goto(t, "closeCommit")
            BY <1>0, <2>2, <2>3, <2>13, <3>2
               DEF CloseMark, Goto, Kinds, CallOf, Handles, Holds, Inside
        <3> QED
            BY <2>13, <3>1, <3>2 DEF CloseMark
    <2>14. CASE CloseCommit(t) \/ CloseBlind(t)
        BY <1>0, <2>5, <2>14 DEF CloseCommit, CloseBlind, CloseReturns, Return, Kinds
    <2>15. CASE Reopen(t)
        <3>1. CASE \E r : Return(t, r)
            BY <1>0, <2>5, <2>15, <3>1 DEF Reopen, Return, Kinds
        <3>2. CASE Goto(t, "create")
            BY <1>0, <2>2, <2>15, <3>2
               DEF Reopen, Goto, Kinds, CallOf, Handles, Holds, Inside
        <3> QED
            BY <2>15, <3>1, <3>2 DEF Reopen
    <2> QED
        BY <1>3, <2>6, <2>7, <2>8, <2>9, <2>10, <2>11, <2>12, <2>13, <2>14, <2>15 DEF Step
<1>4. CASE Elsewhere
    BY <1>4, NobodyMoves, AlikeIsAlike DEF CallOK
<1> QED
    BY <1>2, <1>3, <1>4 DEF Next, Elsewhere

-----------------------------------------------------------------------------
(* The locks.                                                              *)

\* A thread takes and releases locks that are free or its own.
LEMMA OwnLocksOnly ==
    ASSUME Store, NEW t \in Thread, Step(t), NEW o \in Object
    PROVE  owner'[o] = owner[o] \/ (owner[o] \in {None, t} /\ owner'[o] \in {None, t})
<1>0. Kinds /\ LockOf(t)
    BY DEF Store, LockOK
<1>1. pc[t] \in Inside /\ Handles(t) => ref[t] \in Object /\ owner[ref[t]] = t
    BY <1>0, Held DEF Holds, LockOf
<1>2. pc[t] \in {"closeMark", "closeCommit"} => target[t] \in Object
    BY Held
<1>3. pc[t] = "enter" => ref[t] \in Object
    BY Held
<1>4. CASE ReplayLookup(t) \/ ReplayRead(t) \/ GetOrCreate(t) \/ Reopen(t)
    BY <1>4 DEF ReplayLookup, ReplayRead, GetOrCreate, Reopen
<1>5. CASE Enter(t)
    BY <1>0, <1>3, <1>5 DEF Enter, CanLock, Kinds
<1>6. CASE Work(t) \/ Fail(t)
    <2>1. pc[t] \in Inside /\ Handles(t)
        BY <1>6, Held DEF Work, Fail, Inside, Holds
    <2> QED
        BY <1>0, <1>1, <1>6, <2>1 DEF Work, Fail, Kinds
<1>7. ASSUME pc[t] \in Inside
      PROVE  Unlock(t, owner)[o] = owner[o] \/ (owner[o] = t /\ Unlock(t, owner)[o] = None)
    BY <1>0, <1>1, <1>7 DEF Unlock, Handles, Kinds
<1>8. CASE CloseRead(t) \/ CloseBlind(t)
    <2>1. pc[t] \in Inside
        BY <1>8 DEF CloseRead, CloseBlind, Inside
    <2> QED
        BY <1>7, <1>8, <2>1 DEF CloseRead, CloseBlind
<1>9. CASE CloseMark(t)
    <2>1. pc[t] \in Inside
        BY <1>9 DEF CloseMark, Inside
    <2> QED
        BY <1>0, <1>2, <1>7, <1>9, <2>1 DEF CloseMark, CanLock, Kinds
<1>10. CASE CloseCommit(t)
    <2>1. pc[t] \in Inside /\ owner[target[t]] = t /\ target[t] \in Object
        BY <1>0, <1>2, <1>10 DEF CloseCommit, Inside, LockOf
    <2>2. Unlock(t, owner) \in [Object -> Thread \cup {None}]
        BY <2>1, CloseReturnsTyped
    <2>3. owner' = [Unlock(t, owner) EXCEPT ![target[t]] = None]
        BY <1>10 DEF CloseCommit
    <2> QED
        BY <1>7, <2>1, <2>2, <2>3
<1> QED
    BY <1>4, <1>5, <1>6, <1>8, <1>9, <1>10 DEF Step

\* A lock stays with whoever does not move.
LEMMA LockStays ==
    ASSUME Store, NEW u \in Thread, Alike(u),
           \A o \in Object : \/ owner'[o] = owner[o]
                             \/ owner[o] # u /\ owner'[o] # u
    PROVE  LockOf(u)'
<1>1. LockOf(u) /\ Handles(u)' = Handles(u)
    BY AlikeIsAlike DEF Store, LockOK
<1>2. /\ pc[u] \in Inside /\ Handles(u) => ref[u] \in Object
      /\ pc[u] = "closeCommit" => target[u] \in Object
    BY Held DEF Holds
<1> QED
    BY <1>1, <1>2 DEF LockOf, Alike

\* Locks are held by the threads that were let in, and by nobody else.
LEMMA LockKept ==
    ASSUME Store, Next
    PROVE  LockOK'
<1>0. Kinds /\ CallOK /\ LockOK /\ None \notin Thread
    BY StoreAssumption DEF Store
<1>1. ASSUME NEW t \in Thread, NEW c \in Context, NEW op \in {"handle", "cancel", "reopen"},
             NEW m \in Message \cup {None}, Start(t, op, c, m)
      PROVE  LockOK'
    <2>1. owner' = owner
        BY <1>1 DEF Start
    <2>2. \A u \in Thread \ {t} : LockOf(u)'
        BY <1>1, <2>1, OnlyOneStarts, LockStays
    <2>3. /\ pc[t] = "idle" /\ pc'[t] \in {"lookup", "closeRead", "reopen"}
          /\ pc'[t] = "closeRead" => op = "cancel"
          /\ call'[t].op = op
        BY <1>0, <1>1 DEF Start, Goto, Kinds
    <2>4. \A o \in Object : owner[o] # t
        BY <1>0, <2>3 DEF LockOK, LockOf, Inside
    <2>5. LockOf(t)'
        BY <2>1, <2>3, <2>4 DEF LockOf, Inside, Handles
    <2> QED
        BY <2>2, <2>5 DEF LockOK
<1>2. ASSUME NEW t \in Thread, Step(t) PROVE LockOK'
    <2>1. \A u \in Thread \ {t} : LockOf(u)'
        BY <1>0, <1>2, OnlyOneMoves, OwnLocksOnly, LockStays
    <2> SUFFICES LockOf(t)'
        BY <2>1 DEF LockOK
    <2>2. LockOf(t) /\ CallOf(t)
        BY <1>0 DEF LockOK, CallOK
    <2> DEFINE Out == pc[t] \notin Inside /\ pc'[t] \notin Inside /\ owner' = owner
    <2>3. ASSUME Out PROVE LockOf(t)'
        BY <2>2, <2>3 DEF LockOf, Inside
    <2>4. Holds(t) => ref[t] \in Object
        BY Held
    <2>5. CASE ReplayLookup(t) \/ ReplayRead(t) \/ Reopen(t)
        BY <1>0, <2>3, <2>5 DEF ReplayLookup, ReplayRead, Reopen, Goto, Return, Inside, Kinds
    <2>6. CASE GetOrCreate(t)
        BY <1>0, <2>3, <2>6
           DEF GetOrCreate, Refused, RefusedClosing, Obtain, Goto, Return, Inside, Kinds
    <2>7. CASE Enter(t)
        <3>1. ref[t] \in Object /\ Handles(t)
            BY <2>2, <2>4, <2>7 DEF Enter, Holds, CallOf
        <3>2. CASE /\ owner' = [owner EXCEPT ![ref[t]] = t] /\ Goto(t, "work")
            <4>1. /\ pc'[t] = "work" /\ ref'[t] = ref[t] /\ Handles(t)'
                  /\ \A o \in Object : owner[o] # t
                BY <1>0, <2>2, <2>7, <3>1, <3>2 DEF Enter, Goto, Kinds, Handles, LockOf, Inside
            <4> QED
                BY <1>0, <3>1, <3>2, <4>1 DEF LockOf, Inside, Kinds
        <3>3. CASE owner' = owner /\ \E r : Return(t, r)
            BY <1>0, <2>3, <2>7, <3>3 DEF Enter, Return, Inside, Kinds
        <3> QED
            BY <2>7, <3>2, <3>3 DEF Enter
    <2> DEFINE Leaves == /\ pc'[t] = "idle" /\ pc[t] \in Inside
                         /\ \A o \in Object : owner'[o] # t
    <2>8. ASSUME Leaves PROVE LockOf(t)'
        BY <2>8 DEF LockOf, Inside
    <2>9. ASSUME pc[t] \in Inside, pc[t] # "closeCommit", pc'[t] = "idle", Handles(t),
                 owner' = [owner EXCEPT ![ref[t]] = None]
          PROVE  LockOf(t)'
        BY <1>0, <2>2, <2>8, <2>9 DEF LockOf, Inside, Kinds
    <2>10. ASSUME pc[t] \in Inside, pc[t] # "closeCommit", pc'[t] = "idle",
                  owner' = Unlock(t, owner)
           PROVE  LockOf(t)'
        <3>1. CASE Handles(t)
            BY <2>9, <2>10, <3>1 DEF Unlock, Handles
        <3>2. CASE ~Handles(t)
            BY <2>2, <2>8, <2>10, <3>2 DEF Unlock, Handles, LockOf
        <3> QED
            BY <3>1, <3>2
    <2>11. ASSUME pc[t] \in Inside, pc'[t] \in Inside, pc[t] # "closeCommit",
                  pc'[t] # "closeCommit",
                  owner' = owner, ref' = ref, Handles(t)' = Handles(t)
           PROVE  LockOf(t)'
        BY <2>2, <2>11 DEF LockOf
    <2>12. CASE Work(t)
        <3>1. pc[t] = "work" /\ Handles(t) /\ ref' = ref /\ Handles(t)' = Handles(t)
            BY <2>2, <2>12 DEF Work, CallOf, Handles
        <3>2. CASE Goto(t, "closeRead") /\ owner' = owner
            BY <1>0, <2>11, <3>1, <3>2 DEF Goto, Inside, Kinds
        <3>3. CASE owner' = [owner EXCEPT ![ref[t]] = None] /\ \E r : Return(t, r)
            BY <1>0, <2>9, <3>1, <3>3 DEF Return, Inside, Kinds
        <3> QED
            BY <2>12, <3>2, <3>3 DEF Work
    <2>13. CASE Fail(t)
        <3>1. pc[t] = "work" /\ Handles(t) /\ pc'[t] = "idle"
            BY <1>0, <2>2, <2>13 DEF Fail, CallOf, Return, Kinds
        <3> QED
            BY <2>9, <2>13, <3>1 DEF Fail, Inside
    <2>14. CASE CloseRead(t)
        <3>1. /\ pc[t] = "closeRead" /\ ref' = ref /\ Handles(t)' = Handles(t)
            BY <1>0, <2>14 DEF CloseRead, Handles, Kinds, Call
        <3>2. CASE CloseReturns(t) /\ owner' = Unlock(t, owner)
            BY <1>0, <2>10, <3>1, <3>2 DEF CloseReturns, Return, Inside, Kinds
        <3>3. CASE (Goto(t, "closeBlind") \/ Goto(t, "closeMark")) /\ owner' = owner
            BY <1>0, <2>11, <3>1, <3>3 DEF Goto, Inside, Kinds
        <3> QED
            BY <2>14, <3>2, <3>3 DEF CloseRead
    <2>15. CASE CloseMark(t)
        <3>1. /\ pc[t] = "closeMark" /\ ref' = ref /\ Handles(t)' = Handles(t)
              /\ target' = target /\ target[t] \in Object
            BY <2>15, Held DEF CloseMark, Handles
        <3>2. CASE (CloseReturns(t) \/ CloseRaises(t)) /\ owner' = Unlock(t, owner)
            BY <1>0, <2>10, <3>1, <3>2 DEF CloseReturns, CloseRaises, Return, Inside, Kinds
        <3>3. CASE owner' = [owner EXCEPT ![target[t]] = t] /\ Goto(t, "closeCommit")
            <4>1. pc'[t] = "closeCommit"
                BY <1>0, <3>3 DEF Goto, Kinds
            <4>2. Handles(t) => ref[t] \in Object /\ owner[ref[t]] = t
                BY <2>2, <2>4, <3>1 DEF LockOf, Holds, Inside
            <4> QED
                BY <1>0, <2>2, <3>1, <3>3, <4>1, <4>2 DEF LockOf, Inside, Kinds
        <3> QED
            BY <2>15, <3>2, <3>3 DEF CloseMark
    <2>16. CASE CloseCommit(t)
        <3>1. /\ pc[t] = "closeCommit" /\ pc'[t] = "idle" /\ target[t] \in Object
              /\ owner' = [Unlock(t, owner) EXCEPT ![target[t]] = None]
            BY <1>0, <2>16, Held DEF CloseCommit, CloseReturns, Return, Kinds
        <3>2. Handles(t) => ref[t] \in Object
            BY <2>4, <3>1 DEF Holds, Inside
        <3>3. \A o \in Object : owner'[o] # t
            BY <1>0, <2>2, <3>1, <3>2 DEF LockOf, Unlock, Handles, Kinds
        <3> QED
            BY <2>8, <3>1, <3>3 DEF Inside
    <2>17. CASE CloseBlind(t)
        BY <1>0, <2>10, <2>17 DEF CloseBlind, CloseReturns, Return, Inside, Kinds
    <2> QED
        BY <1>2, <2>5, <2>6, <2>7, <2>12, <2>13, <2>14, <2>15, <2>16, <2>17 DEF Step
<1>3. CASE Elsewhere
    BY <1>3, NobodyMoves, LockStays DEF LockOK
<1> QED
    BY <1>1, <1>2, <1>3 DEF Next, Elsewhere

-----------------------------------------------------------------------------
(* What happens to a session object.                                       *)

\* The ways in which a session object changes: it accepts a message, it is given the
\* answer of one, or it is closed, each by the thread that has its lock.
Accepts(t, o) ==
    /\ Enter(t) /\ ref[t] = o /\ CanLock(o, t) /\ pc'[t] = "work"
    /\ ~obj[o].closed /\ call[t].msg \notin obj[o].seen
    /\ obj'[o].seen = obj[o].seen \cup {call[t].msg}
    /\ obj'[o].out = obj[o].out /\ obj'[o].closed = obj[o].closed
Caches(t, o) ==
    /\ Work(t) /\ ref[t] = o /\ pc'[t] # "work"
    /\ \E x \in Outbound : obj'[o].out = [obj[o].out EXCEPT ![call[t].msg] = x]
    /\ obj'[o].seen = obj[o].seen /\ obj'[o].closed = obj[o].closed
Closes(t, o) ==
    /\ CloseMark(t) /\ target[t] = o /\ CanLock(o, t) /\ pc'[t] = "closeCommit"
    /\ obj'[o].closed
    /\ obj'[o].seen = obj[o].seen /\ obj'[o].out = obj[o].out
Untouched(o) ==
    obj'[o].seen = obj[o].seen /\ obj'[o].out = obj[o].out /\ obj'[o].closed = obj[o].closed

\* A created session object changes in these ways only; one that is not created yet
\* stays blank, also by being created.
LEMMA ObjectsMove ==
    ASSUME Store, Next, NEW o \in Object
    PROVE  /\ o \in 1..created =>
                 /\ obj'[o].ctx = obj[o].ctx
                 /\ \/ Untouched(o)
                    \/ \E t \in Thread : Accepts(t, o) \/ Caches(t, o) \/ Closes(t, o)
           /\ o > created => ~obj'[o].closed /\ obj'[o].seen = {} /\ obj'[o].out = NoOut
<1>0. Kinds /\ BlankOK /\ Object \subseteq Nat /\ created \in Nat /\ None \notin 1..created
    BY StoreAssumption DEF Store, Kinds, Object
<1> DEFINE Goal == /\ o \in 1..created =>
                         /\ obj'[o].ctx = obj[o].ctx
                         /\ \/ Untouched(o)
                            \/ \E t \in Thread : Accepts(t, o) \/ Caches(t, o) \/ Closes(t, o)
                   /\ o > created => ~obj'[o].closed /\ obj'[o].seen = {} /\ obj'[o].out = NoOut
<1> SUFFICES Goal
    OBVIOUS
<1>1. ASSUME obj' = obj PROVE Goal
    BY <1>0, <1>1 DEF Untouched, BlankOK
<1>2. ASSUME NEW s \in 1..created, obj' = [obj EXCEPT ![s].access = now] PROVE Goal
    BY <1>0, <1>2 DEF Untouched, BlankOK, Kinds, Session
<1>3. ASSUME NEW t \in Thread, Step(t) PROVE Goal
    <2>1. Holds(t) => ref[t] \in 1..created
        BY DEF Store, CallOK, CallOf
    <2>2. pc[t] \in {"closeMark", "closeCommit"} => target[t] \in 1..created
        BY DEF Store, CallOK, CallOf
    <2>3. pc[t] \in {"replay", "enter", "work"} => Holds(t)
        BY Held
    <2>4. CASE ReplayLookup(t) \/ ReplayRead(t) \/ Reopen(t) \/ Fail(t) \/ CloseRead(t)
               \/ CloseCommit(t) \/ CloseBlind(t)
        BY <1>1, <2>4 DEF ReplayLookup, ReplayRead, Reopen, Fail, CloseRead, CloseCommit, CloseBlind
    <2>5. CASE GetOrCreate(t)
        <3> DEFINE s == SessionOf(FreshSessions, call[t].ctx)
        <3>1. s \in (1..created) \cup {None}
            BY <1>0, Lookups DEF Kinds, Call
        <3> HIDE DEF s
        <3>2. CASE obj' = obj
            BY <1>1, <3>2
        <3>3. CASE s # None /\ obj' = [obj EXCEPT ![s].access = now]
            BY <1>2, <3>1, <3>3
        <3>4. CASE created + 1 \in Object /\ obj' = [obj EXCEPT ![created + 1] = NewSession(call[t].ctx)]
            <4>1. o # created + 1 => obj'[o] = obj[o]
                BY <1>0, <3>4 DEF Kinds
            <4>2. o = created + 1 => obj'[o] = NewSession(call[t].ctx)
                BY <1>0, <3>4 DEF Kinds
            <4>3. o \in 1..created => o # created + 1
                BY <1>0
            <4>4. o > created => ~obj'[o].closed /\ obj'[o].seen = {} /\ obj'[o].out = NoOut
                BY <1>0, <4>1, <4>2 DEF NewSession, BlankOK
            <4> QED
                BY <4>1, <4>3, <4>4 DEF Untouched
        <3> QED
            BY <2>5, <3>2, <3>3, <3>4 DEF GetOrCreate, Refused, RefusedClosing, s
    <2>6. CASE Enter(t)
        <3>1. CASE obj' = obj
            BY <1>1, <3>1
        <3>2. CASE /\ Usable(ref[t]) /\ call[t].msg \notin obj[ref[t]].seen
                   /\ obj' = [obj EXCEPT ![ref[t]].seen = @ \cup {call[t].msg}]
                   /\ Goto(t, "work")
            <4>1. ref[t] \in 1..created /\ CanLock(ref[t], t) /\ pc'[t] = "work"
                BY <1>0, <2>1, <2>3, <2>6, <3>2 DEF Enter, Goto, Kinds
            <4>2. o # ref[t] => obj'[o] = obj[o]
                BY <1>0, <3>2 DEF Kinds
            <4>3. o = ref[t] => Accepts(t, o) /\ obj'[o].ctx = obj[o].ctx
                BY <1>0, <2>6, <3>2, <4>1 DEF Accepts, Usable, Kinds, Session
            <4> QED
                BY <1>0, <4>1, <4>2, <4>3 DEF Untouched, BlankOK
        <3> QED
            BY <2>6, <3>1, <3>2 DEF Enter
    <2>7. CASE Work(t)
        <3>1. PICK out \in Answers(call[t].msg) :
                /\ obj' = CacheOutbound(ref[t], call[t].msg, out)
                /\ \/ Goto(t, "closeRead")
                   \/ \E r : Return(t, r)
            BY <2>7 DEF Work
        <3>2. out \in Outbound
            BY DEF Answers, Outbound
        <3>3. ref[t] \in 1..created /\ pc'[t] # "work"
            BY <1>0, <2>1, <2>3, <2>7, <3>1 DEF Work, Goto, Return, Kinds
        <3>4. o # ref[t] => obj'[o] = obj[o]
            BY <1>0, <3>1 DEF CacheOutbound, Kinds
        <3>5. o = ref[t] => /\ obj'[o].out = [obj[o].out EXCEPT ![call[t].msg] = out]
                            /\ obj'[o].seen = obj[o].seen /\ obj'[o].closed = obj[o].closed
                            /\ obj'[o].ctx = obj[o].ctx
            BY <1>0, <3>1 DEF CacheOutbound, Kinds, Session
        <3>6. o = ref[t] => Caches(t, o)
            BY <2>7, <3>2, <3>3, <3>5 DEF Caches
        <3> QED
            BY <1>0, <3>3, <3>4, <3>5, <3>6 DEF Untouched, BlankOK
    <2>8. CASE CloseMark(t)
        <3>1. CASE obj' = obj
            BY <1>1, <3>1
        <3>2. CASE obj' = [obj EXCEPT ![target[t]].closed = TRUE] /\ Goto(t, "closeCommit")
            <4>1. target[t] \in 1..created /\ CanLock(target[t], t) /\ pc'[t] = "closeCommit"
                BY <1>0, <2>2, <2>8, <3>2 DEF CloseMark, Goto, Kinds
            <4>2. o # target[t] => obj'[o] = obj[o]
                BY <1>0, <3>2 DEF Kinds
            <4>3. o = target[t] => Closes(t, o) /\ obj'[o].ctx = obj[o].ctx
                BY <1>0, <2>8, <3>2, <4>1 DEF Closes, Kinds, Session
            <4> QED
                BY <1>0, <4>1, <4>2, <4>3 DEF Untouched, BlankOK
        <3> QED
            BY <2>8, <3>1, <3>2 DEF CloseMark
    <2> QED
        BY <1>3, <2>4, <2>5, <2>6, <2>7, <2>8 DEF Step
<1>4. ASSUME NEW c \in Context, GetSession(c) PROVE Goal
    <2> DEFINE s == SessionOf(FreshSessions, c)
    <2>1. s \in (1..created) \cup {None}
        BY Lookups
    <2> HIDE DEF s
    <2>2. obj' = obj \/ (s # None /\ obj' = [obj EXCEPT ![s].access = now])
        BY <1>4 DEF GetSession, s
    <2> QED
        BY <1>1, <1>2, <2>1, <2>2
<1>5. ASSUME obj' # obj PROVE \/ \E t \in Thread : Step(t)
                              \/ \E c \in Context : GetSession(c)
    BY <1>5 DEF Next, Start, RemoveContext, Tick
<1> QED
    BY <1>1, <1>3, <1>4, <1>5

-----------------------------------------------------------------------------
(* The answers.                                                            *)

\* A session object that is not created yet stays blank.
LEMMA BlankKept ==
    ASSUME Store, Next
    PROVE  BlankOK'
<1>1. Object \subseteq Nat /\ created \in Nat /\ created' \in Nat /\ created <= created'
    <2>1. created \in Nat /\ Object \subseteq Nat
        BY StoreAssumption DEF Store, Kinds, Object
    <2>2. CASE \E t \in Thread : Step(t)
        BY <2>1, <2>2, OnlyOneMoves
    <2>3. CASE ~ \E t \in Thread : Step(t)
        BY <2>1, <2>3 DEF Next, Start, GetSession, RemoveContext, Tick
    <2> QED
        BY <2>1, <2>2, <2>3
<1>2. \A o \in Object : o > created' => o > created
    BY <1>1
<1> QED
    BY <1>2, ObjectsMove DEF BlankOK

\* What AnswersOK says of one thread.
AnswerOf(t) ==
    /\ pc[t] = "work" =>
          /\ ~obj[ref[t]].closed
          /\ call[t].msg \in obj[ref[t]].seen
          /\ obj[ref[t]].out[call[t].msg] = None
    /\ pc[t] \in Inside \ {"work"} /\ Handles(t) => obj[ref[t]].out[call[t].msg] # None

\* A thread that caches an answer has the lock of the session, and its message had none.
LEMMA CachesOnce ==
    ASSUME Store, NEW t \in Thread, NEW o \in Object, Caches(t, o)
    PROVE  /\ owner[o] = t /\ pc[t] = "work" /\ call[t].msg \in Message
           /\ obj[o].out[call[t].msg] = None /\ call[t].msg \in obj[o].seen
           /\ \A m \in Message : obj'[o].out[m] # None <=>
                                   (obj[o].out[m] # None \/ m = call[t].msg)
           /\ \A m \in Message : m # call[t].msg => obj'[o].out[m] = obj[o].out[m]
<1>1. pc[t] = "work" /\ Holds(t) /\ Handles(t) /\ ref[t] = o
    BY Held DEF Caches, Work, Holds
<1>2. owner[o] = t
    BY <1>1 DEF Store, LockOK, LockOf, Inside
<1>3. call[t].msg \in Message /\ obj[o].out \in [Message -> Outbound \cup {None}]
    BY <1>1, Held DEF Session
<1>4. PICK x \in Outbound : obj'[o].out = [obj[o].out EXCEPT ![call[t].msg] = x]
    BY DEF Caches
<1>5. None \notin Outbound
    BY StoreAssumption DEF Outbound
<1> QED
    BY <1>1, <1>2, <1>3, <1>4, <1>5 DEF Store, AnswersOK

\* The answers of a thread that does not move stay what they are.
LEMMA AnswersStay ==
    ASSUME Store, Next, NEW u \in Thread, Alike(u)
    PROVE  AnswerOf(u)'
<1> DEFINE o == ref[u]
           m == call[u].msg
<1>0. Handles(u)' = Handles(u) /\ Holds(u)' = Holds(u)
    BY AlikeIsAlike
<1> SUFFICES ASSUME pc[u] \in Inside, Handles(u)
             PROVE  AnswerOf(u)'
    BY <1>0, Held DEF AnswerOf, Alike, Holds, Inside
<1>1. Holds(u) /\ o \in 1..created /\ o \in Object /\ m \in Message /\ owner[o] = u
    BY Held DEF Holds, Store, CallOK, CallOf, LockOK, LockOf
<1>2. AnswerOf(u)
    BY DEF Store, AnswersOK, AnswerOf
<1> HIDE DEF o, m
<1>3. CASE Untouched(o)
    BY <1>0, <1>2, <1>3 DEF AnswerOf, Alike, Untouched, o, m
<1>4. ASSUME NEW t \in Thread, Accepts(t, o) PROVE AnswerOf(u)'
    BY <1>0, <1>2, <1>4 DEF AnswerOf, Alike, Accepts, o, m
<1>5. ASSUME NEW t \in Thread, Caches(t, o) PROVE AnswerOf(u)'
    <2>1. owner[o] = t /\ pc[t] = "work"
        BY <1>1, <1>5, CachesOnce
    <2>2. t = u /\ pc[u] = "work" /\ pc'[u] # "work"
        BY <1>1, <1>5, <2>1 DEF Caches
    <2> QED
        BY <2>2 DEF Alike
<1>6. ASSUME NEW t \in Thread, Closes(t, o) PROVE AnswerOf(u)'
    <2>1. t = u
        BY <1>1, <1>6, StoreAssumption DEF Closes, CanLock
    <2>2. pc[u] = "closeMark"
        BY <1>6, <2>1 DEF Closes, CloseMark
    <2> QED
        BY <1>0, <1>2, <1>6, <2>2 DEF AnswerOf, Alike, Closes, o, m
<1> QED
    BY <1>1, <1>3, <1>4, <1>5, <1>6, ObjectsMove

\* An answer is cached for an accepted message, once.
LEMMA AnswersKept ==
    ASSUME Store, Next
    PROVE  AnswersOK'
<1>0. Kinds /\ AnswersOK /\ None \notin Outbound
    BY StoreAssumption DEF Store, Outbound
<1>1. ASSUME NEW o \in Object, NEW m \in Message, obj'[o].out[m] # None
      PROVE  m \in obj'[o].seen
    <2>1. CASE o > created
        BY <1>1, <2>1, ObjectsMove DEF NoOut
    <2>2. CASE o \in 1..created
        <3>1. ASSUME Untouched(o) PROVE m \in obj'[o].seen
            BY <1>0, <1>1, <3>1 DEF Untouched, AnswersOK
        <3>2. ASSUME NEW t \in Thread, Accepts(t, o) \/ Closes(t, o) PROVE m \in obj'[o].seen
            BY <1>0, <1>1, <3>2 DEF Accepts, Closes, AnswersOK
        <3>3. ASSUME NEW t \in Thread, Caches(t, o) PROVE m \in obj'[o].seen
            <4>1. obj[o].out[m] # None \/ m = call[t].msg
                BY <1>1, <3>3, CachesOnce
            <4>2. m \in obj[o].seen
                BY <1>0, <3>3, <4>1, CachesOnce DEF AnswersOK
            <4> QED
                BY <3>3, <4>2 DEF Caches
        <3> QED
            BY <2>2, <3>1, <3>2, <3>3, ObjectsMove
    <2>3. o > created \/ o \in 1..created
        BY <1>0 DEF Kinds, Object
    <2> QED
        BY <2>1, <2>2, <2>3
<1> SUFFICES \A u \in Thread : AnswerOf(u)'
    BY <1>1 DEF AnswersOK, AnswerOf
<1>2. ASSUME NEW t \in Thread, NEW c \in Context, NEW op \in {"handle", "cancel", "reopen"},
             NEW m \in Message \cup {None}, Start(t, op, c, m)
      PROVE  \A u \in Thread : AnswerOf(u)'
    <2>1. \A u \in Thread \ {t} : AnswerOf(u)'
        BY <1>2, OnlyOneStarts, AnswersStay
    <2>2. /\ pc'[t] \in {"lookup", "closeRead", "reopen"} /\ call'[t].op = op
          /\ pc'[t] = "closeRead" => op = "cancel"
        BY <1>0, <1>2 DEF Start, Goto, Kinds
    <2>3. AnswerOf(t)'
        BY <2>2 DEF AnswerOf, Handles, Inside
    <2> QED
        BY <2>1, <2>3
<1>3. ASSUME NEW t \in Thread, Step(t) PROVE \A u \in Thread : AnswerOf(u)'
    <2>1. \A u \in Thread \ {t} : AnswerOf(u)'
        BY <1>3, OnlyOneMoves, AnswersStay
    <2> SUFFICES AnswerOf(t)'
        BY <2>1
    <2>2. AnswerOf(t)
        BY <1>0 DEF AnswersOK, AnswerOf
    <2>3. ASSUME pc'[t] \notin Inside PROVE AnswerOf(t)'
        BY <2>3 DEF AnswerOf, Inside
    <2>4. CASE ReplayLookup(t) \/ ReplayRead(t) \/ Reopen(t) \/ Fail(t)
        BY <1>0, <2>3, <2>4 DEF ReplayLookup, ReplayRead, Reopen, Fail, Goto, Return, Inside, Kinds
    <2>5. CASE GetOrCreate(t)
        BY <1>0, <2>3, <2>5
           DEF GetOrCreate, Refused, RefusedClosing, Obtain, Goto, Return, Inside, Kinds
    <2>6. CASE CloseCommit(t) \/ CloseBlind(t)
        BY <1>0, <2>3, <2>6 DEF CloseCommit, CloseBlind, CloseReturns, Return, Inside, Kinds
    <2>7. CASE Enter(t)
        <3>1. ref[t] \in Object /\ call[t].msg \in Message /\ obj[ref[t]] \in Session
            BY <2>7, Held DEF Enter
        <3>2. CASE \E r : Return(t, r)
            BY <1>0, <2>3, <2>7, <3>2 DEF Enter, Return, Inside, Kinds
        <3>3. CASE /\ Usable(ref[t]) /\ call[t].msg \notin obj[ref[t]].seen
                   /\ obj' = [obj EXCEPT ![ref[t]].seen = @ \cup {call[t].msg}]
                   /\ Goto(t, "work")
            <4>1. obj[ref[t]].out[call[t].msg] = None
                BY <1>0, <3>1, <3>3 DEF AnswersOK
            <4>2. pc'[t] = "work" /\ ref' = ref /\ call' = call
                BY <1>0, <2>7, <3>3 DEF Enter, Goto, Kinds
            <4>3. /\ ~obj'[ref[t]].closed /\ call[t].msg \in obj'[ref[t]].seen
                  /\ obj'[ref[t]].out[call[t].msg] = None
                BY <1>0, <3>1, <3>3, <4>1 DEF Usable, Kinds, Session
            <4> QED
                BY <4>2, <4>3 DEF AnswerOf
        <3> QED
            BY <2>7, <3>2, <3>3 DEF Enter
    <2>8. CASE Work(t)
        <3>1. ref[t] \in Object /\ call[t].msg \in Message /\ obj[ref[t]] \in Session
            BY <2>8, Held DEF Work
        <3>2. PICK out \in Answers(call[t].msg) :
                /\ obj' = CacheOutbound(ref[t], call[t].msg, out)
                /\ \/ Goto(t, "closeRead")
                   \/ \E r : Return(t, r)
            BY <2>8 DEF Work
        <3>3. out # None
            BY <1>0 DEF Answers, Outbound
        <3>4. obj'[ref[t]].out[call[t].msg] = out
            BY <1>0, <3>1, <3>2 DEF CacheOutbound, Kinds, Session
        <3>5. pc'[t] # "work" /\ ref' = ref /\ call' = call
            BY <1>0, <2>8, <3>2 DEF Work, Goto, Return, Kinds
        <3> QED
            BY <3>3, <3>4, <3>5 DEF AnswerOf
    <2>9. ASSUME pc[t] \in Inside \ {"work"}, pc'[t] # "work", ref' = ref, call'[t].op = call[t].op,
                 call'[t].msg = call[t].msg, ref[t] \in Object => obj'[ref[t]].out = obj[ref[t]].out
          PROVE  AnswerOf(t)'
        <3>1. Handles(t)' = Handles(t) /\ (Handles(t) => ref[t] \in Object)
            BY <2>9, Held DEF Handles, Holds
        <3> QED
            BY <2>2, <2>9, <3>1 DEF AnswerOf
    <2>10. CASE CloseRead(t)
        <3>1. pc[t] \in Inside \ {"work"} /\ pc'[t] # "work"
            BY <1>0, <2>10 DEF CloseRead, CloseReturns, Goto, Return, Inside, Kinds
        <3> QED
            BY <1>0, <2>9, <2>10, <3>1 DEF CloseRead, Kinds, Call
    <2>11. CASE CloseMark(t)
        <3>1. pc[t] \in Inside \ {"work"} /\ pc'[t] # "work"
            BY <1>0, <2>11 DEF CloseMark, CloseReturns, CloseRaises, Goto, Return, Inside, Kinds
        <3>2. obj' = obj \/ (target[t] \in Object /\ obj' = [obj EXCEPT ![target[t]].closed = TRUE])
            BY <2>11, Held DEF CloseMark
        <3>3. ref[t] \in Object => obj'[ref[t]].out = obj[ref[t]].out
            <4> SUFFICES ASSUME ref[t] \in Object PROVE obj'[ref[t]].out = obj[ref[t]].out
                OBVIOUS
            <4>1. obj[ref[t]] \in Session
                BY <1>0 DEF Kinds
            <4>2. CASE obj' = [obj EXCEPT ![target[t]].closed = TRUE] /\ target[t] \in Object
                <5>1. obj'[ref[t]] = IF ref[t] = target[t] THEN [obj[ref[t]] EXCEPT !.closed = TRUE]
                                                          ELSE obj[ref[t]]
                    BY <1>0, <4>2 DEF Kinds
                <5> QED
                    BY <4>1, <5>1 DEF Session
            <4> QED
                BY <3>2, <4>2
        <3> QED
            BY <2>9, <2>11, <3>1, <3>3 DEF CloseMark
    <2> QED
        BY <1>3, <2>4, <2>5, <2>6, <2>7, <2>8, <2>10, <2>11 DEF Step
<1>4. CASE Elsewhere
    BY <1>4, NobodyMoves, AnswersStay
<1> QED
    BY <1>2, <1>3, <1>4 DEF Next, Elsewhere

-----------------------------------------------------------------------------
(* The results.                                                            *)

\* What ResultsOK says of one thread.
ResultOf(t) ==
    result[t].from \in Object /\ Handles(t) =>
        LET o == result[t].from
            m == call[t].msg
        IN  /\ o <= created
            /\ \/ result[t].val = obj[o].out[m] /\ obj[o].out[m] # None
               \/ /\ result[t].val = "unavailable"
                  /\ obj[o].out[m] = None /\ m \in obj[o].seen
                  /\ \A u \in Thread : pc[u] = "work" /\ ref[u] = o => call[u].msg # m

\* Whoever works after a step worked before, on the same, or has just been let in with a
\* message nobody saw there.
LEMMA NewWorkers ==
    ASSUME Store, Next, NEW v \in Thread, pc'[v] = "work"
    PROVE  /\ ref'[v] = ref[v] /\ call'[v].msg = call[v].msg
           /\ pc[v] = "work" \/ call[v].msg \notin obj[ref[v]].seen
<1>0. Kinds
    BY DEF Store
<1>1. CASE Alike(v)
    BY <1>1 DEF Alike
<1>2. CASE ~Alike(v)
    <2>1. \/ Step(v)
          \/ \E c \in Context, op \in {"handle", "cancel", "reopen"}, m \in Message \cup {None} :
                Start(v, op, c, m)
        BY <1>2, OnlyOneMoves, OnlyOneStarts, NobodyMoves DEF Next, Elsewhere
    <2>2. ASSUME NEW c, NEW op, NEW m, Start(v, op, c, m) PROVE FALSE
        BY <1>0, <2>2 DEF Start, Goto, Kinds
    <2>3. ASSUME Step(v) PROVE Enter(v)
        <3>1. ~ReplayLookup(v) /\ ~ReplayRead(v) /\ ~Reopen(v) /\ ~Fail(v)
            BY <1>0 DEF ReplayLookup, ReplayRead, Reopen, Fail, Goto, Return, Kinds
        <3>2. ~GetOrCreate(v)
            BY <1>0 DEF GetOrCreate, Refused, RefusedClosing, Obtain, Goto, Return, Kinds
        <3>3. ~CloseCommit(v) /\ ~CloseBlind(v) /\ ~CloseRead(v) /\ ~CloseMark(v)
            BY <1>0 DEF CloseCommit, CloseBlind, CloseRead, CloseMark, CloseReturns, CloseRaises,
                        Goto, Return, Kinds
        <3>4. ~Work(v)
            BY <1>0 DEF Work, Goto, Return, Kinds
        <3> QED
            BY <2>3, <3>1, <3>2, <3>3, <3>4 DEF Step
    <2>4. Enter(v)
        BY <2>1, <2>2, <2>3
    <2> QED
        BY <1>0, <2>4 DEF Enter, Return, Kinds
<1> QED
    BY <1>1, <1>2

\* The result of a thread stays what its session object keeps for the message.
LEMMA ResultsStay ==
    ASSUME Store, Next, NEW u \in Thread,
           result'[u] = result[u], call'[u].op = call[u].op, call'[u].msg = call[u].msg
    PROVE  ResultOf(u)'
<1> DEFINE o == result[u].from
           m == call[u].msg
           cached == obj[o].out[m]
<1>1. Handles(u)' = Handles(u)
    BY DEF Handles
<1> SUFFICES ASSUME o \in Object, Handles(u)
             PROVE  ResultOf(u)'
    BY <1>1 DEF ResultOf
<1>2. /\ o <= created /\ m \in Message
      /\ \/ result[u].val = cached /\ cached # None
         \/ /\ result[u].val = "unavailable" /\ cached = None /\ m \in obj[o].seen
            /\ \A v \in Thread : pc[v] = "work" /\ ref[v] = o => call[v].msg # m
    BY Held DEF Store, ResultsOK
<1>3. o \in 1..created /\ created \in Nat /\ created' \in {created, created + 1}
    <2>1. created \in Nat /\ o \in 1..created
        BY <1>2, StoreAssumption DEF Store, Kinds, Object
    <2>2. created' \in {created, created + 1}
        BY OnlyOneMoves, OnlyOneStarts, NobodyMoves DEF Next, Elsewhere
    <2> QED
        BY <2>1, <2>2
<1> HIDE DEF o, m
<1>4. ASSUME NEW t \in Thread, Caches(t, o) PROVE call[t].msg # m
    <2>1. pc[t] = "work" /\ ref[t] = o
        BY <1>4 DEF Caches, Work
    <2>2. call[t].msg = m => cached = None
        BY <1>4, CachesOnce
    <2> QED
        BY <1>2, <2>1, <2>2
<1>5. obj'[o].out[m] = cached /\ (m \in obj[o].seen => m \in obj'[o].seen)
    <2>1. CASE Untouched(o)
        BY <2>1 DEF Untouched
    <2>2. ASSUME NEW t \in Thread, Accepts(t, o) \/ Closes(t, o)
          PROVE  obj'[o].out[m] = cached /\ (m \in obj[o].seen => m \in obj'[o].seen)
        BY <2>2 DEF Accepts, Closes
    <2>3. ASSUME NEW t \in Thread, Caches(t, o)
          PROVE  obj'[o].out[m] = cached /\ (m \in obj[o].seen => m \in obj'[o].seen)
        <3>1. obj'[o].out[m] = cached
            BY <1>2, <1>4, <2>3, CachesOnce
        <3> QED
            BY <2>3, <3>1 DEF Caches
    <2> QED
        BY <1>3, <2>1, <2>2, <2>3, ObjectsMove
<1>6. ASSUME m \in obj[o].seen,
             \A v \in Thread : pc[v] = "work" /\ ref[v] = o => call[v].msg # m
      PROVE  \A v \in Thread : pc'[v] = "work" /\ ref'[v] = o => call'[v].msg # m
    BY <1>6, NewWorkers
<1>7. o = result'[u].from /\ m = call'[u].msg /\ o <= created'
    BY <1>2, <1>3 DEF o, m
<1> QED
    BY <1>2, <1>5, <1>6, <1>7 DEF ResultOf

\* What a step returns is what the session object keeps for the message.
LEMMA ResultsKept ==
    ASSUME Store, Next
    PROVE  ResultsOK'
<1>0. Kinds /\ LockOK /\ None \notin Thread /\ None \notin Object
    BY StoreAssumption DEF Store, Object
<1> SUFFICES \A u \in Thread : ResultOf(u)'
    BY DEF ResultsOK, ResultOf
<1>1. ASSUME NEW u \in Thread, Alike(u) PROVE ResultOf(u)'
    BY <1>1, ResultsStay DEF Alike
<1>2. ASSUME NEW t \in Thread, NEW c \in Context, NEW op \in {"handle", "cancel", "reopen"},
             NEW m \in Message \cup {None}, Start(t, op, c, m)
      PROVE  \A u \in Thread : ResultOf(u)'
    <2>1. \A u \in Thread \ {t} : ResultOf(u)'
        BY <1>1, <1>2, OnlyOneStarts
    <2>2. result'[t].from \notin Object
        BY <1>0, <1>2 DEF Start, NoResult, Ret, Kinds
    <2>3. ResultOf(t)'
        BY <2>2 DEF ResultOf
    <2> QED
        BY <2>1, <2>3
<1>3. ASSUME NEW t \in Thread, Step(t) PROVE \A u \in Thread : ResultOf(u)'
    <2>1. \A u \in Thread \ {t} : Alike(u)
        BY <1>3, OnlyOneMoves
    <2> SUFFICES ResultOf(t)'
        BY <1>1, <2>1
    <2>2. call'[t].op = call[t].op /\ call'[t].msg = call[t].msg
        <3>1. CASE CloseRead(t)
            BY <1>0, <3>1 DEF CloseRead, Kinds, Call
        <3>2. CASE ~CloseRead(t)
            BY <1>3, <3>2 DEF Step, ReplayLookup, ReplayRead, GetOrCreate, Enter, Work, Fail,
                              CloseMark, CloseCommit, CloseBlind, Reopen
        <3> QED
            BY <3>1, <3>2
    <2>3. ASSUME UNCHANGED result PROVE ResultOf(t)'
        BY <2>2, <2>3, ResultsStay
    <2>4. ASSUME NEW r, r.from \notin Object, Return(t, r) PROVE ResultOf(t)'
        BY <1>0, <2>4 DEF Return, ResultOf, Kinds
    <2>5. Handles(t)' = Handles(t)
        BY <2>2 DEF Handles
    <2>6. ASSUME ~Handles(t) PROVE ResultOf(t)'
        BY <2>5, <2>6 DEF ResultOf
    <2>7. ASSUME NEW v, NEW b, Holds(t), Return(t, Ret(v, ref[t], b)),
                 v = obj'[ref[t]].out[call[t].msg], v # None
          PROVE  ResultOf(t)'
        <3>1. result'[t].from = ref[t] /\ result'[t].val = v
            BY <1>0, <2>7 DEF Return, Ret, Kinds
        <3>2. ref[t] <= created'
            <4>1. ref[t] \in 1..created /\ created \in Nat /\ created' \in {created, created + 1}
                BY <1>3, <2>7, OnlyOneMoves, StoreAssumption DEF Store, CallOK, CallOf, Kinds
            <4> QED
                BY <4>1
        <3> QED
            BY <2>2, <2>7, <3>1, <3>2 DEF ResultOf
    <2>8. \A b : ClosedReply(b, call[t].msg).from \notin Object
                 /\ ClosedReply(None, None).from \notin Object
        BY <1>0 DEF ClosedReply, Ret, Grave, Object
    <2>9. /\ \A v, b : Ret(v, Grave, b).from \notin Object
          /\ \A v, b : Ret(v, None, b).from \notin Object
        BY <1>0 DEF Ret, Grave, Object
    <2>10. ASSUME pc[t] \in Inside \ {"work"}, UNCHANGED obj, CloseReturns(t)
           PROVE  ResultOf(t)'
        <3>1. CASE Handles(t)
            <4>1. Holds(t) /\ ClosingOut(t) = obj[ref[t]].out[call[t].msg] /\ ClosingOut(t) # None
                BY <2>10, <3>1 DEF Holds, ClosingOut, Handles, Store, AnswersOK
            <4>2. Return(t, Ret(ClosingOut(t), ref[t], FALSE))
                BY <2>10, <3>1 DEF CloseReturns, Handles
            <4> QED
                BY <2>7, <2>10, <4>1, <4>2
        <3> QED
            BY <2>6, <3>1
    <2>11. CASE ReplayLookup(t)
        BY <2>3, <2>4, <2>9, <2>11 DEF ReplayLookup
    <2>12. CASE ReplayRead(t)
        <3>1. Holds(t)
            BY <2>12, Held DEF ReplayRead
        <3> QED
            BY <2>3, <2>7, <2>12, <3>1 DEF ReplayRead
    <2>13. CASE GetOrCreate(t)
        <3>1. CASE \E b : Refused(t, b) \/ RefusedClosing(t)
            BY <2>4, <2>6, <2>8, <3>1 DEF Refused, RefusedClosing, ClosedReply, TombReplay, Handles
        <3>2. CASE Handles(t) => UNCHANGED result
            BY <2>3, <2>6, <3>2
        <3> QED
            BY <2>13, <3>1, <3>2 DEF GetOrCreate, Obtain, Handles
    <2>14. CASE Enter(t)
        <3> DEFINE o == ref[t]
                   m == call[t].msg
        <3>1. Holds(t) /\ m \in Message /\ o \in Object
            BY <2>14, Held DEF Enter
        <3>2. CASE Return(t, ClosedReply(None, m)) \/ UNCHANGED result
            BY <2>3, <2>4, <2>8, <3>2
        <3>3. CASE obj[o].out[m] # None /\ UNCHANGED obj
                   /\ Return(t, Ret(obj[o].out[m], o, obj[o].closed))
            BY <2>7, <3>1, <3>3
        <3>4. CASE obj[o].out[m] = None /\ m \in obj[o].seen /\ UNCHANGED obj
                   /\ Return(t, Ret("unavailable", o, FALSE))
            <4>1. result'[t].from = o /\ result'[t].val = "unavailable"
                BY <1>0, <3>4 DEF Return, Ret, Kinds
            <4>2. pc'[t] = "idle" /\ owner[o] \in {None, t}
                BY <1>0, <2>14, <3>4 DEF Return, Enter, CanLock, Kinds
            <4>3. ASSUME NEW u \in Thread, pc'[u] = "work", ref'[u] = o PROVE FALSE
                <5>1. u # t
                    BY <4>2, <4>3
                <5>2. pc[u] = "work" /\ ref[u] = o
                    BY <2>1, <4>3, <5>1 DEF Alike
                <5>3. owner[o] = u
                    BY <1>0, <5>2, Held DEF LockOK, LockOf, Inside, Holds
                <5> QED
                    BY <1>0, <4>2, <5>1, <5>3
            <4>4. o <= created'
                <5>1. o \in 1..created /\ created' = created /\ created \in Nat
                    BY <2>14, <3>1, StoreAssumption DEF Enter, Store, CallOK, CallOf, Kinds
                <5> QED
                    BY <5>1
            <4> QED
                BY <2>2, <3>4, <4>1, <4>3, <4>4 DEF ResultOf
        <3> QED
            BY <2>14, <3>2, <3>3, <3>4 DEF Enter
    <2>15. CASE Work(t)
        <3>1. Holds(t) /\ call[t].msg \in Message /\ ref[t] \in Object /\ obj[ref[t]] \in Session
            BY <2>15, Held DEF Work
        <3>2. PICK out \in Answers(call[t].msg) :
                /\ obj' = CacheOutbound(ref[t], call[t].msg, out)
                /\ UNCHANGED result \/ Return(t, Ret(out, ref[t], FALSE))
            BY <2>15 DEF Work
        <3>3. out # None
            BY StoreAssumption DEF Answers, Outbound
        <3>4. obj'[ref[t]].out[call[t].msg] = out
            BY <1>0, <3>1, <3>2 DEF CacheOutbound, Kinds, Session
        <3> QED
            BY <2>3, <2>7, <3>1, <3>2, <3>3, <3>4
    <2>16. CASE Fail(t)
        BY <2>4, <2>9, <2>16 DEF Fail
    <2>17. CASE CloseRead(t)
        BY <2>3, <2>10, <2>17 DEF CloseRead, Inside
    <2>18. CASE CloseMark(t)
        <3>1. CASE CloseRaises(t)
            BY <2>4, <2>6, <2>8, <3>1 DEF CloseRaises, Handles
        <3>2. CASE UNCHANGED result
            BY <2>3, <3>2
        <3>3. CASE CloseReturns(t) /\ UNCHANGED obj
            BY <2>10, <2>18, <3>3 DEF CloseMark, Inside
        <3> QED
            BY <2>18, <3>1, <3>2, <3>3 DEF CloseMark
    <2>19. CASE CloseCommit(t) \/ CloseBlind(t)
        BY <2>10, <2>19 DEF CloseCommit, CloseBlind, Inside
    <2>20. CASE Reopen(t)
        BY <2>3, <2>4, <2>9, <2>20 DEF Reopen
    <2> QED
        BY <1>3, <2>11, <2>12, <2>13, <2>14, <2>15, <2>16, <2>17, <2>18, <2>19, <2>20 DEF Step
<1>4. CASE Elsewhere
    BY <1>1, <1>4, NobodyMoves
<1> QED
    BY <1>2, <1>3, <1>4 DEF Next, Elsewhere

-----------------------------------------------------------------------------
(* The invariant, and what follows from it.                                *)

\* At the start nothing is there.
LEMMA StoreInit == ASSUME Init PROVE Store
<1>1. /\ Object \subseteq Nat /\ MaxObjects \in Nat /\ MaxTime \in Nat /\ MaxSessions \in Nat
      /\ None \notin Thread /\ None \notin Object /\ None \notin Message
    BY StoreAssumption DEF Object
<1>2. NoOut \in [Message -> Outbound \cup {None}]
    BY DEF NoOut
<1>3. Ret(None, None, FALSE) \in Result
    BY ResultsTyped
<1>4. Kinds
    <2>1. obj \in [Object -> Session]
        BY <1>1, <1>2 DEF Init, Session
    <2>2. now \in 0..MaxTime /\ created \in 0..MaxObjects
        BY <1>1 DEF Init
    <2>3. call \in [Thread -> Call]
        BY DEF Init, Call
    <2>4. result \in [Thread -> Result]
        BY <1>3 DEF Init, NoResult
    <2> QED
        BY <2>1, <2>2, <2>3, <2>4 DEF Init, Kinds
<1>5. LiveOK /\ TombsOK
    BY <1>1 DEF Init, LiveOK, TombsOK
<1>6. CallOK /\ LockOK /\ BlankOK
    BY <1>1 DEF Init, CallOK, CallOf, LockOK, LockOf, BlankOK, Handles, Holds, Inside
<1>7. AnswersOK
    BY DEF Init, AnswersOK, NoOut, Inside
<1>8. ResultsOK
    BY <1>1 DEF Init, ResultsOK, Handles
<1> QED
    BY <1>4, <1>5, <1>6, <1>7, <1>8 DEF Store

\* Every step keeps the invariant.
LEMMA StoreKept == ASSUME Store, [Next]_vars PROVE Store'
<1>1. CASE Next
    BY <1>1, KindsKept, DictionariesKept, CallKept, LockKept, BlankKept, AnswersKept, ResultsKept
       DEF Store
<1>2. CASE UNCHANGED vars
    <2> USE <1>2 DEF vars
    <2>1. Kinds' /\ LiveOK' /\ TombsOK'
        BY DEF Store, Kinds, LiveOK, TombsOK
    <2>2. CallOK' /\ LockOK'
        BY DEF Store, CallOK, CallOf, LockOK, LockOf, Handles, Holds
    <2>3. BlankOK' /\ AnswersOK' /\ ResultsOK'
        BY DEF Store, BlankOK, AnswersOK, ResultsOK, Handles
    <2> QED
        BY <2>1, <2>2, <2>3 DEF Store
<1> QED
    BY <1>1, <1>2

\* The invariant holds in every reachable state of the store.
THEOREM StoreAlways == Spec => []Store
<1>1. Init => Store
    BY StoreInit
<1>2. Store /\ [Next]_vars => Store'
    BY StoreKept
<1> QED
    BY <1>1, <1>2, PTL DEF Spec

\* Whatever the threads do, in every order of their critical sections, the variables have
\* their types and neither dictionary grows beyond max_sessions.
THEOREM StoreTypes == Spec => []TypeOK
<1>1. Store => TypeOK
    <2> SUFFICES ASSUME Store PROVE TypeOK
        OBVIOUS
    <2>1. created \in Nat /\ 1..created \subseteq Object /\ SafeTombstone \subseteq Tombstone
        BY StoreAssumption DEF Store, Kinds, Object, SafeTombstone
    <2>2. live \in Seq(Object) /\ tombs \in Seq(Tombstone)
        BY <2>1 DEF Store, LiveOK, TombsOK
    <2> QED
        BY <2>1, <2>2 DEF Store, Kinds, LiveOK, TombsOK, TypeOK
<1> QED
    BY <1>1, StoreAlways, PTL

\* No path through handle_event and _close, by return or by exception, leaves a session
\* locked: a lock is held only by a thread inside its critical section.
THEOREM LocksReleasedAlways == Spec => []LocksAreReleased
<1>1. Store => LocksAreReleased
    <2> SUFFICES ASSUME Store, NEW o \in Object, owner[o] # None
                 PROVE  pc[owner[o]] \in Inside
        BY DEF LocksAreReleased, Inside
    <2>1. owner[o] \in Thread
        BY DEF Store, Kinds
    <2> QED
        BY <2>1 DEF Store, LockOK, LockOf, Inside
<1> QED
    BY <1>1, StoreAlways, PTL

\* A tombstone replays text only, and that of a cancelled context nothing but the answer
\* to a cancel, however many closes and redeliveries race.
THEOREM TombstonesSafeAlways == Spec => []TombstonesAreSafe
<1>1. Store => TombstonesAreSafe
    <2> SUFFICES ASSUME Store, NEW i \in DOMAIN tombs
                 PROVE  tombs[i] \in SafeTombstone
        BY DEF TombstonesAreSafe, SafeTombstone
    <2> QED
        BY DEF Store, TombsOK
<1> QED
    BY <1>1, StoreAlways, PTL

\* A message gets one answer, by whichever thread and path it is asked for.
THEOREM OneAnswerAlways == Spec => []OneAnswerPerMessage
<1>1. Store => OneAnswerPerMessage
    BY DEF Store, ResultsOK, OneAnswerPerMessage, Handles
<1> QED
    BY <1>1, StoreAlways, PTL

\* Nothing is accepted by a closed session object and nothing cached in it, also by the
\* threads that fetched the object before and waited for its lock.
THEOREM ClosedIsFrozen == Spec => ClosedSessionIsFrozen
<1> DEFINE Frozen == \A o \in Object : obj[o].closed => obj'[o].seen = obj[o].seen
                                                        /\ obj'[o].out = obj[o].out
<1>1. ASSUME Store, [Next]_vars PROVE Frozen
    <2>1. CASE Next
        <3> SUFFICES ASSUME NEW o \in Object, obj[o].closed
                     PROVE  obj'[o].seen = obj[o].seen /\ obj'[o].out = obj[o].out
            OBVIOUS
        <3>1. o \in 1..created
            BY <1>1, StoreAssumption DEF Store, BlankOK, Kinds, Object
        <3>2. \A t \in Thread : ~Accepts(t, o)
            BY DEF Accepts
        <3>3. ASSUME NEW t \in Thread, Caches(t, o) PROVE FALSE
            <4>1. pc[t] = "work" /\ ref[t] = o
                BY <3>3 DEF Caches, Work
            <4> QED
                BY <1>1, <4>1 DEF Store, AnswersOK
        <3> QED
            BY <1>1, <2>1, <3>1, <3>2, <3>3, ObjectsMove DEF Untouched, Closes
    <2>2. CASE UNCHANGED vars
        BY <2>2 DEF vars
    <2> QED
        BY <1>1, <2>1, <2>2
<1>2. Store /\ [Next]_vars => [Frozen]_vars
    BY <1>1
<1> QED
    BY <1>2, StoreAlways, PTL DEF Spec, ClosedSessionIsFrozen

\* What a closed session leaves is silent about tool calls: only the redelivery that had
\* fetched the session before it was closed is handed any.
THEOREM NoToolReplayAlways == Spec => NoToolReplayAfterClose
<1> DEFINE Told(t) == /\ result'[t] # result[t] /\ result'[t].fromClosed
                      /\ result'[t].val \in {"tools", "lastTools"}
           Silent == \A t \in Thread :
                        result'[t] # result[t] /\ result'[t].fromClosed
                          /\ result'[t].val \in {"tools", "lastTools"} => pc[t] = "replay"
<1>1. ASSUME Store, Next PROVE Silent
    <2> SUFFICES ASSUME NEW t \in Thread, Told(t) PROVE pc[t] = "replay"
        OBVIOUS
    <2>0. Kinds
        BY <1>1 DEF Store
    <2>1. ~Alike(t)
        BY DEF Alike
    <2>2. \/ Step(t)
          \/ \E c \in Context, op \in {"handle", "cancel", "reopen"}, m \in Message \cup {None} :
                Start(t, op, c, m)
        BY <1>1, <2>1, OnlyOneMoves, OnlyOneStarts, NobodyMoves DEF Next, Elsewhere
    <2>3. ASSUME NEW op, NEW c, NEW m, Start(t, op, c, m) PROVE FALSE
        BY <2>0, <2>3 DEF Start, NoResult, Ret, Kinds
    <2>4. ASSUME NEW r, Return(t, r), \/ r.fromClosed = FALSE
                                      \/ r.val \notin {"tools", "lastTools"}
          PROVE  FALSE
        BY <2>0, <2>4 DEF Return, Kinds
    <2>5. \A v, f, b : /\ Ret(v, f, FALSE).fromClosed = FALSE
                       /\ Ret(v, f, b).val = v
        BY DEF Ret
    <2>6. call[t].msg \in Message \cup {None} /\ TombReplay(None, call[t].msg) \in {"text", None}
          /\ TombReplay(TombOf(FreshTombs, call[t].ctx), call[t].msg) \in {"text", None}
        BY <1>1, <2>0, Lookups, NoTombstone DEF Kinds, Call
    <2>7. \A b, m : TombReplay(b, m) \in {"text", None} =>
                      ClosedReply(b, m).val \notin {"tools", "lastTools"}
        BY Refusals
    <2>8. TombReplay(None, None) \in {"text", None}
        BY NoTombstone
    <2>9. CASE ReplayLookup(t)
        BY <2>4, <2>5, <2>6, <2>9 DEF ReplayLookup
    <2>10. CASE GetOrCreate(t)
        <3> DEFINE b == TombOf(FreshTombs, call[t].ctx)
        <3>1. ~Refused(t, b) /\ ~RefusedClosing(t)
            <4> DEFINE error == Ret("error", None, TRUE)
                       kept == ClosedReply(b, call[t].msg)
                       none == ClosedReply(None, None)
            <4>1. error.val = "error"
                BY <2>5
            <4>2. kept.val \notin {"tools", "lastTools"} /\ none.val \notin {"tools", "lastTools"}
                BY <2>6, <2>7, <2>8
            <4>3. /\ Refused(t, b) => Return(t, kept) \/ Return(t, error)
                  /\ RefusedClosing(t) => Return(t, none) \/ Return(t, error)
                BY DEF Refused, RefusedClosing
            <4> HIDE DEF error, kept, none
            <4> QED
                BY <2>4, <4>1, <4>2, <4>3
        <3>2. CASE \E o : Obtain(t, o)
            BY <2>4, <2>5, <3>2 DEF Obtain
        <3> HIDE DEF b
        <3> QED
            BY <2>4, <2>5, <2>10, <3>1, <3>2 DEF GetOrCreate, b
    <2>11. CASE Enter(t)
        <3>1. CASE Return(t, ClosedReply(None, call[t].msg))
            <4>1. ClosedReply(None, call[t].msg).val \notin {"tools", "lastTools"}
                BY <2>6, <2>7
            <4> QED
                BY <2>4, <3>1, <4>1
        <3>2. CASE /\ Usable(ref[t])
                   /\ Return(t, IF obj[ref[t]].out[call[t].msg] # None
                                THEN Ret(obj[ref[t]].out[call[t].msg], ref[t], obj[ref[t]].closed)
                                ELSE Ret("unavailable", ref[t], FALSE))
            <4>1. obj[ref[t]].closed = FALSE
                <5>1. ref[t] \in Object
                    BY <1>1, <2>11, Held DEF Enter
                <5>2. obj[ref[t]].closed \in BOOLEAN
                    BY <2>0, <5>1 DEF Kinds, Session
                <5> QED
                    BY <3>2, <5>2 DEF Usable
            <4>2. CASE Return(t, Ret(obj[ref[t]].out[call[t].msg], ref[t], FALSE))
                BY <2>4, <2>5, <4>2
            <4>3. CASE Return(t, Ret("unavailable", ref[t], FALSE))
                BY <2>4, <2>5, <4>3
            <4> QED
                BY <3>2, <4>1, <4>2, <4>3
        <3>3. CASE UNCHANGED result
            BY <3>3
        <3> QED
            BY <2>11, <3>1, <3>2, <3>3 DEF Enter
    <2>12. CASE Work(t) \/ Fail(t)
        BY <2>4, <2>5, <2>12 DEF Work, Fail
    <2>13. ~CloseReturns(t) /\ ~CloseRaises(t)
        BY <2>4, <2>5, <2>7, <2>8 DEF CloseReturns, CloseRaises
    <2>14. ~CloseRead(t) /\ ~CloseMark(t) /\ ~CloseCommit(t) /\ ~CloseBlind(t)
        BY <2>13 DEF CloseRead, CloseMark, CloseCommit, CloseBlind
    <2>15. ~Reopen(t)
        BY <2>4, <2>5 DEF Reopen
    <2> QED
        BY <2>2, <2>3, <2>9, <2>10, <2>11, <2>12, <2>14, <2>15 DEF Step, ReplayRead
<1>2. ASSUME Store, [Next]_vars PROVE Silent
    <2>1. CASE UNCHANGED vars
        BY <2>1 DEF vars
    <2> QED
        BY <1>1, <1>2, <2>1
<1>3. Store /\ [Next]_vars => [Silent]_vars
    BY <1>2
<1> QED
    BY <1>3, StoreAlways, PTL DEF Spec, NoToolReplayAfterClose

-----------------------------------------------------------------------------
(* As long as nothing is evicted.                                          *)

\* Picking every entry changes nothing.
LEMMA PickedAll == ASSUME NEW S, NEW s \in Seq(S) PROVE Picked(s, DOMAIN s) = s
<1> DEFINE n == Len(s)
           Rank(k) == Cardinality({j \in 1..n : j <= k})
           Position(i) == CHOOSE k \in 1..n : Rank(k) = i
<1>1. n \in Nat /\ DOMAIN s = 1..n /\ s = [i \in 1..n |-> s[i]]
    OBVIOUS
<1>2. \A k \in 0..n : Cardinality(1..k) = k
    <2> TAKE k \in 0..n
    <2>0. k \in Int /\ 1 \in Int /\ k >= 0
        BY <1>1
    <2>1. Cardinality(1..k) = IF 1 > k THEN 0 ELSE k - 1 + 1
        BY <2>0, FS_Interval
    <2>2. (IF 1 > k THEN 0 ELSE k - 1 + 1) = k
        BY <2>0
    <2> QED
        BY <2>1, <2>2
<1>3. \A k \in 1..n : {j \in 1..n : j <= k} = 1..k
    BY <1>1
<1>4. \A k \in 1..n : Rank(k) = k
    <2> TAKE k \in 1..n
    <2>1. k \in 0..n /\ {j \in 1..n : j <= k} = 1..k
        BY <1>1, <1>3
    <2> QED
        BY <1>2, <2>1
<1>5. Cardinality(1..n) = n
    BY <1>1, <1>2
<1>6. Picked(s, DOMAIN s) = [i \in 1..n |-> s[Position(i)]]
    BY <1>1, <1>5 DEF Picked
<1> HIDE DEF Rank
<1>7. \A i \in 1..n : Position(i) = i
    BY <1>4
<1> HIDE DEF n, Position
<1> QED
    BY <1>1, <1>6, <1>7

\* Nobody's time is up, so no session leaves the store by being purged.
LEMMA NothingPurged == ASSUME NothingEvicted, Store PROVE FreshSessions = live
<1> DEFINE S == 1..created
<1>1. /\ live \in Seq(S) /\ S \subseteq Object
      /\ now \in Nat /\ now < Ttl /\ Ttl \in Nat
    BY StoreAssumption DEF NothingEvicted, Store, Kinds, LiveOK, Object
<1> HIDE DEF S
<1>2. \A i \in DOMAIN live : now - obj[live[i]].access < Ttl
    <2> TAKE i \in DOMAIN live
    <2>1. live[i] \in Object
        BY <1>1
    <2>2. obj[live[i]].access \in Nat
        BY <2>1 DEF Store, Kinds, Session
    <2> QED
        BY <1>1, <2>2
<1>3. {i \in DOMAIN live : now - obj[live[i]].access < Ttl} = DOMAIN live
    BY <1>2
<1> QED
    BY <1>1, <1>3, PickedAll DEF FreshSessions

\* What Mapped says of the dictionary, and of one thread.
LiveMapped ==
    /\ \A i \in DOMAIN live : obj[live[i]].ctx \in Context
    /\ \A i, j \in DOMAIN live : obj[live[i]].ctx = obj[live[j]].ctx => i = j
    /\ \A o \in 1..created : ~obj[o].closed => \E i \in DOMAIN live : live[i] = o
ThreadMapped(t) ==
    /\ pc[t] # "reopen" /\ call[t].op # "reopen"
    /\ Holds(t) => obj[ref[t]].ctx = call[t].ctx
    /\ pc[t] = "closeCommit" => obj[target[t]].closed

\* A session object keeps its context, and a closed one stays closed.
LEMMA ObjectsKeep ==
    ASSUME Store, Next
    PROVE  /\ \A o \in 1..created : obj'[o].ctx = obj[o].ctx /\ (obj[o].closed => obj'[o].closed)
           /\ created \in Nat /\ created' \in {created, created + 1}
<1>1. created \in Nat /\ 1..created \subseteq Object /\ created' \in {created, created + 1}
    BY OnlyOneMoves, OnlyOneStarts, NobodyMoves, StoreAssumption
       DEF Next, Elsewhere, Store, Kinds, Object
<1> QED
    BY <1>1, ObjectsMove DEF Untouched, Accepts, Caches, Closes

\* A dictionary from which only closed sessions are dropped stays mapped.
LEMMA LivePicked ==
    ASSUME Store, Next, LiveMapped, created' = created, NEW K \in SUBSET DOMAIN live,
           live' = Picked(live, K), \A i \in DOMAIN live \ K : obj'[live[i]].closed
    PROVE  LiveMapped'
<1> DEFINE S == 1..created
<1>0. live \in Seq(S)
    BY DEF Store, LiveOK
<1> HIDE DEF S
<1>1. live \in Seq(S) /\ \A i \in DOMAIN live : live[i] \in S
    BY <1>0
<1>2. /\ \A n \in DOMAIN live' : \E k \in K : live'[n] = live[k]
      /\ \A k \in K : \E n \in DOMAIN live' : live'[n] = live[k]
      /\ \A m, n \in DOMAIN live' : m # n => \E j, k \in K : j # k /\ live'[m] = live[j] /\ live'[n] = live[k]
    BY <1>1, PickedEntries
<1>3. \A i \in DOMAIN live : obj'[live[i]].ctx = obj[live[i]].ctx
    BY <1>1, ObjectsKeep DEF S
<1>4. \A n \in DOMAIN live' : obj'[live'[n]].ctx \in Context
    BY <1>2, <1>3 DEF LiveMapped
<1>5. \A m, n \in DOMAIN live' : obj'[live'[m]].ctx = obj'[live'[n]].ctx => m = n
    BY <1>2, <1>3 DEF LiveMapped
<1>6. ASSUME NEW o \in S, ~obj'[o].closed PROVE \E n \in DOMAIN live' : live'[n] = o
    <2>1. ~obj[o].closed
        BY <1>6, ObjectsKeep DEF S
    <2>2. PICK i \in DOMAIN live : live[i] = o
        BY <2>1 DEF LiveMapped, S
    <2>3. i \in K
        BY <1>6, <2>2
    <2> QED
        BY <1>2, <2>2, <2>3
<1> QED
    BY <1>4, <1>5, <1>6 DEF LiveMapped, S

\* So does one that stays as it is.
LEMMA LiveStays ==
    ASSUME Store, Next, LiveMapped, created' = created, live' = live
    PROVE  LiveMapped'
<1>1. live = Picked(live, DOMAIN live)
    BY PickedAll DEF Store, LiveOK
<1> QED
    BY <1>1, LivePicked

\* Appending an object of a context that is not there keeps the contexts apart, and it
\* stays within the limit.
LEMMA ToEndMapped ==
    ASSUME NothingEvicted, NEW n \in Nat, NEW s \in Seq(1..n), NEW c \in Context,
           \A i \in DOMAIN s : obj[s[i]].ctx \in Context \ {c},
           \A i, j \in DOMAIN s : obj[s[i]].ctx = obj[s[j]].ctx => i = j
    PROVE  \A o : Newest(Append(s, o)) = Append(s, o)
<1> DEFINE N == Len(s)
           ctxOf == [i \in 1..N + 1 |-> IF i \in 1..N THEN obj[s[i]].ctx ELSE c]
<1>1. N \in Nat /\ DOMAIN s = 1..N
    OBVIOUS
<1>2. ctxOf \in Injection(1..N + 1, Context)
    <2>1. \A i \in 1..N : ctxOf[i] = obj[s[i]].ctx /\ ctxOf[i] \in Context /\ ctxOf[i] # c
        <3>1. \A i \in 1..N : i \in 1..N + 1 /\ obj[s[i]].ctx \in Context \ {c}
            BY <1>1
        <3>2. \A i \in 1..N : ctxOf[i] = obj[s[i]].ctx
            BY <3>1
        <3> QED
            BY <3>1, <3>2
    <2>2. ctxOf[N + 1] = c /\ \A i \in 1..N + 1 : i \in 1..N \/ i = N + 1
        BY <1>1
    <2>3. ctxOf \in [1..N + 1 -> Context]
        BY <2>1, <2>2
    <2>4. \A i, j \in 1..N + 1 : ctxOf[i] = ctxOf[j] => i = j
        BY <1>1, <2>1, <2>2
    <2> HIDE DEF ctxOf
    <2> QED
        BY <2>3, <2>4 DEF Injection, IsInjective
<1>3. IsFiniteSet(1..N + 1) /\ Cardinality(1..N + 1) = N + 1
    <2> DEFINE k == N + 1
    <2>1. k \in Int /\ k >= 1 /\ 1 \in Int
        BY <1>1
    <2> HIDE DEF k
    <2>2. IsFiniteSet(1..k) /\ Cardinality(1..k) = IF 1 > k THEN 0 ELSE k - 1 + 1
        BY <2>1, FS_Interval
    <2>3. (IF 1 > k THEN 0 ELSE k - 1 + 1) = k
        BY <2>1
    <2> QED
        BY <2>2, <2>3 DEF k
<1> HIDE DEF ctxOf
<1>4. N + 1 <= Cardinality(Context)
    BY <1>2, <1>3, FS_Injection DEF NothingEvicted
<1>5. N + 1 <= MaxSessions
    BY <1>1, <1>4, FS_CardinalityType, StoreAssumption DEF NothingEvicted
<1> SUFFICES ASSUME NEW o PROVE Newest(Append(s, o)) = Append(s, o)
    OBVIOUS
<1>6. Len(Append(s, o)) = N + 1 /\ MaxSessions \in Nat
    BY StoreAssumption
<1> QED
    BY <1>1, <1>5, <1>6 DEF Newest

\* Dropping a context leaves exactly the sessions of the others, none of them twice.
LEMMA WithoutEntries ==
    ASSUME NEW S, NEW s \in Seq(S), NEW c
    PROVE  /\ Without(s, c) \in Seq(S)
           /\ \A n \in DOMAIN Without(s, c) : \E k \in DOMAIN s :
                 obj[s[k]].ctx # c /\ Without(s, c)[n] = s[k]
           /\ \A k \in DOMAIN s : obj[s[k]].ctx # c =>
                 \E n \in DOMAIN Without(s, c) : Without(s, c)[n] = s[k]
           /\ \A m, n \in DOMAIN Without(s, c) : m # n =>
                 \E j, k \in DOMAIN s : j # k /\ Without(s, c)[m] = s[j] /\ Without(s, c)[n] = s[k]
<1> DEFINE K == {i \in DOMAIN s : obj[s[i]].ctx # c}
<1>0. K \in SUBSET DOMAIN s
    OBVIOUS
<1>1. /\ \A k \in K : k \in DOMAIN s /\ obj[s[k]].ctx # c
      /\ \A k \in DOMAIN s : obj[s[k]].ctx # c => k \in K
    OBVIOUS
<1>2. Without(s, c) = Picked(s, K)
    BY DEF Without
<1> HIDE DEF K
<1>3. /\ Picked(s, K) \in Seq(S)
      /\ \A n \in DOMAIN Picked(s, K) : \E k \in K : Picked(s, K)[n] = s[k]
      /\ \A k \in K : \E n \in DOMAIN Picked(s, K) : Picked(s, K)[n] = s[k]
      /\ \A m, n \in DOMAIN Picked(s, K) : m # n =>
            \E j, k \in K : j # k /\ Picked(s, K)[m] = s[j] /\ Picked(s, K)[n] = s[k]
    BY <1>0, PickedEntries
<1> DEFINE w == Without(s, c)
<1>4. w \in Seq(S)
    BY <1>2, <1>3
<1>5. \A n \in DOMAIN w : \E k \in DOMAIN s : obj[s[k]].ctx # c /\ w[n] = s[k]
    BY <1>1, <1>2, <1>3
<1>6. \A k \in DOMAIN s : obj[s[k]].ctx # c => \E n \in DOMAIN w : w[n] = s[k]
    BY <1>1, <1>2, <1>3
<1>7. \A m, n \in DOMAIN w : m # n => \E j, k \in DOMAIN s : j # k /\ w[m] = s[j] /\ w[n] = s[k]
    BY <1>1, <1>2, <1>3
<1> QED
    BY <1>4, <1>5, <1>6, <1>7

\* What the store maps to a session object of its context stays mapped, when a session
\* that is used again moves to the end and when a new one enters.
LEMMA LiveEntered ==
    ASSUME NothingEvicted, Store, Next, LiveMapped, NEW c \in Context, NEW o \in 1..created',
           live' = Newest(Append(Without(live, c), o)), obj'[o].ctx = c,
           \A i \in DOMAIN live : obj[live[i]].ctx = c => live[i] = o,
           \A p \in 1..created' : p \in 1..created \/ p = o
    PROVE  LiveMapped'
<1> DEFINE S == 1..created
           s == Without(live, c)
           r == Append(s, o)
<1>0. live \in Seq(S)
    BY DEF Store, LiveOK
<1> HIDE DEF S
<1>1. \A i \in DOMAIN live : live[i] \in S
    BY <1>0
<1>2. /\ s \in Seq(S)
      /\ \A n \in DOMAIN s : \E k \in DOMAIN live : obj[live[k]].ctx # c /\ s[n] = live[k]
      /\ \A k \in DOMAIN live : obj[live[k]].ctx # c => \E n \in DOMAIN s : s[n] = live[k]
      /\ \A m, n \in DOMAIN s : m # n =>
            \E j, k \in DOMAIN live : j # k /\ s[m] = live[j] /\ s[n] = live[k]
    BY <1>0, WithoutEntries
<1> HIDE DEF s
<1>3. /\ \A i \in DOMAIN s : obj[s[i]].ctx \in Context \ {c}
      /\ \A i, j \in DOMAIN s : obj[s[i]].ctx = obj[s[j]].ctx => i = j
    <2>1. \A k \in DOMAIN live : obj[live[k]].ctx \in Context
        BY DEF LiveMapped
    <2>2. \A j, k \in DOMAIN live : j # k => obj[live[j]].ctx # obj[live[k]].ctx
        BY DEF LiveMapped
    <2>3. \A i \in DOMAIN s : obj[s[i]].ctx \in Context \ {c}
        BY <1>2, <2>1
    <2>4. \A i, j \in DOMAIN s : obj[s[i]].ctx = obj[s[j]].ctx => i = j
        BY <1>2, <2>2
    <2> QED
        BY <2>3, <2>4
<1>4. live' = r
    <2>1. created \in Nat /\ s \in Seq(1..created)
        BY <1>2, ObjectsKeep DEF S
    <2>2. \A p : Newest(Append(s, p)) = Append(s, p)
        BY <1>3, <2>1, ToEndMapped
    <2>3. live' = Newest(Append(s, o))
        BY DEF s
    <2> QED
        BY <2>2, <2>3
<1>5. \A i \in DOMAIN s : obj'[s[i]].ctx = obj[s[i]].ctx
    BY <1>1, <1>2, ObjectsKeep DEF S
<1>6. /\ Len(s) \in Nat /\ DOMAIN s = 1..Len(s) /\ DOMAIN r = 1..Len(s) + 1
      /\ \A i \in DOMAIN s : r[i] = s[i]
      /\ r[Len(s) + 1] = o
    BY <1>2
<1> HIDE DEF r
<1>7. \A i \in DOMAIN r : i \in DOMAIN s \/ i = Len(s) + 1
    BY <1>6
<1>8. \A i \in DOMAIN r : obj'[r[i]].ctx \in Context
    BY <1>3, <1>5, <1>6, <1>7
<1>9. \A i, j \in DOMAIN r : obj'[r[i]].ctx = obj'[r[j]].ctx => i = j
    BY <1>3, <1>5, <1>6, <1>7
<1>10. ASSUME NEW p \in 1..created', ~obj'[p].closed PROVE \E i \in DOMAIN r : r[i] = p
    <2>1. CASE p = o
        <3>1. Len(s) + 1 \in DOMAIN r
            BY <1>6
        <3> QED
            BY <1>6, <2>1, <3>1
    <2>2. CASE p # o
        <3>1. p \in S
            BY <1>10, <2>2 DEF S
        <3>2. ~obj[p].closed
            BY <1>10, <3>1, ObjectsKeep DEF S
        <3>3. PICK i \in DOMAIN live : live[i] = p
            BY <3>1, <3>2 DEF LiveMapped, S
        <3>4. obj[live[i]].ctx # c
            BY <2>2, <3>3
        <3>5. PICK n \in DOMAIN s : s[n] = p
            BY <1>2, <3>3, <3>4
        <3>6. n \in DOMAIN r
            BY <1>6
        <3> QED
            BY <1>6, <3>5, <3>6
    <2> QED
        BY <2>1, <2>2
<1> QED
    BY <1>4, <1>8, <1>9, <1>10 DEF LiveMapped

\* While nothing is evicted every step keeps the store mapped.
LEMMA LiveMappedKept ==
    ASSUME NothingEvicted, Store, Mapped, Next
    PROVE  LiveMapped'
<1> DEFINE S == 1..created
<1>1. /\ FreshSessions = live /\ live \in Seq(S) /\ None \notin S /\ ~AdminOps
      /\ S \subseteq Object /\ created \in Nat
    BY NothingPurged, StoreAssumption DEF Store, LiveOK, NothingEvicted, Kinds, Object
<1>2. LiveMapped
    BY DEF Mapped, LiveMapped
<1>3. ASSUME created' = created, live' = live PROVE LiveMapped'
    BY <1>2, <1>3, LiveStays
<1>4. ASSUME NEW t \in Thread, GetOrCreate(t) PROVE LiveMapped'
    <2> DEFINE c == call[t].ctx
               s == SessionOf(live, c)
               K == {i \in DOMAIN live : obj[live[i]].ctx # c}
    <2>1. c \in Context /\ K \in SUBSET DOMAIN live /\ Without(live, c) = Picked(live, K)
        BY <1>4 DEF GetOrCreate, Store, CallOK, CallOf, Without
    <2> HIDE DEF S
    <2>2. /\ s # None => s \in S /\ obj[s].ctx = c /\ \E i \in DOMAIN live : live[i] = s
          /\ s = None => \A i \in DOMAIN live : obj[live[i]].ctx # c
        BY <1>1, SessionFound
    <2>3. s # None => \A i \in DOMAIN live : obj[live[i]].ctx = c => live[i] = s
        BY <1>2, <2>2 DEF LiveMapped
    <2> HIDE DEF s, K, c
    <2>4. CASE live' = FreshSessions /\ created' = created
        BY <1>1, <1>3, <2>4
    <2>5. CASE s # None /\ ~Usable(s) /\ live' = Without(live, c) /\ created' = created
        <3>1. \A i \in DOMAIN live \ K : obj'[live[i]].closed
            <4>1. \A i \in DOMAIN live \ K : live[i] = s
                BY <2>3, <2>5 DEF K
            <4>2. obj'[s].closed
                BY <2>2, <2>5, ObjectsKeep DEF Usable, S
            <4> QED
                BY <4>1, <4>2
        <3> QED
            BY <1>2, <2>1, <2>5, <3>1, LivePicked
    <2>6. CASE s # None /\ live' = Newest(Append(Without(live, c), s)) /\ created' = created
        <3>1. s \in 1..created' /\ obj'[s].ctx = c
            BY <2>2, <2>6, ObjectsKeep DEF S
        <3> QED
            BY <1>2, <2>1, <2>3, <2>6, <3>1, LiveEntered
    <2>7. CASE /\ s = None /\ created' = created + 1 /\ created + 1 \in Object
               /\ obj' = [obj EXCEPT ![created + 1] = NewSession(c)]
               /\ live' = Newest(Append(live, created + 1))
        <3>1. live = Without(live, c)
            <4>1. K = DOMAIN live
                BY <2>2, <2>7 DEF K
            <4> QED
                BY <1>1, <2>1, <4>1, PickedAll
        <3>2. obj'[created + 1].ctx = c /\ created + 1 \in 1..created'
            BY <1>1, <2>7 DEF Store, Kinds, NewSession
        <3>3. \A p \in 1..created' : p \in 1..created \/ p = created + 1
            BY <1>1, <2>7
        <3>4. \A i \in DOMAIN live : obj[live[i]].ctx = c => live[i] = created + 1
            BY <2>2, <2>7
        <3>5. live' = Newest(Append(Without(live, c), created + 1))
            BY <2>7, <3>1
        <3> HIDE DEF NothingEvicted
        <3> QED
            BY <1>2, <2>1, <3>2, <3>3, <3>4, <3>5, LiveEntered
    <2> QED
        BY <1>1, <1>4, <2>4, <2>5, <2>6, <2>7
           DEF GetOrCreate, Refused, RefusedClosing, Obtain, s, c
<1>5. ASSUME NEW t \in Thread, CloseCommit(t) PROVE LiveMapped'
    <2> DEFINE K == {i \in DOMAIN live : live[i] # target[t]}
    <2>1. /\ created' = created /\ live' = Picked(live, K) /\ K \in SUBSET DOMAIN live
          /\ obj' = obj
        BY <1>5 DEF CloseCommit
    <2>2. obj[target[t]].closed
        BY <1>5 DEF Mapped, CloseCommit
    <2>3. \A i \in DOMAIN live \ K : obj'[live[i]].closed
        BY <2>1, <2>2
    <2> HIDE DEF K
    <2> QED
        BY <1>2, <2>1, <2>3, LivePicked
<1>6. ASSUME NEW t \in Thread, Step(t), ~GetOrCreate(t), ~CloseCommit(t) PROVE LiveMapped'
    <2>1. ~Reopen(t)
        BY DEF Reopen, Mapped
    <2>2. created' = created /\ live' = live
        BY <1>1, <1>6, <2>1
           DEF Step, ReplayLookup, ReplayRead, Enter, Work, Fail, CloseRead, CloseMark, CloseBlind
    <2> QED
        BY <1>3, <2>2
<1>7. ASSUME ~ \E t \in Thread : Step(t) PROVE LiveMapped'
    <2>1. created' = created /\ live' = live
        BY <1>1, <1>7 DEF Next, Start, GetSession, RemoveContext, Tick
    <2> QED
        BY <1>3, <2>1
<1> QED
    BY <1>4, <1>5, <1>6, <1>7

\* And every thread works with the session object of its context.
LEMMA ThreadsMappedKept ==
    ASSUME NothingEvicted, Store, Mapped, Next
    PROVE  \A u \in Thread : ThreadMapped(u)'
<1>0. /\ Kinds /\ FreshSessions = live /\ ~AdminOps /\ created \in Nat
      /\ 1..created \subseteq Object
    BY NothingPurged, StoreAssumption DEF Store, NothingEvicted, Kinds, Object
<1>1. \A u \in Thread : ThreadMapped(u) /\ CallOf(u)
    BY DEF Mapped, ThreadMapped, Store, CallOK
<1>2. \A o \in 1..created : obj'[o].ctx = obj[o].ctx /\ (obj[o].closed => obj'[o].closed)
    BY ObjectsKeep
<1>3. ASSUME NEW u \in Thread, Alike(u) PROVE ThreadMapped(u)'
    BY <1>1, <1>2, <1>3, AlikeIsAlike DEF Alike, ThreadMapped, CallOf
<1>4. ASSUME NEW t \in Thread, NEW c \in Context, NEW op \in {"handle", "cancel", "reopen"},
             NEW m \in Message \cup {None}, Start(t, op, c, m)
      PROVE  \A u \in Thread : ThreadMapped(u)'
    <2>1. \A u \in Thread \ {t} : ThreadMapped(u)'
        BY <1>3, <1>4, OnlyOneStarts
    <2>2. op # "reopen" /\ call'[t].op = op /\ pc'[t] \in {"lookup", "closeRead"}
          /\ (pc'[t] = "closeRead" => op = "cancel")
        BY <1>0, <1>4 DEF Start, Goto, Kinds
    <2>3. ThreadMapped(t)'
        BY <2>2 DEF ThreadMapped, Holds, Handles, Inside
    <2> QED
        BY <2>1, <2>3
<1>5. ASSUME NEW t \in Thread, Step(t) PROVE \A u \in Thread : ThreadMapped(u)'
    <2>1. \A u \in Thread \ {t} : ThreadMapped(u)'
        BY <1>3, <1>5, OnlyOneMoves
    <2> SUFFICES ThreadMapped(t)'
        BY <2>1
    <2>2. /\ call'[t].op = call[t].op /\ call'[t].ctx = call[t].ctx /\ call[t].op # "reopen"
          /\ Handles(t)' = Handles(t)
        <3>1. CASE CloseRead(t)
            BY <1>0, <1>1, <3>1 DEF CloseRead, Kinds, Call, Handles, ThreadMapped
        <3>2. CASE ~CloseRead(t)
            <4>1. call' = call
                BY <1>5, <3>2 DEF Step, ReplayLookup, ReplayRead, GetOrCreate, Enter, Work, Fail,
                                  CloseMark, CloseCommit, CloseBlind, Reopen
            <4> QED
                BY <1>1, <4>1 DEF Handles, ThreadMapped
        <3> QED
            BY <3>1, <3>2
    <2>3. ASSUME pc'[t] \in {"idle", "create"} PROVE ThreadMapped(t)'
        BY <2>2, <2>3 DEF ThreadMapped, Holds, Inside
    <2>4. ASSUME pc'[t] # "closeCommit", pc'[t] # "reopen", Holds(t)' => Holds(t), ref' = ref
          PROVE  ThreadMapped(t)'
        BY <1>1, <1>2, <2>2, <2>4 DEF ThreadMapped, CallOf
    <2> DEFINE c == call[t].ctx
               s == SessionOf(live, c)
               S == 1..created
    <2>5. s # None => s \in S /\ obj[s].ctx = c
        <3>1. live \in Seq(S) /\ None \notin S
            BY <1>0, StoreAssumption DEF Store, LiveOK
        <3> HIDE DEF S
        <3> QED
            BY <3>1, SessionFound
    <2> HIDE DEF s
    <2>6. CASE ReplayLookup(t)
        <3>1. CASE s # None /\ Goto(t, "replay")
            <4>1. pc'[t] = "replay" /\ ref'[t] = s
                BY <1>0, <2>6, <3>1 DEF ReplayLookup, Goto, Kinds, s
            <4>2. obj'[s].ctx = c
                BY <1>2, <2>5, <3>1
            <4> QED
                BY <2>2, <4>1, <4>2 DEF ThreadMapped
        <3>2. CASE Goto(t, "create") \/ \E r : Return(t, r)
            BY <1>0, <2>3, <3>2 DEF Goto, Return, Kinds
        <3> QED
            BY <1>0, <2>6, <3>1, <3>2 DEF ReplayLookup, s
    <2>7. CASE ReplayRead(t) \/ Fail(t) \/ CloseCommit(t) \/ CloseBlind(t)
        BY <1>0, <2>3, <2>7
           DEF ReplayRead, Fail, CloseCommit, CloseBlind, CloseReturns, Goto, Return, Kinds
    <2>8. CASE GetOrCreate(t)
        <3>1. ASSUME pc'[t] = "enter", obj'[ref'[t]].ctx = c PROVE ThreadMapped(t)'
            BY <2>2, <3>1 DEF ThreadMapped
        <3>2. CASE \E r : Return(t, r)
            BY <1>0, <2>3, <3>2 DEF Return, Kinds
        <3>3. CASE s # None /\ Goto(t, "enter") /\ ref' = [ref EXCEPT ![t] = s]
            BY <1>0, <1>2, <2>5, <3>1, <3>3 DEF Goto, Kinds
        <3>4. CASE /\ Goto(t, "enter") /\ ref' = [ref EXCEPT ![t] = created + 1]
                   /\ created + 1 \in Object /\ obj' = [obj EXCEPT ![created + 1] = NewSession(c)]
            BY <1>0, <3>1, <3>4 DEF Goto, Kinds, NewSession
        <3> QED
            BY <1>0, <2>8, <3>2, <3>3, <3>4
               DEF GetOrCreate, Refused, RefusedClosing, Obtain, s
    <2>9. CASE Enter(t)
        <3>1. Holds(t) /\ ref' = ref
            BY <2>9, Held DEF Enter
        <3>2. pc'[t] \in {"idle", "work"}
            BY <1>0, <2>9 DEF Enter, Goto, Return, Kinds
        <3> QED
            BY <2>4, <3>1, <3>2
    <2>10. CASE Work(t)
        <3>1. Holds(t) /\ ref' = ref
            BY <2>10, Held DEF Work
        <3>2. pc'[t] \in {"idle", "closeRead"}
            BY <1>0, <2>10 DEF Work, Goto, Return, Kinds
        <3> QED
            BY <2>4, <3>1, <3>2
    <2>11. CASE CloseRead(t)
        <3>1. ref' = ref /\ (Handles(t) => Holds(t))
            BY <2>11 DEF CloseRead, Holds, Inside
        <3>2. pc'[t] \in {"idle", "closeBlind", "closeMark"}
            BY <1>0, <2>11 DEF CloseRead, CloseReturns, Goto, Return, Kinds
        <3> QED
            BY <2>2, <2>4, <3>1, <3>2 DEF Holds
    <2>12. CASE CloseMark(t)
        <3>1. ref' = ref /\ (Handles(t) => Holds(t)) /\ target' = target /\ target[t] \in Object
            BY <2>12, Held DEF CloseMark, Holds, Inside
        <3>2. CASE CloseReturns(t) \/ CloseRaises(t)
            BY <1>0, <2>3, <3>2 DEF CloseReturns, CloseRaises, Return, Kinds
        <3>3. CASE Goto(t, "closeCommit") /\ obj' = [obj EXCEPT ![target[t]].closed = TRUE]
            <4>1. pc'[t] = "closeCommit" /\ obj'[target'[t]].closed
                BY <1>0, <3>1, <3>3 DEF Goto, Kinds, Session
            <4>2. Handles(t) => ref[t] \in 1..created /\ obj'[ref[t]].ctx = c
                BY <1>1, <1>2, <3>1 DEF CallOf, ThreadMapped
            <4> QED
                BY <2>2, <3>1, <4>1, <4>2 DEF ThreadMapped, Holds
        <3> QED
            BY <2>12, <3>2, <3>3 DEF CloseMark
    <2>13. ~Reopen(t)
        BY DEF Reopen, Mapped
    <2> QED
        BY <1>5, <2>6, <2>7, <2>8, <2>9, <2>10, <2>11, <2>12, <2>13 DEF Step
<1>6. CASE Elsewhere
    BY <1>3, <1>6, NobodyMoves
<1> QED
    BY <1>4, <1>5, <1>6 DEF Next, Elsewhere

\* While nothing is evicted, the store is mapped in every reachable state.
THEOREM MappedAlways == ASSUME NothingEvicted PROVE Spec => []Mapped
<1>1. Init => Mapped
    BY DEF Init, Mapped, Holds, Inside
<1>2. Store /\ Mapped /\ [Next]_vars => Mapped'
    <2> SUFFICES ASSUME Store, Mapped, [Next]_vars PROVE Mapped'
        OBVIOUS
    <2>1. CASE Next
        BY <2>1, LiveMappedKept, ThreadsMappedKept DEF Mapped, LiveMapped, ThreadMapped
    <2>2. CASE UNCHANGED vars
        BY <2>2 DEF vars, Mapped, Holds, Handles
    <2> QED
        BY <2>1, <2>2
<1> QED
    BY <1>1, <1>2, StoreAlways, PTL DEF Spec

\* While nothing is evicted no conversation is split in two: a context has at most one open
\* session object, however the lookups, creations and closes of the threads interleave.
THEOREM OneOpenAlways == ASSUME NothingEvicted PROVE Spec => []OneOpenSession
<1>1. Mapped => OneOpenSession
    BY DEF Mapped, OneOpenSession
<1> QED
    BY <1>1, MappedAlways, PTL

\* While nothing is evicted, at most one thread runs the orchestrator for a context.
THEOREM OneWorkerAlways == ASSUME NothingEvicted PROVE Spec => []OneWorkerPerContext
<1>1. Store /\ Mapped => OneWorkerPerContext
    <2> SUFFICES ASSUME Store, Mapped, NEW c \in Context
                 PROVE  Cardinality(Workers(c)) <= 1
        BY DEF OneWorkerPerContext
    <2>1. ASSUME NEW t \in Workers(c), NEW u \in Workers(c) PROVE t = u
        <3>1. /\ t \in Thread /\ pc[t] = "work" /\ call[t].ctx = c
              /\ u \in Thread /\ pc[u] = "work" /\ call[u].ctx = c
            BY <2>1 DEF Workers
        <3>2. Holds(t) /\ Holds(u)
            BY <3>1, Held
        <3>3. /\ ref[t] \in 1..created /\ ref[u] \in 1..created
              /\ ref[t] \in Object /\ ref[u] \in Object
              /\ owner[ref[t]] = t /\ owner[ref[u]] = u
            BY <3>1, <3>2, Held DEF Store, CallOK, CallOf, LockOK, LockOf, Holds, Inside
        <3>4. ~obj[ref[t]].closed /\ ~obj[ref[u]].closed
            BY <3>1 DEF Store, AnswersOK
        <3>5. obj[ref[t]].ctx = c /\ obj[ref[u]].ctx = c
            BY <3>1, <3>2 DEF Mapped
        <3>6. ref[t] = ref[u]
            BY <3>3, <3>4, <3>5 DEF Mapped
        <3> QED
            BY <3>3, <3>6
    <2>2. CASE Workers(c) = {}
        BY <2>2, FS_EmptySet
    <2>3. CASE Workers(c) # {}
        <3>1. PICK t \in Workers(c) : TRUE
            BY <2>3
        <3>2. Workers(c) = {t}
            BY <2>1, <3>1
        <3>3. Cardinality({t}) = 1
            BY FS_Singleton
        <3> QED
            BY <3>2, <3>3
    <2> QED
        BY <2>2, <2>3
<1> QED
    BY <1>1, StoreAlways, MappedAlways, PTL
=============================================================================
