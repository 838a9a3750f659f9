--------------------------- MODULE ScheduleProofs ---------------------------
(***************************************************************************)
(* For any requests, hash, cooldown, flutter and order range: order keys   *)
(* stay in range, posts are paced, a put keeps the times announced, a bump *)
(* or a bust moves one entry, and announced times only slip.               *)
(***************************************************************************)
EXTENDS Schedule, FiniteSetTheorems, WellFoundedInduction, TLAPS
-----------------------------------------------------------------------------
(* The posting order.                                                      *)

\* What the comparison reads of an entry.
Keys(E) ==
  \A id \in Pending(E) : id \in Nat /\ E[id].order \in Int /\ E[id].enqueuedAt \in Int

Ahead(E, id) == {x \in Pending(E) : Before(E, x, id)}

LEMMA BeforeIsTotal ==
  ASSUME NEW E, Keys(E), NEW a \in Pending(E), NEW b \in Pending(E)
  PROVE  /\ ~Before(E, a, a)
         /\ a # b => Before(E, a, b) \/ Before(E, b, a)
  BY DEF Keys, Before

LEMMA BeforeIsTransitive ==
  ASSUME NEW E, Keys(E), NEW a \in Pending(E), NEW b \in Pending(E), NEW c \in Pending(E),
         Before(E, a, b), Before(E, b, c)
  PROVE  Before(E, a, c)
  BY DEF Keys, Before

\* Ranks grow along the order and stay below the number of entries.
LEMMA RanksGrow ==
  ASSUME NEW E, Keys(E), IsFiniteSet(Pending(E)), NEW a \in Pending(E), NEW b \in Pending(E)
  PROVE  /\ Rank(E, a) \in 0..(Cardinality(Pending(E)) - 1)
         /\ Before(E, a, b) => Rank(E, a) < Rank(E, b)
<1>1. ASSUME NEW id \in Pending(E)
      PROVE  /\ IsFiniteSet(Ahead(E, id)) /\ id \notin Ahead(E, id)
             /\ Cardinality(Ahead(E, id)) \in Nat
             /\ Rank(E, id) = Cardinality(Ahead(E, id))
  <2>1. Ahead(E, id) \in SUBSET Pending(E) /\ id \notin Ahead(E, id)
    BY BeforeIsTotal DEF Ahead
  <2>2. Rank(E, id) = Cardinality(Ahead(E, id))
    BY DEF Rank, Ahead
  <2> QED
    BY <2>1, <2>2, FS_Subset, FS_CardinalityType
<1>2. Rank(E, a) \in 0..(Cardinality(Pending(E)) - 1)
  <2>1. Ahead(E, a) \in SUBSET Pending(E) /\ Ahead(E, a) # Pending(E)
    BY <1>1 DEF Ahead
  <2>2. Cardinality(Pending(E)) \in Nat
    BY FS_CardinalityType
  <2>3. Cardinality(Ahead(E, a)) < Cardinality(Pending(E))
    BY <1>1, <2>1, <2>2, FS_Subset
  <2> QED
    BY <1>1, <2>2, <2>3
<1>3. ASSUME Before(E, a, b)
      PROVE  Rank(E, a) < Rank(E, b)
  <2>1. Ahead(E, a) \in SUBSET Ahead(E, b)
    BY <1>3, BeforeIsTransitive DEF Ahead
  <2>2. a \in Ahead(E, b)
    BY <1>3 DEF Ahead
  <2>3. Cardinality(Ahead(E, a)) < Cardinality(Ahead(E, b))
    BY <1>1, <2>1, <2>2, FS_Subset
  <2> QED
    BY <1>1, <2>3
<1> QED
  BY <1>2, <1>3

\* Every position of the posting order has its entry.
LEMMA RanksAreTaken ==
  ASSUME NEW E, Keys(E), IsFiniteSet(Pending(E)), NEW k \in 1..Cardinality(Pending(E))
  PROVE  \E id \in Pending(E) : Rank(E, id) = k - 1
<1> DEFINE n == Cardinality(Pending(E))
           f == [id \in Pending(E) |-> Rank(E, id) + 1]
<1>1. n \in Nat
  BY FS_CardinalityType
<1>2. \A id \in Pending(E) : Rank(E, id) \in 0..(n - 1)
  BY RanksGrow
<1>3. f \in [Pending(E) -> 1..n]
  BY <1>1, <1>2
<1>4. ASSUME NEW a \in Pending(E), NEW b \in Pending(E), f[a] = f[b]
      PROVE  a = b
  <2>1. Rank(E, a) = Rank(E, b) /\ Rank(E, a) \in Int
    BY <1>1, <1>2, <1>4
  <2> QED
    BY <2>1, BeforeIsTotal, RanksGrow
<1>5. f \in Injection(Pending(E), 1..n)
  BY <1>3, <1>4 DEF Injection, IsInjective
<1>6. IsFiniteSet(1..n) /\ Cardinality(1..n) = n
  BY <1>1, FS_Interval
<1>7. f \in Surjection(Pending(E), 1..n)
  BY <1>5, <1>6, FS_Injection
<1>8. PICK id \in Pending(E) : f[id] = k
  BY Zenon, <1>7 DEF Surjection
<1> QED
  BY <1>1, <1>2, <1>8

\* PostingOrder lists every entry once, each before those that sort after it.
LEMMA OrderIsSorted ==
  ASSUME NEW E, Keys(E), IsFiniteSet(Pending(E)), NEW q, q = PostingOrder(E)
  PROVE  /\ Cardinality(Pending(E)) \in Nat
         /\ q \in Seq(Pending(E)) /\ Len(q) = Cardinality(Pending(E))
         /\ \A k \in 1..Len(q) : q[k] \in Pending(E) /\ Rank(E, q[k]) = k - 1
         /\ \A id \in Pending(E) : \E k \in 1..Len(q) : q[k] = id
         /\ \A j, k \in 1..Len(q) : j < k => Before(E, q[j], q[k])
<1> DEFINE n == Cardinality(Pending(E))
<1>1. n \in Nat
  BY FS_CardinalityType
<1>2. ASSUME NEW k \in 1..n
      PROVE  /\ q[k] = CHOOSE id \in Pending(E) : Rank(E, id) = k - 1
             /\ q[k] \in Pending(E) /\ Rank(E, q[k]) = k - 1
  <2>1. q[k] = CHOOSE id \in Pending(E) : Rank(E, id) = k - 1
    BY DEF PostingOrder
  <2> QED
    BY <2>1, RanksAreTaken
<1>3. q = [k \in 1..n |-> q[k]]
  BY DEF PostingOrder
<1>4. q \in Seq(Pending(E)) /\ Len(q) = n
  BY <1>1, <1>2, <1>3
<1>5. ASSUME NEW j \in 1..n, NEW k \in 1..n, j < k
      PROVE  Before(E, q[j], q[k])
  <2>1. q[j] \in Pending(E) /\ q[k] \in Pending(E) /\ ~(Rank(E, q[k]) < Rank(E, q[j]))
    BY <1>1, <1>2, <1>5
  <2>2. q[j] # q[k]
    BY <1>1, <1>2, <1>5
  <2> QED
    BY <2>1, <2>2, BeforeIsTotal, RanksGrow
<1>6. ASSUME NEW id \in Pending(E)
      PROVE  \E k \in 1..n : q[k] = id
  <2>1. Rank(E, id) \in 0..(n - 1)
    BY RanksGrow
  <2> DEFINE k == Rank(E, id) + 1
  <2>2. k \in 1..n /\ k - 1 = Rank(E, id)
    BY <1>1, <2>1
  <2>3. q[k] \in Pending(E) /\ Rank(E, q[k]) = Rank(E, id) /\ Rank(E, id) \in Int
    BY <1>1, <1>2, <2>1, <2>2
  <2>4. q[k] = id
    BY <2>3, BeforeIsTotal, RanksGrow
  <2> QED
    BY <2>2, <2>4
<1> QED
  BY <1>1, <1>2, <1>4, <1>5, <1>6
-----------------------------------------------------------------------------
(* The projection.                                                         *)

LEMMA Least ==
  ASSUME NEW T, T \subseteq Nat, T # {}
  PROVE  \E m \in T : \A k \in T : m <= k
<1> DEFINE N == Nat
           R == OpToRel(<, N)
<1>1. IsWellFoundedOn(R, N)
  BY Zenon, NatLessThanWellFounded
<1>2. R = {p \in Nat \X Nat : p[1] < p[2]}
  BY Zenon DEF OpToRel
<1>3. T \subseteq N
  OBVIOUS
<1> HIDE DEF N, R
<1>4. PICK m \in T : \A k \in T : ~(<<k, m>> \in R)
  BY Zenon, <1>1, <1>3, WFMin
<1>5. ASSUME NEW k \in T
      PROVE  m <= k
  <2>1. ~(<<k, m>> \in {p \in Nat \X Nat : p[1] < p[2]})
    BY Zenon, <1>2, <1>4
  <2>2. k \in Nat /\ m \in Nat
    OBVIOUS
  <2>3. <<k, m>> \in Nat \X Nat /\ <<k, m>>[1] = k /\ <<k, m>>[2] = m
    BY <2>2
  <2>4. ~(k < m)
    BY <2>1, <2>3, Zenon
  <2> QED
    BY <2>2, <2>4
<1> QED
  BY <1>5

\* The second of the k-th entry when f has those of the entries before it.
Posts(E, q, previous, t, f, k) == PostAt(E[q[k]], IF k = 1 THEN previous ELSE f[k-1], t)

\* f has the seconds of the first n entries.
Projects(E, q, previous, t, n, f) == f = [k \in 1..n |-> Posts(E, q, previous, t, f, k)]

\* Up to any position there is a function that projected_schedule computes.
LEMMA ProjectionExists ==
  ASSUME NEW E, NEW q, NEW previous, NEW t, NEW n \in Nat
  PROVE  \E f : Projects(E, q, previous, t, n, f)
<1> DEFINE Good(m) == \E f : Projects(E, q, previous, t, m, f)
           Bad == {m \in Nat : ~Good(m)}
<1>1. Good(0)
  <2> DEFINE f == [k \in 1..0 |-> 0]
  <2>1. f = [k \in 1..0 |-> Posts(E, q, previous, t, f, k)]
    OBVIOUS
  <2> QED
    BY <2>1, Zenon DEF Projects
<1>2. ASSUME NEW m \in Nat, Good(m)
      PROVE  Good(m + 1)
  <2>1. PICK f : f = [k \in 1..m |-> Posts(E, q, previous, t, f, k)]
    BY <1>2, Zenon DEF Projects
  <2> DEFINE g == [k \in 1..(m + 1) |-> IF k = m + 1 THEN Posts(E, q, previous, t, f, k)
                                       ELSE f[k]]
  <2>2. ASSUME NEW k \in 1..(m + 1)
        PROVE  g[k] = Posts(E, q, previous, t, g, k)
    <3>1. k # 1 => k - 1 \in 1..m /\ g[k-1] = f[k-1]
      OBVIOUS
    <3>2. Posts(E, q, previous, t, g, k) = Posts(E, q, previous, t, f, k)
      BY <3>1, Zenon DEF Posts
    <3>3. CASE k = m + 1
      BY <3>2, <3>3
    <3>4. CASE k # m + 1
      <4>1. k \in 1..m /\ g[k] = f[k]
        BY <3>4
      <4>2. f[k] = Posts(E, q, previous, t, f, k)
        BY <2>1, <4>1, Zenon
      <4> QED
        BY <3>2, <4>1, <4>2
    <3> QED
      BY <3>3, <3>4
  <2>3. g = [k \in 1..(m + 1) |-> g[k]]
    OBVIOUS
  <2>4. g = [k \in 1..(m + 1) |-> Posts(E, q, previous, t, g, k)]
    BY <2>2, <2>3, Zenon
  <2> QED
    BY <2>4, Zenon DEF Projects
<1> HIDE DEF Good
<1>3. ASSUME Bad # {}
      PROVE  FALSE
  <2>1. PICK m \in Bad : \A k \in Bad : m <= k
    BY Zenon, <1>3, Least
  <2>2. m # 0 /\ m - 1 \in Nat /\ m - 1 \notin Bad
    BY <1>1, <2>1
  <2>3. Good(m - 1 + 1)
    BY <1>2, <2>2
  <2> QED
    BY <2>1, <2>3
<1>4. Good(n)
  BY <1>3
<1> QED
  BY <1>4 DEF Good

\* Projection is the recursion it is written as.
LEMMA ProjectionUnfolds ==
  ASSUME NEW E, NEW q, NEW previous, NEW t, Len(q) \in Nat, NEW k \in 1..Len(q)
  PROVE  LET at == Projection(E, q, previous, t)
         IN at[k] = PostAt(E[q[k]], IF k = 1 THEN previous ELSE at[k-1], t)
<1> DEFINE at == Projection(E, q, previous, t)
<1>1. at = CHOOSE f : f = [j \in 1..Len(q) |->
                             PostAt(E[q[j]], IF j = 1 THEN previous ELSE f[j-1], t)]
  BY DEF Projection
<1>2. \E f : f = [j \in 1..Len(q) |->
                    PostAt(E[q[j]], IF j = 1 THEN previous ELSE f[j-1], t)]
  <2>1. PICK f : Projects(E, q, previous, t, Len(q), f)
    BY Zenon, ProjectionExists
  <2>2. f = [j \in 1..Len(q) |-> PostAt(E[q[j]], IF j = 1 THEN previous ELSE f[j-1], t)]
    BY Zenon, <2>1 DEF Projects, Posts
  <2> QED
    BY Zenon, <2>2
<1>3. at = [j \in 1..Len(q) |-> PostAt(E[q[j]], IF j = 1 THEN previous ELSE at[j-1], t)]
  BY <1>1, <1>2, Zenon
<1> QED
  BY <1>3, Zenon
-----------------------------------------------------------------------------
(* The schedule of typed entries.                                          *)

Typed(E) == E \in [Ids -> StoredEntry \cup {NoEntry}]

LEMMA EntryFields ==
  ASSUME NEW E, Typed(E), NEW id \in Pending(E)
  PROVE  /\ id \in Ids /\ id \in Nat /\ E[id] \in StoredEntry
         /\ E[id].order \in MinOrder..MaxOrder /\ E[id].order \in Int
         /\ E[id].flutter \in Nat /\ E[id].enqueuedAt \in Nat /\ E[id].notBefore \in Nat
<1>1. id \in Ids /\ id \in Nat /\ E[id] \in StoredEntry
  BY ScheduleAssumption DEF Typed, Pending
<1>2. MinOrder \in Int /\ MaxOrder \in Int
  BY ScheduleAssumption DEF MinOrder
<1> QED
  BY <1>1, <1>2 DEF StoredEntry

LEMMA TypedKeys ==
  ASSUME NEW E, Typed(E)
  PROVE  Keys(E)
  BY EntryFields DEF Keys

LEMMA PostAtType ==
  ASSUME NEW e, e.flutter \in Nat, e.notBefore \in Nat,
         NEW previous \in Nat \cup {NoTime}, NEW t \in Nat
  PROVE  /\ PostAt(e, previous, t) \in Nat
         /\ PostAt(e, previous, t) >= t
         /\ previous # NoTime => PostAt(e, previous, t) >= previous + Cooldown
  BY ScheduleAssumption DEF PostAt, Latest, NoTime

\* Every projected second is a time, and none is past.
LEMMA ProjectionType ==
  ASSUME NEW E, Typed(E), NEW q \in Seq(Pending(E)),
         NEW previous \in Nat \cup {NoTime}, NEW t \in Nat, NEW k \in 1..Len(q)
  PROVE  /\ Projection(E, q, previous, t)[k] \in Nat
         /\ Projection(E, q, previous, t)[k] >= t
<1> DEFINE at == Projection(E, q, previous, t)
           Bad == {j \in 1..Len(q) : ~(at[j] \in Nat /\ at[j] >= t)}
<1>1. Len(q) \in Nat /\ \A j \in 1..Len(q) : q[j] \in Pending(E)
  OBVIOUS
<1>2. ASSUME NEW j \in 1..Len(q), j # 1 => at[j-1] \in Nat
      PROVE  at[j] \in Nat /\ at[j] >= t
  <2> DEFINE e == E[q[j]]
             before == IF j = 1 THEN previous ELSE at[j-1]
  <2>1. at[j] = PostAt(e, before, t)
    BY <1>1, ProjectionUnfolds
  <2>2. before \in Nat \cup {NoTime}
    BY <1>2
  <2>3. e.flutter \in Nat /\ e.notBefore \in Nat
    BY <1>1, EntryFields
  <2> HIDE DEF at, e, before
  <2>4. PostAt(e, before, t) \in Nat /\ PostAt(e, before, t) >= t
    BY Zenon, <2>2, <2>3, PostAtType
  <2> QED
    BY Zenon, <2>1, <2>4
<1> HIDE DEF at
<1>3. ASSUME Bad # {}
      PROVE  FALSE
  <2>1. PICK j \in Bad : \A i \in Bad : j <= i
    <3>1. Bad \subseteq Nat
      BY <1>1
    <3> QED
      BY Zenon, <1>3, <3>1, Least
  <2>2. j # 1 => j - 1 \in 1..Len(q) /\ j - 1 \notin Bad
    BY <1>1, <2>1
  <2> QED
    BY <1>2, <2>1, <2>2
<1> QED
  BY <1>3 DEF at

\* Each entry has the second of its position.
LEMMA PlaceOf ==
  ASSUME NEW E, Typed(E), IsFiniteSet(Pending(E)), NEW q, q = PostingOrder(E),
         NEW previous, NEW t, NEW k \in 1..Len(q)
  PROVE  /\ q[k] \in Range(q)
         /\ ProjectedSchedule(E, q, previous, t)[q[k]] = Projection(E, q, previous, t)[k]
<1>1. /\ q \in Seq(Pending(E))
      /\ \A i \in 1..Len(q) : q[i] \in Pending(E) /\ Rank(E, q[i]) = i - 1
  BY TypedKeys, OrderIsSorted
<1>2. q[k] \in Range(q)
  BY <1>1 DEF Range
<1>3. (CHOOSE i \in 1..Len(q) : q[i] = q[k]) = k
  BY <1>1
<1>4. ProjectedSchedule(E, q, previous, t)[q[k]] =
        Projection(E, q, previous, t)[CHOOSE i \in 1..Len(q) : q[i] = q[k]]
  BY <1>2, Zenon DEF ProjectedSchedule
<1> QED
  BY Zenon, <1>2, <1>3, <1>4

\* The k-th entry's time in the schedule is the k-th of the projection.
HasTime(E, q, previous, t, k) ==
  ProjectedSchedule(E, q, previous, t)[q[k]] = Projection(E, q, previous, t)[k]

LEMMA TimeOf ==
  ASSUME NEW E, Typed(E), IsFiniteSet(Pending(E)), NEW q, q = PostingOrder(E),
         NEW previous, NEW t, NEW k \in 1..Len(q)
  PROVE  HasTime(E, q, previous, t, k)
  BY PlaceOf DEF HasTime
-----------------------------------------------------------------------------
(* The invariant.                                                          *)

\* The ends of the queue are entries, and the head posts no sooner than a
\* cooldown after the previous activity.
LEMMA QueueEnds ==
  ASSUME ScheduleInv, NEW id \in Pending(entries)
  PROVE  LET q == schedule.queue IN
         q # << >> /\ Head(q) \in Pending(entries) /\ Last(q) \in Pending(entries)
<1>1. schedule.queue = PostingOrder(entries)
  BY DEF ScheduleInv, ScheduleIsCurrent
<1>2. Keys(entries) /\ IsFiniteSet(Pending(entries))
  BY TypedKeys DEF ScheduleInv, ScheduleTypeOK, Typed
<1>3. /\ schedule.queue \in Seq(Pending(entries))
      /\ \E k \in 1..Len(schedule.queue) : schedule.queue[k] = id
  BY <1>1, <1>2, OrderIsSorted
<1>4. schedule.queue # << >> /\ Len(schedule.queue) \in 1..Len(schedule.queue)
  BY <1>3
<1> QED
  BY <1>3, <1>4 DEF Last

LEMMA HeadWaits ==
  ASSUME ScheduleInv, schedule.queue # << >>,
         PreviousActivity(lastPost, lastAttempt) # NoTime
  PROVE  schedule.at[Head(schedule.queue)] >=
           PreviousActivity(lastPost, lastAttempt) + Cooldown
<1> DEFINE q == PostingOrder(entries)
           previous == PreviousActivity(lastPost, lastAttempt)
<1>1. schedule.queue = q /\ schedule.at = ProjectedSchedule(entries, q, previous, now)
  BY DEF ScheduleInv, ScheduleIsCurrent
<1>2. Typed(entries) /\ IsFiniteSet(Pending(entries)) /\ now \in Nat
  BY ScheduleAssumption DEF ScheduleInv, ScheduleTypeOK, Typed
<1>3. q \in Seq(Pending(entries))
  BY <1>2, TypedKeys, OrderIsSorted
<1>4. 1 \in 1..Len(q) /\ Head(q) = q[1] /\ q[1] \in Pending(entries) /\ Len(q) \in Nat
  BY <1>1, <1>3
<1>5. previous \in Nat \cup {NoTime}
  BY DEF ScheduleInv, ScheduleTypeOK, PreviousActivity, Latest, NoTime
<1> HIDE DEF q, previous
<1>6. schedule.at[Head(q)] = Projection(entries, q, previous, now)[1]
  BY <1>1, <1>2, <1>4, PlaceOf DEF q
<1>7. Projection(entries, q, previous, now)[1] = PostAt(entries[q[1]], previous, now)
  BY <1>4, ProjectionUnfolds
<1>8. PostAt(entries[q[1]], previous, now) >= previous + Cooldown
  <2>1. entries[q[1]].flutter \in Nat /\ entries[q[1]].notBefore \in Nat
    BY <1>2, <1>4, EntryFields
  <2>2. previous # NoTime
    BY DEF previous
  <2> QED
    BY <1>2, <1>5, <2>1, <2>2, PostAtType
<1> QED
  BY <1>1, <1>6, <1>7, <1>8 DEF previous

LEMMA InvInit ==
  ASSUME Init
  PROVE  ScheduleInv
<1>1. ScheduleTypeOK
  BY ScheduleAssumption DEF Init, ScheduleTypeOK, Idle, NoTime
<1>2. Pending(entries) = {}
  BY DEF Init, Pending
<1>3. IsFiniteSet(Pending(entries)) /\ Cardinality(Pending(entries)) = 0
  BY <1>2, FS_EmptySet
<1>4. PostingOrder(entries) = << >>
  BY <1>3 DEF PostingOrder
<1>5. \A previous, t : ProjectedSchedule(entries, << >>, previous, t) = << >>
  BY DEF ProjectedSchedule, Range
<1>6. ScheduleIsCurrent
  BY <1>4, <1>5 DEF ScheduleIsCurrent, Init
<1>7. EndIsKept
  BY DEF Init, EndIsKept, Journal, Idle, PreviousActivity, Latest, NoTime
<1> QED
  BY <1>1, <1>3, <1>6, <1>7 DEF ScheduleInv

LEMMA FieldChanges ==
  ASSUME NEW e \in StoredEntry
  PROVE  /\ \A order \in MinOrder..MaxOrder : [e EXCEPT !.order = order] \in StoredEntry
         /\ \A claim \in BOOLEAN : [e EXCEPT !.claim = claim] \in StoredEntry
  BY DEF StoredEntry

\* A step that writes or removes one entry file.
LEMMA OneEntryChanges ==
  ASSUME ScheduleInv, NEW id \in Ids, NEW e \in StoredEntry \cup {NoEntry},
         entries' = [entries EXCEPT ![id] = e]
  PROVE  Typed(entries') /\ IsFiniteSet(Pending(entries'))
<1>1. Typed(entries) /\ IsFiniteSet(Pending(entries))
  BY DEF ScheduleInv, ScheduleTypeOK, Typed
<1>2. Typed(entries')
  BY <1>1 DEF Typed
<1>3. Pending(entries') \subseteq Pending(entries) \cup {id}
  BY <1>1 DEF Typed, Pending
<1>4. IsFiniteSet(Pending(entries) \cup {id})
  BY <1>1, FS_AddElement
<1> QED
  BY Zenon, <1>2, <1>3, <1>4, FS_Subset

\* Keys drawn from the ends of the queue stay in range.
LEMMA KeysSaturate ==
  ASSUME ScheduleInv
  PROVE  /\ OrderAfterTail(schedule.queue) \in MinOrder..MaxOrder
         /\ Pending(entries) # {} => OrderBeforeHead(schedule.queue) \in MinOrder..MaxOrder
<1> DEFINE q == schedule.queue
<1>1. Typed(entries)
  BY DEF ScheduleInv, ScheduleTypeOK, Typed
<1>2. MaxOrder \in Nat /\ MinOrder = -MaxOrder - 1
  BY ScheduleAssumption DEF MinOrder
<1>3. q # << >> => Pending(entries) # {}
  <2>1. q = PostingOrder(entries) /\ Keys(entries) /\ IsFiniteSet(Pending(entries))
    BY <1>1, TypedKeys DEF ScheduleInv, ScheduleIsCurrent
  <2>2. q \in Seq(Pending(entries))
    BY <2>1, OrderIsSorted
  <2> QED
    BY <2>2
<1>4. CASE Pending(entries) = {}
  <2>1. OrderAfterTail(q) = 0
    BY <1>3, <1>4 DEF OrderAfterTail
  <2> QED
    BY <1>2, <1>4, <2>1
<1>5. CASE Pending(entries) # {}
  <2>1. q # << >> /\ Head(q) \in Pending(entries) /\ Last(q) \in Pending(entries)
    BY <1>5, QueueEnds
  <2>2. /\ entries[Head(q)].order \in MinOrder..MaxOrder
        /\ entries[Last(q)].order \in MinOrder..MaxOrder
    BY <1>1, <2>1, EntryFields
  <2> QED
    BY <1>2, <2>1, <2>2 DEF OrderAfterTail, OrderBeforeHead
<1> QED
  BY <1>4, <1>5

\* put writes the file of an identifier that had none, or nothing.
LEMMA PutWrites ==
  ASSUME ScheduleInv, NEW r \in Requests, NEW options \in PutOptions, Put(r, options)
  PROVE  \/ entries' = entries
         \/ \E id \in Ids : /\ entries[id] = NoEntry
                             /\ entries' = [entries EXCEPT ![id] = NewEntry(r, options)]
<1>1. now \in 0..MaxTime
  BY Zenon DEF ScheduleInv, ScheduleTypeOK
<1>2. PICK s \in ResolveSalt(r) :
        entries' = IF entries[Hash[r, now, s]] # NoEntry THEN entries
                   ELSE [entries EXCEPT ![Hash[r, now, s]] = NewEntry(r, options)]
  BY Zenon DEF Put
<1>3. s \in Salts
  <2> DEFINE free == {x \in Salts : entries[Hash[r, now, x]].request \in {r, NoEntry.request}}
  <2>1. free # {} /\ s = CHOOSE x \in free : \A u \in free : x <= u
    BY Zenon DEF ResolveSalt
  <2>2. free \subseteq Nat
    BY Zenon, ScheduleAssumption
  <2>3. \E x \in free : \A u \in free : x <= u
    <3> HIDE DEF free
    <3> QED
      BY Zenon, <2>1, <2>2, Least
  <2>4. s \in free
    <3> HIDE DEF free
    <3> QED
      BY <2>1, <2>3
  <2> QED
    BY Zenon, <2>4
<1>4. Hash[r, now, s] \in Ids
  BY Zenon, <1>1, <1>3, ScheduleAssumption
<1> QED
  BY Zenon, <1>2, <1>4

LEMMA NewEntryType ==
  ASSUME ScheduleInv, NEW r \in Requests, NEW options \in PutOptions
  PROVE  /\ NewEntry(r, options) \in StoredEntry
         /\ NewEntry(r, options).order = OrderAfterTail(schedule.queue)
<1>1. now \in Nat
  BY ScheduleAssumption DEF ScheduleInv, ScheduleTypeOK
<1>2. options.flutter \in Nat /\ Cooldown \in Nat
  BY ScheduleAssumption
<1>3. OrderAfterTail(schedule.queue) \in MinOrder..MaxOrder
  BY KeysSaturate
<1> QED
  BY <1>1, <1>2, <1>3 DEF NewEntry, StoredEntry

LEMMA PutKeepsEntries ==
  ASSUME ScheduleInv, NEW r \in Requests, NEW options \in PutOptions, Put(r, options)
  PROVE  Typed(entries') /\ IsFiniteSet(Pending(entries'))
<1>1. CASE entries' = entries
  BY Zenon, <1>1 DEF ScheduleInv, ScheduleTypeOK, Typed
<1>2. CASE \E id \in Ids : entries' = [entries EXCEPT ![id] = NewEntry(r, options)]
  BY Zenon, <1>2, NewEntryType, OneEntryChanges
<1> QED
  BY Zenon, <1>1, <1>2, PutWrites

LEMMA ReorderKeepsEntries ==
  ASSUME ScheduleInv, NEW id \in Ids, Bump(id) \/ Bust(id)
  PROVE  Typed(entries') /\ IsFiniteSet(Pending(entries'))
<1>1. id \in Pending(entries) /\ Typed(entries)
  BY DEF Bump, Bust, Pending, ScheduleInv, ScheduleTypeOK, Typed
<1>2. entries[id] \in StoredEntry /\ entries[id].order \in MinOrder..MaxOrder
  BY <1>1, EntryFields
<1>3. PICK order \in MinOrder..MaxOrder : Reorder(id, order)
  BY <1>1, <1>2, KeysSaturate DEF Bump, Bust
<1>4. entries' = [entries EXCEPT ![id] = [entries[id] EXCEPT !.order = order]]
  BY <1>3 DEF Reorder
<1>5. [entries[id] EXCEPT !.order = order] \in StoredEntry
  BY <1>2, FieldChanges
<1> QED
  BY Zenon, <1>4, <1>5, OneEntryChanges

\* How the end of an attempt, a recovery or a restart leaves an entry.
Ends(e, f) ==
  \/ f = e
  \/ f = NoEntry
  \/ e # NoEntry /\ f = [e EXCEPT !.claim = FALSE]

EndsAll(E, F) == Typed(F) /\ \A id \in Ids : Ends(E[id], F[id])

\* The entry the worker holds is removed or unclaimed.
LEMMA ClaimedEnds ==
  ASSUME Typed(entries)
  PROVE  /\ EndsAll(entries, entries)
         /\ EndsAll(entries, WithoutClaimed)
         /\ \A id \in Ids : WithoutClaimed[id] \in {entries[id], NoEntry}
         /\ EndsAll(entries, Released)
<1>1. EndsAll(entries, entries)
  BY Zenon DEF EndsAll, Ends
<1>2. CASE ~HoldsClaim \/ worker.id \notin Ids
  <2>1. WithoutClaimed = entries /\ Released = entries
    BY <1>2 DEF WithoutClaimed, Released, Typed
  <2> QED
    BY Zenon, <1>1, <2>1
<1>3. CASE HoldsClaim /\ worker.id \in Ids
  <2> DEFINE e == entries[worker.id]
             f == [e EXCEPT !.claim = FALSE]
  <2>1. e # NoEntry /\ e \in StoredEntry /\ f \in StoredEntry
    BY Zenon, <1>3, FieldChanges DEF HoldsClaim, Typed
  <2>2. /\ WithoutClaimed = [entries EXCEPT ![worker.id] = NoEntry]
        /\ Released = [entries EXCEPT ![worker.id] = f]
    BY <1>3 DEF WithoutClaimed, Released
  <2>3. ASSUME NEW id \in Ids
        PROVE  /\ WithoutClaimed[id] = IF id = worker.id THEN NoEntry ELSE entries[id]
               /\ Released[id] = IF id = worker.id THEN f ELSE entries[id]
    BY <2>2 DEF Typed
  <2>4. Typed(WithoutClaimed) /\ Typed(Released)
    BY Zenon, <2>1, <2>2 DEF Typed
  <2> QED
    BY Zenon, <1>1, <2>1, <2>3, <2>4 DEF EndsAll, Ends
<1> QED
  BY Zenon, <1>2, <1>3

LEMMA UnclaimedEnds ==
  ASSUME NEW E, Typed(E), NEW F, \A id \in Ids : F[id] \in {E[id], NoEntry}
  PROVE  EndsAll(E, Unclaimed(F))
<1>1. ASSUME NEW id \in Ids
      PROVE  Unclaimed(F)[id] \in StoredEntry \cup {NoEntry} /\ Ends(E[id], Unclaimed(F)[id])
  <2>1. Unclaimed(F)[id] = IF F[id] = NoEntry THEN NoEntry ELSE [F[id] EXCEPT !.claim = FALSE]
    BY Zenon DEF Unclaimed
  <2>2. F[id] = NoEntry \/ (F[id] = E[id] /\ E[id] \in StoredEntry)
    BY Zenon DEF Typed
  <2> QED
    BY Zenon, <2>1, <2>2, FieldChanges DEF Ends
<1>2. Typed(Unclaimed(F))
  BY Zenon, <1>1 DEF Typed, Unclaimed
<1> QED
  BY Zenon, <1>1, <1>2 DEF EndsAll

\* So do the worker's steps after the claim, failed ones included, and a restart.
LEMMA WorkerEnds ==
  ASSUME ScheduleInv,
         \/ Complete \/ CompleteFails \/ Release \/ ReleaseFails \/ Cooled
         \/ Recover \/ RecoverFails \/ Restart
  PROVE  EndsAll(entries, entries')
<1>1. Typed(entries)
  BY Zenon DEF ScheduleInv, ScheduleTypeOK, Typed
<1>2. CASE entries' = entries \/ entries' = WithoutClaimed \/ entries' = Released
  BY Zenon, <1>1, <1>2, ClaimedEnds
<1>3. CASE Recovered
  <2>1. PICK F : F = IF Journal = NoTime THEN entries ELSE WithoutClaimed
    BY Zenon
  <2>2. \A id \in Ids : F[id] \in {entries[id], NoEntry}
    BY Zenon, <1>1, <2>1, ClaimedEnds
  <2>3. entries' = Unclaimed(F)
    BY Zenon, <1>3, <2>1 DEF Recovered
  <2> QED
    BY Zenon, <1>1, <2>2, <2>3, UnclaimedEnds
<1>4. CASE Complete \/ CompleteFails \/ Release
  BY Zenon, <1>2, <1>4 DEF Complete, CompleteFails, Release
<1>5. CASE ReleaseFails \/ Cooled \/ RecoverFails
  BY Zenon, <1>2, <1>5 DEF ReleaseFails, Cooled, RecoverFails
<1> QED
  BY Zenon, <1>3, <1>4, <1>5 DEF Recover, Restart

LEMMA HeadIsPending ==
  ASSUME ScheduleInv, schedule.queue # << >>
  PROVE  Head(schedule.queue) \in Pending(entries)
<1>1. schedule.queue = PostingOrder(entries) /\ Keys(entries) /\ IsFiniteSet(Pending(entries))
  BY TypedKeys DEF ScheduleInv, ScheduleIsCurrent, ScheduleTypeOK, Typed
<1>2. schedule.queue \in Seq(Pending(entries))
  BY <1>1, OrderIsSorted
<1> QED
  BY <1>2

LEMMA ClaimKeepsEntries ==
  ASSUME ScheduleInv, Claim
  PROVE  /\ Typed(entries') /\ IsFiniteSet(Pending(entries'))
         /\ Head(schedule.queue) \in Ids
<1> DEFINE id == Head(schedule.queue)
<1>1. Typed(entries)
  BY DEF ScheduleInv, ScheduleTypeOK, Typed
<1>2. id \in Pending(entries)
  BY Zenon, HeadIsPending DEF Claim
<1>3. id \in Ids /\ entries[id] \in StoredEntry
  BY <1>1, <1>2, EntryFields
<1>4. entries' = [entries EXCEPT ![id] = [entries[id] EXCEPT !.claim = TRUE]]
  BY DEF Claim
<1>5. [entries[id] EXCEPT !.claim = TRUE] \in StoredEntry
  BY Zenon, <1>3, FieldChanges
<1> QED
  BY Zenon, <1>3, <1>4, <1>5, OneEntryChanges

LEMMA EndsKeepEntries ==
  ASSUME ScheduleInv, EndsAll(entries, entries')
  PROVE  Typed(entries') /\ IsFiniteSet(Pending(entries'))
<1>1. Typed(entries') /\ \A id \in Ids : Ends(entries[id], entries'[id])
  BY Zenon DEF EndsAll
<1>2. Pending(entries') \subseteq Pending(entries)
  BY Zenon, <1>1 DEF Pending, Ends
<1>3. IsFiniteSet(Pending(entries))
  BY Zenon DEF ScheduleInv
<1> QED
  BY Zenon, <1>1, <1>2, <1>3, FS_Subset

\* What every step does to the entries.
LEMMA EntriesStep ==
  ASSUME ScheduleInv, [Next]_vars
  PROVE  Typed(entries') /\ IsFiniteSet(Pending(entries'))
<1>1. Typed(entries) /\ IsFiniteSet(Pending(entries))
  BY DEF ScheduleInv, ScheduleTypeOK, Typed
<1>2. CASE \E r \in Requests, options \in PutOptions : Put(r, options)
  BY <1>2, PutKeepsEntries
<1>3. CASE \E id \in Ids : Bump(id) \/ Bust(id)
  BY <1>3, ReorderKeepsEntries
<1>4. CASE \E id \in Ids : Del(id)
  BY Zenon, <1>4, OneEntryChanges DEF Del
<1>5. CASE Claim
  BY <1>5, ClaimKeepsEntries
<1>6. CASE \/ Complete \/ CompleteFails \/ Release \/ ReleaseFails \/ Cooled
           \/ Recover \/ RecoverFails \/ Restart
  BY Zenon, <1>6, WorkerEnds, EndsKeepEntries
<1>7. CASE Tick \/ UNCHANGED vars
  BY <1>1, <1>7 DEF Tick, vars, files
<1> QED
  BY Zenon, <1>2, <1>3, <1>4, <1>5, <1>6, <1>7 DEF Next, WorkerStep

\* A client's step leaves the clock, the activity files and the worker alone.
LEMMA ClientSteps ==
  ASSUME \/ \E r \in Requests, options \in PutOptions : Put(r, options)
         \/ \E id \in Ids : Bump(id) \/ Bust(id) \/ Del(id)
  PROVE  UNCHANGED <<now, lastPost, lastAttempt, worker, lastEnd, record>> /\ Rescheduled
<1>1. CASE \E r \in Requests, options \in PutOptions : Put(r, options)
  BY Zenon, <1>1 DEF Put
<1>2. CASE \E id \in Ids : Bump(id) \/ Bust(id) \/ Del(id)
  BY Zenon, <1>2 DEF Bump, Bust, Del, Reorder
<1> QED
  BY <1>1, <1>2

\* The schedule read after a step is that of the new state.
LEMMA CurrentStep ==
  ASSUME ScheduleIsCurrent, [Next]_vars
  PROVE  ScheduleIsCurrent'
<1>1. CASE Rescheduled
  BY Zenon, <1>1 DEF Rescheduled, ScheduleIsCurrent
<1>2. CASE UNCHANGED vars
  <2>1. /\ now' = now /\ entries' = entries /\ lastPost' = lastPost
        /\ lastAttempt' = lastAttempt /\ schedule' = schedule
    BY <1>2 DEF vars, files
  <2>2. PostingOrder(entries') = PostingOrder(entries)
    BY Zenon, <2>1
  <2> QED
    BY Zenon, <2>1, <2>2 DEF ScheduleIsCurrent
<1>3. CASE WorkerStep \/ Restart \/ Tick
  BY Zenon, <1>1, <1>3 DEF WorkerStep, Claim, Complete, CompleteFails, Release, ReleaseFails,
       Cooled, Recover, RecoverFails, Restart, Tick
<1> QED
  BY <1>1, <1>2, <1>3, ClientSteps DEF Next

\* The types of what is not an entry.
RestTyped ==
  /\ now \in 0..MaxTime
  /\ {lastPost, lastAttempt, lastEnd} \subseteq Nat \cup {NoTime}
  /\ worker \in [pc : {"idle", "posting", "cooling", "failed"}, id : Ids \cup {0},
                 time : Nat \cup {NoTime}]
  /\ record \in {"file", "memory", "lost"}

LEMMA Times ==
  ASSUME RestTyped
  PROVE  /\ now \in Nat /\ now + Cooldown \in Nat /\ Cooldown \in Nat
         /\ \A a, b \in Nat \cup {NoTime} : Latest(a, b) \in Nat \cup {NoTime}
         /\ \A a, b \in Nat \cup {NoTime} : Latest(a, b) >= a /\ Latest(a, b) >= b
  BY ScheduleAssumption DEF RestTyped, Latest, NoTime

LEMMA RestStep ==
  ASSUME ScheduleInv, [Next]_vars
  PROVE  RestTyped'
<1>1. RestTyped
  BY DEF ScheduleInv, ScheduleTypeOK, RestTyped
<1>2. /\ Idle \in [pc : {"idle", "posting", "cooling", "failed"}, id : Ids \cup {0},
                   time : Nat \cup {NoTime}]
      /\ worker.id \in Ids \cup {0} /\ worker.time \in Nat \cup {NoTime}
  BY <1>1 DEF Idle, RestTyped
<1>3. /\ now \in Nat /\ now + Cooldown \in Nat
      /\ Latest(lastAttempt, now) \in Nat \cup {NoTime}
      /\ Latest(lastPost, lastAttempt) \in Nat \cup {NoTime}
  <2>1. {now, lastPost, lastAttempt} \subseteq Nat \cup {NoTime}
    BY <1>1, Times DEF RestTyped
  <2> QED
    BY Zenon, <1>1, <2>1, Times
<1>4. CASE UNCHANGED <<now, lastPost, lastAttempt, worker, lastEnd, record>>
  BY <1>1, <1>4 DEF RestTyped
<1>5. CASE Claim
  <2>1. worker' = [pc |-> "posting", id |-> Head(schedule.queue), time |-> NoTime]
        /\ UNCHANGED <<now, lastPost, lastAttempt, lastEnd, record>>
    BY <1>5 DEF Claim
  <2> QED
    BY <1>1, <1>5, <2>1, ClaimKeepsEntries DEF RestTyped
<1>6. CASE Complete
  BY <1>1, <1>2, <1>6, <1>3 DEF Complete, RestTyped
<1>7. CASE CompleteFails
  BY <1>1, <1>2, <1>7, <1>3 DEF CompleteFails, Fails, RestTyped
<1>8. CASE Release
  BY <1>1, <1>2, <1>8, <1>3 DEF Release, RestTyped
<1>9. CASE ReleaseFails
  BY <1>1, <1>2, <1>9, <1>3 DEF ReleaseFails, Fails, RestTyped
<1>10. CASE Cooled
  BY <1>1, <1>2, <1>10 DEF Cooled, RestTyped
<1>11. Journal \in Nat \cup {NoTime}
  BY <1>2 DEF Journal
<1>12. CASE Recover \/ Restart
  <2>1. /\ now' = now /\ lastAttempt' = lastAttempt /\ worker' = Idle
        /\ lastPost' \in {lastPost, Journal} /\ lastEnd' \in {now, lastEnd}
        /\ record' \in {"lost", record}
    BY <1>12 DEF Recover, Restart, Recovered
  <2> QED
    BY <1>1, <1>2, <1>3, <1>11, <2>1 DEF RestTyped
<1>13. CASE RecoverFails
  BY <1>1, <1>2, <1>11, <1>13 DEF RecoverFails, Fails, RestTyped
<1>14. CASE Tick
  BY <1>1, <1>14, ScheduleAssumption DEF Tick, RestTyped
<1> QED
  BY <1>4, <1>5, <1>6, <1>7, <1>8, <1>9, <1>10, <1>12, <1>13, <1>14, ClientSteps
  DEF Next, WorkerStep, vars, files

\* What keeps the end of the last attempt keeps it through every step, or the
\* step is the one that loses it.
LEMMA EndStep ==
  ASSUME ScheduleInv, [Next]_vars
  PROVE  EndIsKept'
<1>1. RestTyped /\ EndIsKept
  BY DEF ScheduleInv, ScheduleTypeOK, RestTyped
<1>2. /\ now \in Nat /\ Cooldown \in Nat /\ worker.time \in Nat \cup {NoTime}
      /\ lastPost \in Nat \cup {NoTime} /\ lastAttempt \in Nat \cup {NoTime}
      /\ lastEnd \in Nat \cup {NoTime} /\ Idle.pc = "idle" /\ NoTime = -1
      /\ Journal \in Nat \cup {NoTime}
  BY <1>1, Times DEF RestTyped, Idle, Journal, NoTime
<1>3. CASE UNCHANGED <<now, lastPost, lastAttempt, worker, lastEnd, record>>
  BY <1>1, <1>3 DEF EndIsKept, Journal
<1>4. CASE Claim
  BY <1>1, <1>2, <1>4 DEF Claim, EndIsKept, Journal
<1>5. CASE Complete
  BY <1>2, <1>5 DEF Complete, EndIsKept, Journal, PreviousActivity, Latest
<1>6. CASE CompleteFails
  BY <1>2, <1>6 DEF CompleteFails, Fails, EndIsKept, Journal, PreviousActivity, Latest
<1>7. CASE Release
  BY <1>2, <1>7 DEF Release, EndIsKept, Journal, PreviousActivity, Latest
<1>8. CASE ReleaseFails
  BY <1>2, <1>8 DEF ReleaseFails, Fails, EndIsKept, Journal, PreviousActivity, Latest
<1>9. CASE Cooled
  BY <1>1, <1>2, <1>9 DEF Cooled, EndIsKept, Journal
<1>10. CASE Recover
  BY <1>1, <1>2, <1>10 DEF Recover, Recovered, EndIsKept, Journal, PreviousActivity, Latest
<1>11. CASE RecoverFails
  BY <1>1, <1>2, <1>11 DEF RecoverFails, Fails, EndIsKept, Journal, PreviousActivity, Latest
<1>12. CASE Restart
  BY <1>1, <1>2, <1>12 DEF Restart, Recovered, EndIsKept, Journal, PreviousActivity, Latest
<1>13. CASE Tick
  BY <1>1, <1>2, <1>13 DEF Tick, EndIsKept, Journal, PreviousActivity, Latest
<1> QED
  BY <1>3, <1>4, <1>5, <1>6, <1>7, <1>8, <1>9, <1>10, <1>11, <1>12, <1>13, ClientSteps
  DEF Next, WorkerStep, vars, files

LEMMA ScheduleInvStep ==
  ASSUME ScheduleInv, [Next]_vars
  PROVE  ScheduleInv'
<1>1. Typed(entries') /\ IsFiniteSet(Pending(entries'))
  BY EntriesStep
<1>2. ScheduleTypeOK'
  BY <1>1, RestStep DEF RestTyped, Typed, ScheduleTypeOK
<1> QED
  BY <1>1, <1>2, CurrentStep, EndStep DEF ScheduleInv

LEMMA ScheduleInvHolds == Spec => []ScheduleInv
<1>1. ScheduleInv /\ [Next]_vars => ScheduleInv'
  BY ScheduleInvStep
<1> QED
  BY <1>1, InvInit, PTL DEF Spec
-----------------------------------------------------------------------------
(* Keys and pace.                                                          *)

\* Whatever is put, bumped, busted and deleted, order keys stay in the range
\* of i64, and the worker's claims, releases and recoveries leave the entries
\* and the activity files of their types.
THEOREM OrderKeysSaturate == Spec => []ScheduleTypeOK
  BY ScheduleInvHolds, PTL DEF ScheduleInv

\* The worker claims the head when the projection lets it post now, and never
\* sooner than a cooldown after the end of the attempt before, once complete or
\* release_claim has recorded that end: through their later failures, failed
\* recoveries and restarts.  An end that nothing recorded is excepted.
THEOREM PostsArePaced == Spec => Paced
<1> DEFINE Step == worker.pc = "idle" /\ worker'.pc = "posting" =>
                     lastEnd = NoTime \/ record = "lost" \/ now >= lastEnd + Cooldown
           previous == PreviousActivity(lastPost, lastAttempt)
<1>1. ASSUME ScheduleInv, [Next]_vars, worker.pc = "idle", worker'.pc = "posting"
      PROVE  lastEnd = NoTime \/ record = "lost" \/ now >= lastEnd + Cooldown
  <2>1. Claim
    <3>1. worker' # worker /\ worker' # Idle
      BY <1>1 DEF Idle
    <3>2. ~(Complete \/ CompleteFails \/ Release \/ ReleaseFails \/ Cooled)
      BY <1>1 DEF Complete, CompleteFails, Release, ReleaseFails, Cooled
    <3>3. ~(Recover \/ RecoverFails \/ Restart \/ Tick)
      BY <1>1, <3>1 DEF Recover, RecoverFails, Recovered, Restart, Tick, Journal
    <3> QED
      BY <1>1, <3>1, <3>2, <3>3, ClientSteps DEF Next, WorkerStep, vars, files
  <2>2. /\ lastEnd \in Nat \cup {NoTime} /\ Cooldown \in Nat /\ now \in Nat
        /\ lastPost \in Nat \cup {NoTime} /\ lastAttempt \in Nat \cup {NoTime}
    BY <1>1, ScheduleAssumption DEF ScheduleInv, ScheduleTypeOK
  <2>3. lastEnd <= previous \/ now >= lastEnd + Cooldown \/ record = "lost"
    BY <1>1, <2>2 DEF ScheduleInv, ScheduleTypeOK, EndIsKept, Journal
  <2>4. CASE previous = NoTime
    BY <2>2, <2>3, <2>4 DEF NoTime
  <2>5. CASE previous # NoTime
    <3>1. now >= previous + Cooldown
      BY <1>1, <2>1, <2>5, HeadWaits DEF Claim
    <3>2. previous \in Nat
      BY <2>2, <2>5 DEF PreviousActivity, Latest, NoTime
    <3> HIDE DEF previous
    <3> QED
      BY <2>2, <2>3, <3>1, <3>2 DEF NoTime
  <2> QED
    BY <2>4, <2>5
<1>2. ScheduleInv /\ [Next]_vars => [Step]_vars
  BY <1>1
<1> QED
  BY <1>2, ScheduleInvHolds, PTL DEF Spec, Paced
-----------------------------------------------------------------------------
(* Sequences in the posting order.                                         *)

\* q lists the members of S once each, in the order entries_with_usage sorts by.
Arranged(E, q, S) ==
  /\ q \in Seq(S)
  /\ \A id \in S : \E k \in 1..Len(q) : q[k] = id
  /\ \A j, k \in 1..Len(q) : j < k => Before(E, q[j], q[k])

LEMMA OrderIsArranged ==
  ASSUME NEW E, Typed(E), IsFiniteSet(Pending(E))
  PROVE  Arranged(E, PostingOrder(E), Pending(E))
<1> DEFINE q == PostingOrder(E)
<1>1. Keys(E)
  BY Zenon, TypedKeys
<1>2. /\ q \in Seq(Pending(E))
      /\ \A id \in Pending(E) : \E k \in 1..Len(q) : q[k] = id
      /\ \A j, k \in 1..Len(q) : j < k => Before(E, q[j], q[k])
  BY <1>1, OrderIsSorted
<1> QED
  BY Zenon, <1>2 DEF Arranged

LEMMA ArrangedMembers ==
  ASSUME NEW E, NEW S, NEW q, Arranged(E, q, S)
  PROVE  q \in Seq(S) /\ Len(q) \in Nat /\ \A k \in 1..Len(q) : q[k] \in S
<1>1. q \in Seq(S)
  BY Zenon DEF Arranged
<1> QED
  BY <1>1

\* What is true of the positions of arranged entries.
LEMMA ArrangedPlaces ==
  ASSUME NEW E, Keys(E), NEW S, S \subseteq Pending(E), NEW q, Arranged(E, q, S),
         NEW j \in 1..Len(q), NEW k \in 1..Len(q)
  PROVE  /\ q[j] = q[k] => j = k
         /\ Before(E, q[j], q[k]) => j < k
<1>1. /\ j \in Nat /\ k \in Nat
      /\ q[j] \in Pending(E) /\ q[k] \in Pending(E)
  BY ArrangedMembers
<1>2. /\ j < k => Before(E, q[j], q[k])
      /\ k < j => Before(E, q[k], q[j])
  BY Zenon DEF Arranged
<1>3. ~Before(E, q[j], q[j])
  BY Zenon, <1>1, BeforeIsTotal
<1>4. Before(E, q[j], q[k]) /\ Before(E, q[k], q[j]) => Before(E, q[j], q[j])
  BY Zenon, <1>1, BeforeIsTransitive
<1>5. j = k \/ j < k \/ k < j
  BY <1>1
<1> QED
  BY Zenon, <1>2, <1>3, <1>4, <1>5

Agree(a, b, m) == m \in 1..Len(b) /\ b[m] = a[m]

AgreeBefore(a, b, m) == \A k \in 1..(m - 1) : Agree(a, b, k)

\* Two arrangements that agree so far go on alike.
LEMMA ArrangedGoOn ==
  ASSUME NEW E, Keys(E), NEW S, S \subseteq Pending(E), NEW a, NEW b,
         Arranged(E, a, S), Arranged(E, b, S), NEW m \in 1..Len(a),
         AgreeBefore(a, b, m), m \in 1..Len(b) => ~Before(E, b[m], a[m])
  PROVE  Agree(a, b, m)
<1>1. a[m] \in S /\ Len(a) \in Nat /\ Len(b) \in Nat
  BY Zenon, ArrangedMembers
<1>2. PICK k \in 1..Len(b) : b[k] = a[m]
  BY Zenon, <1>1 DEF Arranged
<1>3. ~(k < m)
  <2>1. ASSUME k < m PROVE FALSE
    <3>1. k \in 1..(m - 1) /\ k \in 1..Len(a) /\ k # m
      BY <1>1, <2>1
    <3>2. a[k] = a[m] /\ Before(E, a[k], a[m])
      BY Zenon, <1>2, <2>1, <3>1 DEF Arranged, AgreeBefore, Agree
    <3> QED
      BY Zenon, <1>1, <3>2, BeforeIsTotal
  <2> QED
    BY Zenon, <2>1
<1>4. m \in 1..Len(b) /\ (m = k \/ m < k)
  BY <1>1, <1>3
<1>5. m < k => Before(E, b[m], b[k])
  BY Zenon, <1>4 DEF Arranged
<1> QED
  BY Zenon, <1>2, <1>4, <1>5 DEF Agree

LEMMA SameSequence ==
  ASSUME NEW S, NEW p \in Seq(S), NEW q \in Seq(S), Len(p) = Len(q),
         \A k \in 1..Len(p) : p[k] = q[k]
  PROVE  p = q
  OBVIOUS

\* There is one arrangement.
LEMMA ArrangedIsUnique ==
  ASSUME NEW E, Keys(E), NEW S, S \subseteq Pending(E), NEW p, NEW q,
         Arranged(E, p, S), Arranged(E, q, S)
  PROVE  p = q
<1>1. /\ p \in Seq(S) /\ q \in Seq(S) /\ Len(p) \in Nat /\ Len(q) \in Nat
      /\ \A k \in 1..Len(p) : p[k] \in Pending(E)
      /\ \A k \in 1..Len(q) : q[k] \in Pending(E)
  <2>1. /\ \A k \in 1..Len(p) : p[k] \in S
        /\ \A k \in 1..Len(q) : q[k] \in S
    BY Zenon, ArrangedMembers
  <2> QED
    BY Zenon, <2>1, ArrangedMembers
<1> DEFINE Bad == {k \in Nat \ {0} : /\ k \in 1..Len(p) \/ k \in 1..Len(q)
                                    /\ ~(k \in 1..Len(p) /\ k \in 1..Len(q) /\ p[k] = q[k])}
<1>2. ASSUME Bad # {} PROVE FALSE
  <2>1. PICK m \in Bad : \A k \in Bad : m <= k
    <3>1. Bad \subseteq Nat
      OBVIOUS
    <3> QED
      BY Zenon, <1>2, <3>1, Least
  <2>2. ASSUME NEW k \in 1..(m - 1)
        PROVE  k \in 1..Len(p) /\ k \in 1..Len(q) /\ p[k] = q[k]
    <3>1. k \in Nat \ {0} /\ ~(m <= k) /\ (k \in 1..Len(p) \/ k \in 1..Len(q))
      BY <1>1, <2>1
    <3> QED
      BY Zenon, <2>1, <3>1
  <2>3. CASE m \in 1..Len(p) /\ (m \in 1..Len(q) => ~Before(E, q[m], p[m]))
    <3>1. AgreeBefore(p, q, m)
      BY Zenon, <2>2 DEF AgreeBefore, Agree
    <3>2. Agree(p, q, m)
      BY Zenon, <2>3, <3>1, ArrangedGoOn
    <3> QED
      BY Zenon, <2>1, <2>3, <3>2 DEF Agree
  <2>4. CASE m \in 1..Len(q) /\ (m \in 1..Len(p) => ~Before(E, p[m], q[m]))
    <3>1. AgreeBefore(q, p, m)
      BY Zenon, <2>2 DEF AgreeBefore, Agree
    <3>2. Agree(q, p, m)
      BY Zenon, <2>4, <3>1, ArrangedGoOn
    <3> QED
      BY Zenon, <2>1, <2>4, <3>2 DEF Agree
  <2>5. m \in 1..Len(p) /\ m \in 1..Len(q) => ~Before(E, q[m], p[m]) \/ ~Before(E, p[m], q[m])
    BY Zenon, <1>1, BeforeIsTotal, BeforeIsTransitive
  <2> QED
    BY Zenon, <2>1, <2>3, <2>4, <2>5
<1>3. \A k \in Nat \ {0} : k \in 1..Len(p) \/ k \in 1..Len(q) =>
          k \in 1..Len(p) /\ k \in 1..Len(q) /\ p[k] = q[k]
  BY Zenon, <1>2
<1>4. Len(p) = Len(q) /\ \A k \in 1..Len(p) : p[k] = q[k]
  BY <1>1, <1>3
<1> QED
  BY Zenon, <1>1, <1>4, SameSequence

LEMMA AppendIs ==
  ASSUME NEW S, NEW q \in Seq(S), NEW T, S \subseteq T, NEW id \in T, NEW r, r = Append(q, id)
  PROVE  /\ r \in Seq(T) /\ Len(q) \in Nat /\ Len(r) = Len(q) + 1
         /\ \A k \in 1..Len(r) : r[k] = IF k = Len(q) + 1 THEN id ELSE q[k]
<1>1. q \in Seq(T)
  OBVIOUS
<1> QED
  BY <1>1

LEMMA PrependIs ==
  ASSUME NEW S, NEW q \in Seq(S), NEW T, S \subseteq T, NEW id \in T, NEW r, r = <<id>> \o q
  PROVE  /\ r \in Seq(T) /\ Len(q) \in Nat /\ Len(r) = Len(q) + 1
         /\ \A k \in 1..Len(r) : r[k] = IF k = 1 THEN id ELSE q[k - 1]
<1>1. q \in Seq(T) /\ <<id>> \in Seq(T)
  OBVIOUS
<1> QED
  BY <1>1

LEMMA ConcatIs ==
  ASSUME NEW S, NEW a \in Seq(S), NEW b \in Seq(S)
  PROVE  a \o b \in Seq(S) /\ Len(a \o b) = Len(a) + Len(b)
  OBVIOUS

\* q without its i-th member.
Cut(q, i) == SubSeq(q, 1, i - 1) \o SubSeq(q, i + 1, Len(q))

LEMMA RemoveIs ==
  ASSUME NEW S, NEW q \in Seq(S), NEW i \in 1..Len(q), NEW r, r = Cut(q, i)
  PROVE  /\ r \in Seq(S) /\ Len(q) \in Nat /\ Len(r) = Len(q) - 1
         /\ \A k \in 1..Len(r) : r[k] = IF k < i THEN q[k] ELSE q[k + 1]
<1> DEFINE a == SubSeq(q, 1, i - 1)
           b == SubSeq(q, i + 1, Len(q))
<1>1. a \in Seq(S) /\ Len(a) = i - 1 /\ \A k \in 1..(i - 1) : a[k] = q[k]
  OBVIOUS
<1>2. b \in Seq(S) /\ Len(b) = Len(q) - i /\ \A k \in 1..(Len(q) - i) : b[k] = q[i + k]
  OBVIOUS
<1>3. r = a \o b
  BY Zenon DEF Cut
<1> HIDE DEF a, b
<1>4. r \in Seq(S) /\ Len(r) = Len(q) - 1 /\ Len(q) \in Nat
  <2>1. r \in Seq(S) /\ Len(r) = Len(a) + Len(b)
    <3>1. a \in Seq(S) /\ b \in Seq(S)
      BY Zenon, <1>1, <1>2
    <3>2. a \o b \in Seq(S) /\ Len(a \o b) = Len(a) + Len(b)
      BY Zenon, <3>1, ConcatIs
    <3> QED
      BY Zenon, <1>3, <3>2
  <2>2. Len(q) \in Nat /\ i \in Int
    OBVIOUS
  <2> QED
    BY <1>1, <1>2, <2>1, <2>2
<1>5. ASSUME NEW k \in 1..Len(r)
      PROVE  r[k] = IF k < i THEN q[k] ELSE q[k + 1]
  <2>1. CASE k < i
    BY <1>1, <1>2, <1>3, <1>4, <2>1
  <2>2. CASE ~(k < i)
    <3>1. r[k] = b[k - (i - 1)] /\ k - (i - 1) \in 1..(Len(q) - i)
      BY <1>1, <1>2, <1>3, <1>4, <2>2
    <3>2. i + (k - (i - 1)) = k + 1
      BY <1>4
    <3> QED
      BY <1>2, <2>2, <3>1, <3>2
  <2> QED
    BY <2>1, <2>2
<1> QED
  BY <1>4, <1>5

\* What sorts after all of them goes to the tail.
LEMMA ArrangedAppend ==
  ASSUME NEW E, NEW S, NEW q, Arranged(E, q, S), NEW id, \A x \in S : Before(E, x, id)
  PROVE  Arranged(E, Append(q, id), S \cup {id})
<1> DEFINE r == Append(q, id)
           T == S \cup {id}
<1>1. q \in Seq(S) /\ \A k \in 1..Len(q) : q[k] \in S
  BY Zenon, ArrangedMembers
<1>2. /\ r \in Seq(T) /\ Len(q) \in Nat /\ Len(r) = Len(q) + 1
      /\ \A k \in 1..Len(r) : r[k] = IF k = Len(q) + 1 THEN id ELSE q[k]
  BY <1>1, AppendIs
<1> HIDE DEF r
<1>3. ASSUME NEW x \in T PROVE \E k \in 1..Len(r) : r[k] = x
  <2>1. CASE x = id
    BY <1>2, <2>1
  <2>2. CASE x \in S
    <3>1. PICK k \in 1..Len(q) : q[k] = x
      BY Zenon, <2>2 DEF Arranged
    <3>2. k \in 1..Len(r) /\ r[k] = q[k]
      BY <1>2
    <3> QED
      BY Zenon, <3>1, <3>2
  <2> QED
    BY Zenon, <2>1, <2>2
<1>4. ASSUME NEW j \in 1..Len(r), NEW k \in 1..Len(r), j < k
      PROVE  Before(E, r[j], r[k])
  <2>1. j \in 1..Len(q) /\ r[j] = q[j] /\ q[j] \in S
    BY <1>1, <1>2, <1>4
  <2>2. CASE k = Len(q) + 1
    <3>1. r[k] = id
      BY Zenon, <1>2, <2>2
    <3> QED
      BY Zenon, <2>1, <3>1
  <2>3. CASE k # Len(q) + 1
    <3>1. k \in 1..Len(q) /\ r[k] = q[k]
      BY <1>2, <2>3
    <3> QED
      BY Zenon, <1>4, <2>1, <3>1 DEF Arranged
  <2> QED
    BY Zenon, <2>2, <2>3
<1> QED
  BY Zenon, <1>2, <1>3, <1>4 DEF Arranged, r

\* What sorts before all of them goes to the head.
LEMMA ArrangedPrepend ==
  ASSUME NEW E, NEW S, NEW q, Arranged(E, q, S), NEW id, \A x \in S : Before(E, id, x)
  PROVE  Arranged(E, <<id>> \o q, S \cup {id})
<1> DEFINE r == <<id>> \o q
           T == S \cup {id}
<1>1. q \in Seq(S) /\ \A k \in 1..Len(q) : q[k] \in S
  BY Zenon, ArrangedMembers
<1>2. /\ r \in Seq(T) /\ Len(q) \in Nat /\ Len(r) = Len(q) + 1
      /\ \A k \in 1..Len(r) : r[k] = IF k = 1 THEN id ELSE q[k - 1]
  BY <1>1, PrependIs
<1> HIDE DEF r
<1>3. ASSUME NEW x \in T PROVE \E k \in 1..Len(r) : r[k] = x
  <2>1. CASE x = id
    BY <1>2, <2>1
  <2>2. CASE x \in S
    <3>1. PICK k \in 1..Len(q) : q[k] = x
      BY Zenon, <2>2 DEF Arranged
    <3>2. k + 1 \in 1..Len(r) /\ r[k + 1] = q[k]
      BY <1>2
    <3> QED
      BY Zenon, <3>1, <3>2
  <2> QED
    BY Zenon, <2>1, <2>2
<1>4. ASSUME NEW j \in 1..Len(r), NEW k \in 1..Len(r), j < k
      PROVE  Before(E, r[j], r[k])
  <2>1. k - 1 \in 1..Len(q) /\ r[k] = q[k - 1] /\ q[k - 1] \in S
    BY <1>1, <1>2, <1>4
  <2>2. CASE j = 1
    <3>1. r[j] = id
      BY Zenon, <1>2, <2>2
    <3> QED
      BY Zenon, <2>1, <3>1
  <2>3. CASE j # 1
    <3>1. j - 1 \in 1..Len(q) /\ r[j] = q[j - 1] /\ j - 1 < k - 1
      BY <1>2, <1>4, <2>3
    <3> QED
      BY Zenon, <2>1, <3>1 DEF Arranged
  <2> QED
    BY Zenon, <2>2, <2>3
<1> QED
  BY Zenon, <1>2, <1>3, <1>4 DEF Arranged, r

\* The others keep their order when one is taken out.
LEMMA ArrangedWithout ==
  ASSUME NEW E, Keys(E), NEW S, S \subseteq Pending(E), NEW q, Arranged(E, q, S), NEW id \in S
  PROVE  Arranged(E, Without(q, id), S \ {id})
<1> DEFINE i == CHOOSE k \in 1..Len(q) : q[k] = id
           r == Without(q, id)
<1>1. q \in Seq(S) /\ Len(q) \in Nat /\ \A k \in 1..Len(q) : q[k] \in S
  BY Zenon, ArrangedMembers
<1>2. i \in 1..Len(q) /\ q[i] = id
  <2>1. \E k \in 1..Len(q) : q[k] = id
    BY Zenon DEF Arranged
  <2> QED
    BY Zenon, <2>1
<1>3. r = Cut(q, i)
  BY Zenon DEF Without, Cut
<1> HIDE DEF i, r
<1>4. /\ r \in Seq(S) /\ Len(r) = Len(q) - 1
      /\ \A k \in 1..Len(r) : r[k] = IF k < i THEN q[k] ELSE q[k + 1]
  BY <1>1, <1>2, <1>3, RemoveIs
<1>5. ASSUME NEW k \in 1..Len(q), k # i PROVE q[k] # id
  BY Zenon, <1>2, <1>5, ArrangedPlaces
<1>6. ASSUME NEW k \in 1..Len(r) PROVE r[k] \in S \ {id}
  <2>1. CASE k < i
    <3>1. r[k] = q[k] /\ k \in 1..Len(q) /\ k # i
      BY <1>1, <1>2, <1>4, <2>1
    <3> QED
      BY Zenon, <1>1, <1>5, <3>1
  <2>2. CASE ~(k < i)
    <3>1. r[k] = q[k + 1] /\ k + 1 \in 1..Len(q) /\ k + 1 # i
      BY <1>1, <1>2, <1>4, <2>2
    <3> QED
      BY Zenon, <1>1, <1>5, <3>1
  <2> QED
    BY Zenon, <2>1, <2>2
<1>7. r \in Seq(S \ {id})
  BY <1>1, <1>4, <1>6
<1>8. ASSUME NEW x \in S \ {id} PROVE \E k \in 1..Len(r) : r[k] = x
  <2>1. PICK k \in 1..Len(q) : q[k] = x
    BY Zenon, <1>8 DEF Arranged
  <2>2. k # i
    BY Zenon, <1>2, <1>8, <2>1
  <2>3. CASE k < i
    <3>1. k \in 1..Len(r) /\ r[k] = q[k]
      BY <1>1, <1>2, <1>4, <2>3
    <3> QED
      BY Zenon, <2>1, <3>1
  <2>4. CASE ~(k < i)
    <3>1. k - 1 \in 1..Len(r) /\ r[k - 1] = q[(k - 1) + 1] /\ (k - 1) + 1 = k
      BY <1>1, <1>2, <1>4, <2>2, <2>4
    <3> QED
      BY Zenon, <2>1, <3>1
  <2> QED
    BY Zenon, <2>3, <2>4
<1>9. ASSUME NEW j \in 1..Len(r), NEW k \in 1..Len(r), j < k
      PROVE  Before(E, r[j], r[k])
  <2> DEFINE at(n) == IF n < i THEN n ELSE n + 1
  <2>1. /\ at(j) \in 1..Len(q) /\ at(k) \in 1..Len(q) /\ at(j) < at(k)
        /\ r[j] = q[at(j)] /\ r[k] = q[at(k)]
    BY <1>1, <1>2, <1>4, <1>9
  <2> HIDE DEF at
  <2> QED
    BY Zenon, <2>1 DEF Arranged
<1> QED
  BY Zenon, <1>7, <1>8, <1>9 DEF Arranged, r

SameKey(E, F, id) == F[id].order = E[id].order /\ F[id].enqueuedAt = E[id].enqueuedAt

\* The order looks at nothing but the keys.
LEMMA ArrangedByKeys ==
  ASSUME NEW E, NEW F, NEW S, \A id \in S : SameKey(E, F, id), NEW q, Arranged(E, q, S)
  PROVE  Arranged(F, q, S)
<1>1. ASSUME NEW a \in S, NEW b \in S, Before(E, a, b) PROVE Before(F, a, b)
  BY Zenon, <1>1 DEF Before, SameKey
<1>2. \A k \in 1..Len(q) : q[k] \in S
  BY Zenon, ArrangedMembers
<1> QED
  BY Zenon, <1>1, <1>2 DEF Arranged
-----------------------------------------------------------------------------
(* What a step does to an entry.                                           *)

\* Nothing but the order key and the claim of an entry changes.
Keeps(e, f) ==
  /\ f.flutter = e.flutter /\ f.notBefore = e.notBefore /\ f.enqueuedAt = e.enqueuedAt

\* e becomes f in a step that writes no order key.
Quiet(e, f) ==
  \/ f = e
  \/ f = NoEntry
  \/ e # NoEntry /\ f # NoEntry /\ Keeps(e, f) /\ f.order = e.order

LEMMA StoredIsSome ==
  ASSUME NEW e \in StoredEntry
  PROVE  e # NoEntry
<1>1. "order" \in DOMAIN e
  BY DEF StoredEntry
<1>2. "order" \notin DOMAIN NoEntry
  BY DEF NoEntry
<1> QED
  BY Zenon, <1>1, <1>2

LEMMA ClaimChanges ==
  ASSUME NEW e \in StoredEntry, NEW claim \in BOOLEAN
  PROVE  /\ Keeps(e, [e EXCEPT !.claim = claim])
         /\ [e EXCEPT !.claim = claim].order = e.order
         /\ [e EXCEPT !.claim = claim].claim = claim
         /\ [e EXCEPT !.claim = claim] \in StoredEntry
  BY DEF StoredEntry, Keeps

LEMMA OrderChanges ==
  ASSUME NEW e \in StoredEntry, NEW order \in MinOrder..MaxOrder
  PROVE  /\ Keeps(e, [e EXCEPT !.order = order])
         /\ [e EXCEPT !.order = order].order = order
         /\ [e EXCEPT !.order = order].claim = e.claim
         /\ [e EXCEPT !.order = order] \in StoredEntry
  BY DEF StoredEntry, Keeps

LEMMA ClaimIsQuiet ==
  ASSUME NEW e \in StoredEntry, NEW claim \in BOOLEAN
  PROVE  Quiet(e, [e EXCEPT !.claim = claim])
<1>1. e # NoEntry /\ [e EXCEPT !.claim = claim] # NoEntry
  BY Zenon, ClaimChanges, StoredIsSome
<1> QED
  BY Zenon, <1>1, ClaimChanges DEF Quiet

\* One entry file is written or removed quietly.
LEMMA OneQuiet ==
  ASSUME Typed(entries), NEW x, NEW f, x \in Ids => Quiet(entries[x], f),
         entries' = [entries EXCEPT ![x] = f], NEW id \in Ids
  PROVE  Quiet(entries[id], entries'[id])
<1>1. entries'[id] = IF id = x THEN f ELSE entries[id]
  BY DEF Typed
<1> QED
  BY Zenon, <1>1 DEF Quiet

\* Only put makes an entry, and only bump and bust write an order key.
LEMMA QuietSteps ==
  ASSUME ScheduleInv, NEW id \in Ids,
         \/ \E x \in Ids : Del(x)
         \/ WorkerStep \/ Restart \/ Tick \/ UNCHANGED vars
  PROVE  Quiet(entries[id], entries'[id])
<1>1. Typed(entries)
  BY Zenon DEF ScheduleInv, ScheduleTypeOK, Typed
<1>2. CASE entries' = entries
  BY Zenon, <1>2 DEF Quiet
<1>3. ASSUME NEW x, entries' = [entries EXCEPT ![x] = NoEntry]
      PROVE  Quiet(entries[id], entries'[id])
  BY Zenon, <1>1, <1>3, OneQuiet DEF Quiet
<1>4. ASSUME NEW x, NEW claim \in BOOLEAN, entries[x] # NoEntry,
             entries' = [entries EXCEPT ![x].claim = claim]
      PROVE  Quiet(entries[id], entries'[id])
  <2> DEFINE f == [entries[x] EXCEPT !.claim = claim]
  <2>1. entries' = [entries EXCEPT ![x] = f]
    BY <1>4
  <2>2. x \in Ids => Quiet(entries[x], f)
    BY Zenon, <1>1, <1>4, ClaimIsQuiet DEF Typed
  <2> HIDE DEF f
  <2> QED
    BY Zenon, <1>1, <2>1, <2>2, OneQuiet
<1>5. CASE Claim
  <2>1. Head(schedule.queue) \in Pending(entries)
    BY Zenon, <1>5, HeadIsPending DEF Claim
  <2> QED
    BY Zenon, <1>4, <1>5, <2>1 DEF Claim, Pending
<1>6. CASE \/ Complete \/ CompleteFails \/ Release \/ ReleaseFails \/ Cooled
           \/ Recover \/ RecoverFails \/ Restart
  <2>1. Ends(entries[id], entries'[id])
    BY Zenon, <1>6, WorkerEnds DEF EndsAll
  <2>2. CASE entries'[id] = entries[id] \/ entries'[id] = NoEntry
    BY Zenon, <2>2 DEF Quiet
  <2>3. CASE entries[id] # NoEntry /\ entries'[id] = [entries[id] EXCEPT !.claim = FALSE]
    BY Zenon, <1>1, <2>3, ClaimIsQuiet DEF Typed
  <2> QED
    BY Zenon, <2>1, <2>2, <2>3 DEF Ends
<1>7. CASE Tick \/ UNCHANGED vars
  BY <1>2, <1>7 DEF Tick, vars, files
<1>8. CASE \E x \in Ids : Del(x)
  BY Zenon, <1>3, <1>8 DEF Del
<1> QED
  BY Zenon, <1>5, <1>6, <1>7, <1>8 DEF WorkerStep

\* bump and bust write the order key of one entry.
LEMMA ReorderWrites ==
  ASSUME ScheduleInv, NEW x \in Ids, NEW order, Reorder(x, order), order \in MinOrder..MaxOrder
  PROVE  /\ x \in Pending(entries) /\ Pending(entries') = Pending(entries)
         /\ entries'[x].order = order /\ entries'[x].claim = entries[x].claim
         /\ Keeps(entries[x], entries'[x])
         /\ \A id \in Ids \ {x} : entries'[id] = entries[id]
<1>1. Typed(entries) /\ entries[x] # NoEntry
  BY Zenon DEF ScheduleInv, ScheduleTypeOK, Typed, Reorder
<1>2. entries[x] \in StoredEntry
  BY Zenon, <1>1 DEF Typed
<1> DEFINE f == [entries[x] EXCEPT !.order = order]
<1>3. entries' = [entries EXCEPT ![x] = f]
  BY DEF Reorder
<1>4. /\ Keeps(entries[x], f) /\ f.order = order /\ f.claim = entries[x].claim
      /\ f # NoEntry
  BY Zenon, <1>2, OrderChanges, StoredIsSome
<1> HIDE DEF f
<1>5. entries'[x] = f /\ \A id \in Ids \ {x} : entries'[id] = entries[id]
  BY <1>1, <1>3 DEF Typed
<1>6. Pending(entries') = Pending(entries)
  BY <1>1, <1>4, <1>5 DEF Pending
<1>7. x \in Pending(entries)
  BY Zenon, <1>1 DEF Pending
<1> QED
  BY Zenon, <1>4, <1>5, <1>6, <1>7

\* bump and bust keep the key of the entry at the end it would go to, and
\* draw a new one for any other from the key at that end.
LEMMA BumpBustReorder ==
  ASSUME ScheduleInv, NEW x \in Ids, Bump(x) \/ Bust(x)
  PROVE  \E order \in MinOrder..MaxOrder :
           /\ Reorder(x, order)
           /\ \/ order = entries[x].order
              \/ order = OrderBeforeHead(schedule.queue)
              \/ order = OrderAfterTail(schedule.queue)
<1>1. x \in Pending(entries) /\ Typed(entries)
  BY Zenon DEF Bump, Bust, Pending, ScheduleInv, ScheduleTypeOK, Typed
<1>2. entries[x].order \in MinOrder..MaxOrder
  BY Zenon, <1>1, EntryFields
<1>3. /\ OrderBeforeHead(schedule.queue) \in MinOrder..MaxOrder
      /\ OrderAfterTail(schedule.queue) \in MinOrder..MaxOrder
  BY <1>1, KeysSaturate
<1>4. \/ Reorder(x, entries[x].order)
      \/ Reorder(x, OrderBeforeHead(schedule.queue))
      \/ Reorder(x, OrderAfterTail(schedule.queue))
  BY Zenon DEF Bump, Bust
<1> QED
  BY Zenon, <1>2, <1>3, <1>4

\* An entry that survives a step keeps its flutter, its earliest posting
\* time and when it was queued.
LEMMA SurvivorsKeep ==
  ASSUME ScheduleInv, [Next]_vars, NEW id \in Pending(entries) \cap Pending(entries')
  PROVE  Keeps(entries[id], entries'[id])
<1>1. /\ id \in Ids /\ entries[id] # NoEntry /\ entries'[id] # NoEntry
      /\ Typed(entries)
  BY Zenon DEF Pending, ScheduleInv, ScheduleTypeOK, Typed
<1>2. CASE Quiet(entries[id], entries'[id])
  BY Zenon, <1>1, <1>2 DEF Quiet, Keeps
<1>3. CASE \E r \in Requests, options \in PutOptions : Put(r, options)
  <2>1. entries'[id] = entries[id]
    <3>1. PICK r \in Requests, options \in PutOptions : Put(r, options)
      BY Zenon, <1>3
    <3>2. CASE entries' = entries
      BY Zenon, <3>2
    <3>3. ASSUME NEW x \in Ids, entries[x] = NoEntry,
                 entries' = [entries EXCEPT ![x] = NewEntry(r, options)]
          PROVE  entries'[id] = entries[id]
      BY <1>1, <3>3 DEF Typed
    <3> QED
      BY Zenon, <3>1, <3>2, <3>3, PutWrites
  <2> QED
    BY Zenon, <1>2, <2>1 DEF Quiet
<1>4. CASE \E x \in Ids : Bump(x) \/ Bust(x)
  <2>1. PICK x \in Ids : Bump(x) \/ Bust(x)
    BY Zenon, <1>4
  <2>2. PICK order \in MinOrder..MaxOrder : Reorder(x, order)
    BY Zenon, <2>1, BumpBustReorder
  <2>3. Keeps(entries[x], entries'[x]) /\ (id # x => entries'[id] = entries[id])
    BY Zenon, <1>1, <2>2, ReorderWrites
  <2> QED
    BY Zenon, <2>3 DEF Keeps
<1>5. CASE \/ \E x \in Ids : Del(x)
           \/ WorkerStep \/ Restart \/ Tick \/ UNCHANGED vars
  BY Zenon, <1>1, <1>2, <1>5, QuietSteps
<1> QED
  BY Zenon, <1>3, <1>4, <1>5 DEF Next

\* Only bump and bust change the order key of an entry that survives.
LEMMA KeyChanges ==
  ASSUME ScheduleInv, [Next]_vars, NEW id \in Pending(entries) \cap Pending(entries'),
         entries'[id].order # entries[id].order
  PROVE  Bump(id) \/ Bust(id)
<1>1. /\ id \in Ids /\ entries[id] # NoEntry /\ entries'[id] # NoEntry
      /\ Typed(entries)
  BY Zenon DEF Pending, ScheduleInv, ScheduleTypeOK, Typed
<1>2. ~Quiet(entries[id], entries'[id]) /\ entries'[id] # entries[id]
  BY Zenon, <1>1 DEF Quiet
<1>3. ~\E r \in Requests, options \in PutOptions : Put(r, options)
  <2>1. ASSUME NEW r \in Requests, NEW options \in PutOptions, Put(r, options)
        PROVE  FALSE
    <3>1. PICK x \in Ids : /\ entries[x] = NoEntry
                           /\ entries' = [entries EXCEPT ![x] = NewEntry(r, options)]
      BY Zenon, <1>2, <2>1, PutWrites
    <3>2. entries'[id] = entries[id]
      BY <1>1, <3>1 DEF Typed
    <3> QED
      BY Zenon, <1>2, <3>2
  <2> QED
    BY Zenon, <2>1
<1>4. ASSUME NEW x \in Ids, Bump(x) \/ Bust(x)
      PROVE  x = id
  <2>1. PICK order \in MinOrder..MaxOrder : Reorder(x, order)
    BY Zenon, <1>4, BumpBustReorder
  <2> QED
    BY Zenon, <1>1, <1>2, <2>1, ReorderWrites
<1>5. ~ \/ \E x \in Ids : Del(x)
        \/ WorkerStep \/ Restart \/ Tick \/ UNCHANGED vars
  BY Zenon, <1>1, <1>2, QuietSteps
<1> QED
  BY Zenon, <1>3, <1>4, <1>5 DEF Next

\* A new entry is what put wrote.
Enqueued(id, e) ==
  /\ id \in Ids /\ e \in StoredEntry
  /\ e.order = OrderAfterTail(schedule.queue)
  /\ entries' = [entries EXCEPT ![id] = e]
  /\ UNCHANGED <<now, lastPost, lastAttempt, worker, lastEnd>>

LEMMA NewEntries ==
  ASSUME ScheduleInv, [Next]_vars, NEW id \in Pending(entries') \ Pending(entries)
  PROVE  \E e : Enqueued(id, e)
<1>1. /\ id \in Ids /\ entries[id] = NoEntry /\ entries'[id] # NoEntry
      /\ Typed(entries)
  BY Zenon DEF Pending, ScheduleInv, ScheduleTypeOK, Typed
<1>2. ~Quiet(entries[id], entries'[id]) /\ entries'[id] # entries[id]
  BY Zenon, <1>1 DEF Quiet
<1>3. ASSUME NEW r \in Requests, NEW options \in PutOptions, Put(r, options)
      PROVE  \E e : Enqueued(id, e)
  <2>1. PICK x \in Ids : /\ entries[x] = NoEntry
                         /\ entries' = [entries EXCEPT ![x] = NewEntry(r, options)]
    BY Zenon, <1>2, <1>3, PutWrites
  <2>2. x = id
    BY <1>1, <1>2, <2>1 DEF Typed
  <2>3. UNCHANGED <<now, lastPost, lastAttempt, worker, lastEnd>>
    BY Zenon, <1>3 DEF Put
  <2> QED
    BY Zenon, <2>1, <2>2, <2>3, NewEntryType DEF Enqueued
<1>4. ~\E x \in Ids : Bump(x) \/ Bust(x)
  <2>1. ASSUME NEW x \in Ids, Bump(x) \/ Bust(x)
        PROVE  FALSE
    <3>1. PICK order \in MinOrder..MaxOrder : Reorder(x, order)
      BY Zenon, <2>1, BumpBustReorder
    <3>2. Pending(entries') = Pending(entries)
      BY Zenon, <3>1, ReorderWrites
    <3> QED
      BY Zenon, <3>2
  <2> QED
    BY Zenon, <2>1
<1>5. ~ \/ \E x \in Ids : Del(x)
        \/ WorkerStep \/ Restart \/ Tick \/ UNCHANGED vars
  BY Zenon, <1>1, <1>2, QuietSteps
<1> QED
  BY Zenon, <1>3, <1>4, <1>5 DEF Next
-----------------------------------------------------------------------------
(* Promises.                                                               *)

\* What the invariant says of the schedule.
LEMMA QueueIsArranged ==
  ASSUME ScheduleInv
  PROVE  /\ Typed(entries) /\ Keys(entries) /\ IsFiniteSet(Pending(entries))
         /\ schedule.queue = PostingOrder(entries)
         /\ schedule.at = ProjectedSchedule(entries, schedule.queue,
                             PreviousActivity(lastPost, lastAttempt), now)
         /\ Arranged(entries, schedule.queue, Pending(entries))
<1>1. Typed(entries) /\ IsFiniteSet(Pending(entries))
  BY Zenon DEF ScheduleInv, ScheduleTypeOK, Typed
<1>2. /\ schedule.queue = PostingOrder(entries)
      /\ schedule.at = ProjectedSchedule(entries, schedule.queue,
                          PreviousActivity(lastPost, lastAttempt), now)
  BY DEF ScheduleInv, ScheduleIsCurrent
<1> QED
  BY Zenon, <1>1, <1>2, TypedKeys, OrderIsArranged

LEMMA QueueIsArrangedNext ==
  ASSUME ScheduleInv'
  PROVE  /\ Typed(entries') /\ Keys(entries') /\ IsFiniteSet(Pending(entries'))
         /\ schedule'.queue = PostingOrder(entries')
         /\ schedule'.at = ProjectedSchedule(entries', schedule'.queue,
                              PreviousActivity(lastPost', lastAttempt'), now')
         /\ Arranged(entries', schedule'.queue, Pending(entries'))
<1>1. Typed(entries') /\ IsFiniteSet(Pending(entries'))
  BY Zenon DEF ScheduleInv, ScheduleTypeOK, Typed
<1>2. /\ schedule'.queue = PostingOrder(entries')
      /\ schedule'.at = ProjectedSchedule(entries', schedule'.queue,
                           PreviousActivity(lastPost', lastAttempt'), now')
  BY DEF ScheduleInv, ScheduleIsCurrent
<1> QED
  BY Zenon, <1>1, <1>2, TypedKeys, OrderIsArranged

\* The keys at the ends of the queue bound all the others.
LEMMA EndsBound ==
  ASSUME ScheduleInv, NEW x \in Pending(entries)
  PROVE  /\ schedule.queue # << >>
         /\ entries[Head(schedule.queue)].order <= entries[x].order
         /\ entries[x].order <= entries[Last(schedule.queue)].order
<1> DEFINE q == schedule.queue
<1>1. Arranged(entries, q, Pending(entries)) /\ Typed(entries)
  BY Zenon, QueueIsArranged
<1> HIDE DEF q
<1>2. /\ q \in Seq(Pending(entries)) /\ Len(q) \in Nat
      /\ \A k \in 1..Len(q) : q[k] \in Pending(entries)
  BY Zenon, <1>1, ArrangedMembers
<1>3. PICK k \in 1..Len(q) : q[k] = x
  BY Zenon, <1>1 DEF Arranged
<1>4. q # << >> /\ 1 \in 1..Len(q) /\ Len(q) \in 1..Len(q) /\ Head(q) = q[1]
  BY <1>2
<1>5. Last(q) = q[Len(q)]
  BY DEF Last
<1>6. \A id \in Pending(entries) : entries[id].order \in Int
  BY Zenon, <1>1, EntryFields
<1>7. \A a, b \in Pending(entries) : Before(entries, a, b) => entries[a].order <= entries[b].order
  BY <1>6 DEF Before
<1>8. /\ 1 < k => Before(entries, q[1], q[k])
      /\ k < Len(q) => Before(entries, q[k], q[Len(q)])
  BY Zenon, <1>1, <1>4 DEF Arranged
<1>9. (k = 1 \/ 1 < k) /\ (k = Len(q) \/ k < Len(q))
  BY <1>2
<1>10. /\ entries[q[1]].order <= entries[q[k]].order
       /\ entries[q[k]].order <= entries[q[Len(q)]].order
  <2>1. q[1] \in Pending(entries) /\ q[k] \in Pending(entries) /\ q[Len(q)] \in Pending(entries)
    BY Zenon, <1>2, <1>4
  <2>2. \A id \in Pending(entries) : entries[id].order <= entries[id].order
    BY <1>6
  <2> QED
    BY Zenon, <1>7, <1>8, <1>9, <2>1, <2>2
<1> QED
  BY Zenon, <1>3, <1>4, <1>5, <1>10 DEF q

BeginsAlike(E, F, q, r) ==
  /\ Len(q) \in Nat /\ Len(r) \in Nat /\ Len(q) <= Len(r)
  /\ \A k \in 1..Len(q) : r[k] = q[k] /\ F[q[k]] = E[q[k]]

SameTime(E, F, q, r, previous, t, n) ==
  Projection(F, r, previous, t)[n] = Projection(E, q, previous, t)[n]

\* Behind entries that do not change, the projection begins alike.
LEMMA PrefixProjects ==
  ASSUME NEW E, NEW F, NEW q, NEW r, BeginsAlike(E, F, q, r),
         NEW previous, NEW t, NEW n \in 1..Len(q)
  PROVE  SameTime(E, F, q, r, previous, t, n)
<1>0. /\ Len(q) \in Nat /\ Len(r) \in Nat /\ Len(q) <= Len(r)
      /\ \A k \in 1..Len(q) : r[k] = q[k] /\ F[q[k]] = E[q[k]]
  BY Zenon DEF BeginsAlike
<1> DEFINE a == Projection(E, q, previous, t)
           b == Projection(F, r, previous, t)
           Bad == {k \in 1..Len(q) : b[k] # a[k]}
<1>1. ASSUME NEW k \in 1..Len(q), k # 1 => b[k-1] = a[k-1]
      PROVE  b[k] = a[k]
  <2>1. k \in 1..Len(r) /\ F[r[k]] = E[q[k]]
    <3>1. k \in 1..Len(r)
      BY <1>0
    <3> QED
      BY Zenon, <1>0, <3>1
  <2>2. a[k] = PostAt(E[q[k]], IF k = 1 THEN previous ELSE a[k-1], t)
    BY <1>0, ProjectionUnfolds
  <2>3. b[k] = PostAt(F[r[k]], IF k = 1 THEN previous ELSE b[k-1], t)
    BY <1>0, <2>1, ProjectionUnfolds
  <2> HIDE DEF a, b
  <2>4. (IF k = 1 THEN previous ELSE a[k-1]) = (IF k = 1 THEN previous ELSE b[k-1])
    BY Zenon, <1>1
  <2> QED
    BY Zenon, <2>1, <2>2, <2>3, <2>4
<1> HIDE DEF a, b
<1>2. ASSUME Bad # {}
      PROVE  FALSE
  <2>1. PICK k \in Bad : \A i \in Bad : k <= i
    <3>1. Bad \subseteq Nat
      BY <1>0
    <3> QED
      BY Zenon, <1>2, <3>1, Least
  <2>2. k # 1 => k - 1 \in 1..Len(q) /\ ~(k <= k - 1)
    BY <1>0, <2>1
  <2> QED
    BY Zenon, <1>1, <2>1, <2>2
<1> QED
  BY Zenon, <1>2 DEF a, b, SameTime

\* put appends, unless the tail's key is the last there is.
LEMMA PutAppends ==
  ASSUME ScheduleInv, ScheduleInv', NEW id, NEW e, Enqueued(id, e), entries[id] = NoEntry,
         schedule.queue = << >> \/ entries[Last(schedule.queue)].order < MaxOrder
  PROVE  /\ schedule'.queue = Append(schedule.queue, id)
         /\ \A x \in Pending(entries) : entries'[x] = entries[x]
<1> DEFINE q == schedule.queue
           P == Pending(entries)
<1>1. Typed(entries) /\ Arranged(entries, q, P)
  BY Zenon, QueueIsArranged
<1>2. Keys(entries') /\ Arranged(entries', schedule'.queue, Pending(entries'))
  BY Zenon, QueueIsArrangedNext
<1>3. id \in Ids /\ e # NoEntry /\ entries' = [entries EXCEPT ![id] = e]
  BY Zenon, StoredIsSome DEF Enqueued
<1>4. entries'[id] = e /\ \A x \in P : entries'[x] = entries[x]
  BY <1>1, <1>3 DEF Typed, Pending
<1>5. Pending(entries') = P \cup {id}
  BY <1>1, <1>3 DEF Typed, Pending
<1>6. ASSUME NEW x \in P PROVE Before(entries', x, id)
  <2>1. q # << >> /\ entries[x].order <= entries[Last(q)].order /\ Last(q) \in P
    BY Zenon, EndsBound, QueueEnds
  <2>2. entries[x].order \in Int /\ entries[Last(q)].order \in Int
    BY Zenon, <1>1, <2>1, EntryFields
  <2>3. entries[Last(q)].order < MaxOrder
    BY Zenon, <2>1
  <2>4. e.order = OrderAfterTail(q)
    BY Zenon DEF Enqueued
  <2>5. e.order = entries[Last(q)].order + 1
    <3>1. entries[Last(q)].order # MaxOrder
      BY <2>2, <2>3, ScheduleAssumption
    <3> QED
      BY Zenon, <2>1, <2>4, <3>1 DEF OrderAfterTail
  <2>6. entries[x].order < e.order
    BY <2>1, <2>2, <2>5
  <2> QED
    BY Zenon, <1>4, <2>6 DEF Before
<1>7. Arranged(entries', q, P)
  <2>1. \A x \in P : SameKey(entries, entries', x)
    BY Zenon, <1>4 DEF SameKey
  <2> QED
    BY Zenon, <1>1, <2>1, ArrangedByKeys
<1>8. Arranged(entries', Append(q, id), Pending(entries'))
  <2> HIDE DEF q, P
  <2>1. \A x \in P : Before(entries', x, id)
    BY Zenon, <1>6
  <2>2. Arranged(entries', Append(q, id), P \cup {id})
    BY Zenon, <1>7, <2>1, ArrangedAppend
  <2> QED
    BY Zenon, <1>5, <2>2
<1>9. schedule'.queue = Append(q, id)
  BY Zenon, <1>2, <1>8, ArrangedIsUnique
<1> QED
  BY Zenon, <1>4, <1>9

\* put answers with the time list shows, and changes no other.
LEMMA PutKeepsTimes ==
  ASSUME ScheduleInv, ScheduleInv', NEW id, NEW e, Enqueued(id, e), entries[id] = NoEntry,
         schedule.queue = << >> \/ entries[Last(schedule.queue)].order < MaxOrder
  PROVE  /\ schedule'.at = ProjectedSchedule(entries', Append(schedule.queue, id),
                              PreviousActivity(lastPost, lastAttempt), now)
         /\ \A other \in Pending(entries) : schedule'.at[other] = schedule.at[other]
<1> DEFINE q == schedule.queue
           r == schedule'.queue
           previous == PreviousActivity(lastPost, lastAttempt)
<1>1. /\ Typed(entries) /\ IsFiniteSet(Pending(entries)) /\ q = PostingOrder(entries)
      /\ schedule.at = ProjectedSchedule(entries, q, previous, now)
      /\ Arranged(entries, q, Pending(entries))
  BY Zenon, QueueIsArranged
<1>2. /\ Typed(entries') /\ IsFiniteSet(Pending(entries')) /\ r = PostingOrder(entries')
      /\ schedule'.at = ProjectedSchedule(entries', r,
                           PreviousActivity(lastPost', lastAttempt'), now')
  BY Zenon, QueueIsArrangedNext
<1>3. now' = now /\ lastPost' = lastPost /\ lastAttempt' = lastAttempt
  BY DEF Enqueued
<1>4. schedule'.at = ProjectedSchedule(entries', r, previous, now)
  BY Zenon, <1>2, <1>3
<1>5. r = Append(q, id) /\ \A x \in Pending(entries) : entries'[x] = entries[x]
  BY Zenon, PutAppends
<1>6. q \in Seq(Pending(entries)) /\ Len(q) \in Nat /\ \A k \in 1..Len(q) : q[k] \in Pending(entries)
  BY Zenon, <1>1, ArrangedMembers
<1> HIDE DEF q, r, previous
<1>7. Len(r) \in Nat /\ Len(q) <= Len(r) /\ \A k \in 1..Len(q) : k \in 1..Len(r) /\ r[k] = q[k]
  BY <1>5, <1>6
<1>8. ASSUME NEW k \in 1..Len(q)
      PROVE  schedule'.at[q[k]] = schedule.at[q[k]]
  <2>1. schedule.at[q[k]] = Projection(entries, q, previous, now)[k]
    <3>1. HasTime(entries, q, previous, now, k)
      BY Zenon, <1>1, TimeOf
    <3> QED
      BY Zenon, <1>1, <3>1 DEF HasTime
  <2>2. schedule'.at[q[k]] = Projection(entries', r, previous, now)[k]
    <3>1. k \in 1..Len(r) /\ r[k] = q[k]
      BY Zenon, <1>7
    <3>2. HasTime(entries', r, previous, now, k)
      BY Zenon, <1>2, <3>1, TimeOf
    <3> QED
      BY Zenon, <1>4, <3>1, <3>2 DEF HasTime
  <2>3. Projection(entries', r, previous, now)[k] = Projection(entries, q, previous, now)[k]
    <3>1. BeginsAlike(entries, entries', q, r)
      BY Zenon, <1>5, <1>6, <1>7 DEF BeginsAlike
    <3>2. SameTime(entries, entries', q, r, previous, now, k)
      BY Zenon, <3>1, PrefixProjects
    <3> QED
      BY Zenon, <3>2 DEF SameTime
  <2> QED
    BY Zenon, <2>1, <2>2, <2>3
<1>9. ASSUME NEW other \in Pending(entries) PROVE schedule'.at[other] = schedule.at[other]
  <2>1. PICK k \in 1..Len(q) : q[k] = other
    BY Zenon, <1>1 DEF Arranged
  <2> QED
    BY Zenon, <1>8, <2>1
<1> QED
  BY Zenon, <1>4, <1>5, <1>9 DEF q, r, previous

\* put, through OrderAfterTail, keeps every time already announced and
\* announces the one projected_schedule gives its entry at the tail.
THEOREM PutsKeepPromises == Spec => PutKeepsPromises
<1>1. ASSUME ScheduleInv, [Next]_vars,
             NEW id \in Pending(entries') \ Pending(entries),
             schedule.queue = << >> \/ entries[Last(schedule.queue)].order < MaxOrder
      PROVE  /\ schedule'.at = ProjectedSchedule(entries', Append(schedule.queue, id),
                                  PreviousActivity(lastPost, lastAttempt), now)
             /\ \A other \in Pending(entries) : schedule'.at[other] = schedule.at[other]
  <2>1. ScheduleInv'
    BY Zenon, <1>1, ScheduleInvStep
  <2>2. PICK e : Enqueued(id, e)
    BY Zenon, <1>1, NewEntries
  <2>3. entries[id] = NoEntry
    BY Zenon, <2>2 DEF Pending, Enqueued
  <2> QED
    BY Zenon, <1>1, <2>1, <2>2, <2>3, PutKeepsTimes
<1> DEFINE Step ==
      \A id \in Pending(entries') \ Pending(entries) :
       LET q == schedule.queue IN
       q = << >> \/ entries[Last(q)].order < MaxOrder =>
         /\ schedule'.at = ProjectedSchedule(entries', Append(q, id),
                              PreviousActivity(lastPost, lastAttempt), now)
         /\ \A other \in Pending(entries) : schedule'.at[other] = schedule.at[other]
<1>2. ScheduleInv /\ [Next]_vars => [Step]_vars
  BY Zenon, <1>1
<1> QED
  BY <1>2, ScheduleInvHolds, PTL DEF Spec, PutKeepsPromises
-----------------------------------------------------------------------------
(* Moving one entry.                                                       *)

\* How the queue may change when one entry moves.
OthersStay(id) == Without(schedule'.queue, id) = Without(schedule.queue, id)
GoesToHead(id) == schedule'.queue = <<id>> \o Without(schedule.queue, id)
GoesToTail(id) == schedule'.queue = Append(Without(schedule.queue, id), id)

LEMMA ReorderMoves ==
  ASSUME ScheduleInv, ScheduleInv', NEW id \in Ids, NEW order \in MinOrder..MaxOrder,
         Reorder(id, order)
  PROVE  /\ OthersStay(id)
         /\ (\A x \in Pending(entries) : order < entries[x].order) => GoesToHead(id)
         /\ (\A x \in Pending(entries) : entries[x].order < order) => GoesToTail(id)
<1> DEFINE q == schedule.queue
           r == schedule'.queue
           P == Pending(entries)
           others == P \ {id}
<1>1. Keys(entries) /\ Arranged(entries, q, P)
  BY Zenon, QueueIsArranged
<1>2. Keys(entries') /\ Arranged(entries', r, Pending(entries'))
  BY Zenon, QueueIsArrangedNext
<1>3. /\ id \in P /\ Pending(entries') = P /\ entries'[id].order = order
      /\ \A x \in Ids \ {id} : entries'[x] = entries[x]
  BY Zenon, ReorderWrites
<1>4. /\ others \subseteq P /\ P = others \cup {id}
      /\ \A x \in others : x \in P /\ entries'[x] = entries[x]
  BY <1>3 DEF Pending
<1> HIDE DEF P
<1>5. Arranged(entries, Without(q, id), others)
  BY Zenon, <1>1, <1>3, ArrangedWithout DEF P
<1>6. Arranged(entries', Without(q, id), others)
  <2>1. \A x \in others : SameKey(entries, entries', x)
    BY Zenon, <1>4 DEF SameKey
  <2> HIDE DEF others
  <2> QED
    BY Zenon, <1>5, <2>1, ArrangedByKeys
<1>7. Arranged(entries', r, P)
  BY Zenon, <1>2, <1>3
<1>8. Arranged(entries', Without(r, id), others)
  BY Zenon, <1>2, <1>3, <1>7, ArrangedWithout
<1> HIDE DEF q, r, others
<1>9. OthersStay(id)
  <2>1. Without(r, id) = Without(q, id)
    BY <1>2, <1>3, <1>4, <1>6, <1>8, ArrangedIsUnique
  <2> QED
    BY Zenon, <2>1 DEF OthersStay, q, r
<1>10. ASSUME \A x \in P : order < entries[x].order
       PROVE  GoesToHead(id)
  <2>1. \A x \in others : Before(entries', id, x)
    BY Zenon, <1>3, <1>4, <1>10 DEF Before
  <2>2. Arranged(entries', <<id>> \o Without(q, id), P)
    BY Zenon, <1>4, <1>6, <2>1, ArrangedPrepend
  <2>3. r = <<id>> \o Without(q, id)
    BY Zenon, <1>2, <1>3, <1>7, <2>2, ArrangedIsUnique
  <2> QED
    BY Zenon, <2>3 DEF GoesToHead, q, r
<1>11. ASSUME \A x \in P : entries[x].order < order
       PROVE  GoesToTail(id)
  <2>1. \A x \in others : Before(entries', x, id)
    BY Zenon, <1>3, <1>4, <1>11 DEF Before
  <2>2. Arranged(entries', Append(Without(q, id), id), P)
    BY Zenon, <1>4, <1>6, <2>1, ArrangedAppend
  <2>3. r = Append(Without(q, id), id)
    BY Zenon, <1>2, <1>3, <1>7, <2>2, ArrangedIsUnique
  <2> QED
    BY Zenon, <2>3 DEF GoesToTail, q, r
<1> QED
  BY Zenon, <1>9, <1>10, <1>11 DEF P

\* What MovesOne says of an entry.
Moved(id) ==
  /\ OthersStay(id)
  /\ \/ GoesToHead(id)
     \/ entries[Head(schedule.queue)].order = MinOrder
     \/ entries'[id].order > entries[id].order
  /\ \/ GoesToTail(id)
     \/ entries[Last(schedule.queue)].order = MaxOrder
     \/ entries'[id].order < entries[id].order

LEMMA BumpMoves ==
  ASSUME ScheduleInv, ScheduleInv', NEW id \in Ids, Bump(id),
         entries'[id].order # entries[id].order
  PROVE  Moved(id)
<1> DEFINE q == schedule.queue
           h == entries[Head(q)].order
           order == OrderBeforeHead(q)
<1>1. Typed(entries) /\ id \in Pending(entries)
  BY Zenon, QueueIsArranged DEF Bump, Pending
<1>2. entries[id].order \in MinOrder..MaxOrder
  BY Zenon, <1>1, EntryFields
<1>3. Reorder(id, order) /\ order \in MinOrder..MaxOrder
  <2>1. order \in MinOrder..MaxOrder
    BY <1>1, KeysSaturate
  <2>2. CASE Head(q) = id
    <3>1. Reorder(id, entries[id].order)
      BY Zenon, <2>2 DEF Bump
    <3>2. entries'[id].order = entries[id].order
      BY Zenon, <1>2, <3>1, ReorderWrites
    <3> QED
      BY Zenon, <3>2
  <2>3. CASE Head(q) # id
    BY Zenon, <2>1, <2>3 DEF Bump
  <2> QED
    BY Zenon, <2>2, <2>3
<1>4. entries'[id].order = order
  BY Zenon, <1>3, ReorderWrites
<1>5. /\ OthersStay(id)
      /\ (\A x \in Pending(entries) : order < entries[x].order) => GoesToHead(id)
  BY Zenon, <1>3, ReorderMoves
<1>6. /\ \A x \in Pending(entries) : h <= entries[x].order /\ entries[x].order \in Int
      /\ h \in MinOrder..MaxOrder
  BY Zenon, <1>1, QueueEnds, EndsBound, EntryFields
<1>7. MinOrder \in Int /\ MaxOrder \in Int
  BY ScheduleAssumption DEF MinOrder
<1>8. order = IF h = MinOrder THEN MinOrder ELSE h - 1
  BY Zenon DEF OrderBeforeHead
<1> HIDE DEF h, order
<1>9. order < entries[id].order
  BY <1>1, <1>2, <1>4, <1>6, <1>7, <1>8
<1>10. h # MinOrder => \A x \in Pending(entries) : order < entries[x].order
  BY <1>6, <1>7, <1>8
<1> QED
  BY Zenon, <1>4, <1>5, <1>9, <1>10 DEF Moved, h

LEMMA BustMoves ==
  ASSUME ScheduleInv, ScheduleInv', NEW id \in Ids, Bust(id),
         entries'[id].order # entries[id].order
  PROVE  Moved(id)
<1> DEFINE q == schedule.queue
           l == entries[Last(q)].order
           order == OrderAfterTail(q)
<1>1. Typed(entries) /\ id \in Pending(entries)
  BY Zenon, QueueIsArranged DEF Bust, Pending
<1>2. entries[id].order \in MinOrder..MaxOrder
  BY Zenon, <1>1, EntryFields
<1>3. Reorder(id, order) /\ order \in MinOrder..MaxOrder
  <2>1. order \in MinOrder..MaxOrder
    BY <1>1, KeysSaturate
  <2>2. CASE Last(q) = id
    <3>1. Reorder(id, entries[id].order)
      BY Zenon, <2>2 DEF Bust
    <3>2. entries'[id].order = entries[id].order
      BY Zenon, <1>2, <3>1, ReorderWrites
    <3> QED
      BY Zenon, <3>2
  <2>3. CASE Last(q) # id
    BY Zenon, <2>1, <2>3 DEF Bust
  <2> QED
    BY Zenon, <2>2, <2>3
<1>4. entries'[id].order = order
  BY Zenon, <1>3, ReorderWrites
<1>5. /\ OthersStay(id)
      /\ (\A x \in Pending(entries) : entries[x].order < order) => GoesToTail(id)
  BY Zenon, <1>3, ReorderMoves
<1>6. /\ \A x \in Pending(entries) : entries[x].order <= l /\ entries[x].order \in Int
      /\ l \in MinOrder..MaxOrder /\ q # << >>
  BY Zenon, <1>1, QueueEnds, EndsBound, EntryFields
<1>7. MinOrder \in Int /\ MaxOrder \in Int
  BY ScheduleAssumption DEF MinOrder
<1>8. order = IF l = MaxOrder THEN MaxOrder ELSE l + 1
  BY Zenon, <1>6 DEF OrderAfterTail
<1> HIDE DEF l, order
<1>9. order > entries[id].order
  BY <1>1, <1>2, <1>4, <1>6, <1>7, <1>8
<1>10. l # MaxOrder => \A x \in Pending(entries) : entries[x].order < order
  BY <1>6, <1>7, <1>8
<1> QED
  BY Zenon, <1>4, <1>5, <1>9, <1>10 DEF Moved, l

\* bump and bust, through OrderBeforeHead and OrderAfterTail, move the one
\* entry they name; no other step changes an order key.
THEOREM BumpAndBustMoveOne == Spec => MovesOne
<1> DEFINE Step ==
      \A id \in Pending(entries) \cap Pending(entries') :
       entries'[id].order # entries[id].order =>
         LET q == schedule.queue
             moved == schedule'.queue
             rest == Without(q, id)
         IN /\ Without(moved, id) = rest
            /\ \/ moved = <<id>> \o rest
               \/ entries[Head(q)].order = MinOrder
               \/ entries'[id].order > entries[id].order
            /\ \/ moved = Append(rest, id)
               \/ entries[Last(q)].order = MaxOrder
               \/ entries'[id].order < entries[id].order
<1>1. ASSUME ScheduleInv, [Next]_vars, NEW id \in Pending(entries) \cap Pending(entries'),
             entries'[id].order # entries[id].order
      PROVE  Moved(id)
  <2>1. ScheduleInv' /\ id \in Ids
    BY Zenon, <1>1, ScheduleInvStep DEF Pending
  <2>2. Bump(id) \/ Bust(id)
    BY Zenon, <1>1, KeyChanges
  <2> QED
    BY Zenon, <1>1, <2>1, <2>2, BumpMoves, BustMoves
<1>2. ScheduleInv /\ [Next]_vars => [Step]_vars
  BY Zenon, <1>1 DEF Moved, OthersStay, GoesToHead, GoesToTail
<1> QED
  BY <1>2, ScheduleInvHolds, PTL DEF Spec, MovesOne
-----------------------------------------------------------------------------
(* Announced times.                                                        *)

Seconds == Nat \cup {NoTime}

LEMMA PostAtWaits ==
  ASSUME NEW e, e.flutter \in Nat, e.notBefore \in Nat, NEW previous \in Seconds, NEW t \in Nat
  PROVE  PostAt(e, previous, t) \in Nat /\ previous <= PostAt(e, previous, t)
  BY ScheduleAssumption DEF PostAt, Latest, NoTime, Seconds

\* The later the predecessor and the clock, the later the post.
LEMMA PostAtGrows ==
  ASSUME NEW e, e.flutter \in Nat, e.notBefore \in Nat, NEW f, Keeps(e, f),
         NEW p \in Seconds, NEW o \in Seconds, p <= o, NEW t \in Nat, NEW u \in Nat, t <= u
  PROVE  PostAt(e, p, t) <= PostAt(f, o, u)
<1>1. f.flutter = e.flutter /\ f.notBefore = e.notBefore
  BY Zenon DEF Keeps
<1>2. Cooldown \in Nat
  BY Zenon, ScheduleAssumption
<1>3. CASE p = NoTime
  <2>1. CASE o = NoTime
    BY <1>1, <1>2, <1>3, <2>1 DEF PostAt, Latest
  <2>2. CASE o # NoTime
    BY <1>1, <1>2, <1>3, <2>2 DEF PostAt, Latest, NoTime, Seconds
  <2> QED
    BY Zenon, <2>1, <2>2
<1>4. CASE p # NoTime
  <2>1. p \in Nat /\ o \in Nat /\ o # NoTime
    BY <1>4 DEF NoTime, Seconds
  <2> QED
    BY <1>1, <1>2, <1>4, <2>1 DEF PostAt, Latest
<1> QED
  BY Zenon, <1>3, <1>4

\* What the k-th entry waits for.
Awaited(E, q, previous, t, k) ==
  IF k = 1 THEN previous ELSE Projection(E, q, previous, t)[k - 1]

PlaceIs(E, q, previous, t, k) ==
  /\ Awaited(E, q, previous, t, k) \in Seconds
  /\ Projection(E, q, previous, t)[k] = PostAt(E[q[k]], Awaited(E, q, previous, t, k), t)
  /\ Projection(E, q, previous, t)[k] \in Nat
  /\ Awaited(E, q, previous, t, k) <= Projection(E, q, previous, t)[k]

LEMMA PlaceWaits ==
  ASSUME NEW E, Typed(E), NEW q \in Seq(Pending(E)), NEW previous \in Seconds, NEW t \in Nat,
         NEW k \in 1..Len(q)
  PROVE  PlaceIs(E, q, previous, t, k)
<1> DEFINE at == Projection(E, q, previous, t)
           w == Awaited(E, q, previous, t, k)
<1>1. Len(q) \in Nat /\ q[k] \in Pending(E)
  OBVIOUS
<1>2. at[k] = PostAt(E[q[k]], w, t)
  BY <1>1, ProjectionUnfolds DEF Awaited
<1>3. \A j \in 1..Len(q) : at[j] \in Nat
  BY Zenon, ProjectionType DEF Seconds
<1>4. w \in Seconds
  <2>1. CASE k = 1
    BY Zenon, <2>1 DEF Awaited
  <2>2. CASE k # 1
    <3>1. k - 1 \in 1..Len(q)
      BY <1>1, <2>2
    <3>2. w = at[k - 1]
      BY Zenon, <2>2 DEF Awaited
    <3> QED
      BY Zenon, <1>3, <3>1, <3>2 DEF Seconds
  <2> QED
    BY Zenon, <2>1, <2>2
<1> HIDE DEF at, w
<1>5. E[q[k]].flutter \in Nat /\ E[q[k]].notBefore \in Nat
  BY Zenon, <1>1, EntryFields
<1>6. PostAt(E[q[k]], w, t) \in Nat /\ w <= PostAt(E[q[k]], w, t)
  BY Zenon, <1>4, <1>5, PostAtWaits
<1> QED
  BY Zenon, <1>2, <1>4, <1>6 DEF PlaceIs, at, w

\* Each entry posts no sooner than those before it, and than what the first
\* waited for.
LEMMA PlacesGrow ==
  ASSUME NEW E, Typed(E), NEW q \in Seq(Pending(E)), NEW previous \in Seconds, NEW t \in Nat,
         NEW k \in 1..Len(q)
  PROVE  /\ previous <= Awaited(E, q, previous, t, k)
         /\ \A j \in 1..Len(q) : j < k =>
              Projection(E, q, previous, t)[j] <= Awaited(E, q, previous, t, k)
<1> DEFINE at == Projection(E, q, previous, t)
           W(i) == Awaited(E, q, previous, t, i)
           Fine(i) == previous <= W(i) /\ \A j \in 1..Len(q) : j < i => at[j] <= W(i)
           Bad == {i \in 1..Len(q) : ~Fine(i)}
<1>1. Len(q) \in Nat
  OBVIOUS
<1>2. \A i \in 1..Len(q) : W(i) \in Seconds /\ at[i] \in Nat /\ W(i) <= at[i]
  BY Zenon, PlaceWaits DEF PlaceIs
<1>3. W(1) = previous /\ \A i \in 1..Len(q) : i # 1 => W(i) = at[i - 1]
  BY Zenon DEF Awaited
<1> HIDE DEF at, W
<1>4. ASSUME NEW i \in 1..Len(q), i # 1 => Fine(i - 1)
      PROVE  Fine(i)
  <2>1. CASE i = 1
    <3>1. previous <= previous /\ \A j \in 1..Len(q) : ~(j < i)
      BY <1>1, <2>1 DEF Seconds, NoTime
    <3> QED
      BY Zenon, <1>3, <2>1, <3>1
  <2>2. CASE i # 1
    <3>1. /\ i - 1 \in 1..Len(q) /\ W(i) = at[i - 1]
          /\ W(i - 1) \in Seconds /\ at[i - 1] \in Nat /\ W(i - 1) <= at[i - 1]
      <4>1. i - 1 \in 1..Len(q)
        BY <1>1, <2>2
      <4> QED
        BY Zenon, <1>2, <1>3, <2>2, <4>1
    <3>2. previous <= W(i)
      <4>1. previous <= W(i - 1)
        BY Zenon, <1>4, <2>2
      <4> QED
        BY <3>1, <4>1 DEF Seconds, NoTime
    <3>3. ASSUME NEW j \in 1..Len(q), j < i
          PROVE  at[j] <= W(i)
      <4>1. j = i - 1 \/ j < i - 1
        BY <1>1, <3>3
      <4>2. at[j] \in Nat
        BY Zenon, <1>2
      <4>3. CASE j = i - 1
        <5>1. at[j] <= at[j]
          BY <4>2
        <5> QED
          BY Zenon, <3>1, <4>3, <5>1
      <4>4. CASE j < i - 1
        <5>1. at[j] <= W(i - 1)
          BY Zenon, <1>4, <2>2, <4>4
        <5> QED
          BY <3>1, <4>2, <5>1 DEF Seconds, NoTime
      <4> QED
        BY Zenon, <4>1, <4>3, <4>4
    <3> QED
      BY Zenon, <3>2, <3>3
  <2> QED
    BY Zenon, <2>1, <2>2
<1> HIDE DEF Fine
<1>5. ASSUME Bad # {} PROVE FALSE
  <2>1. PICK i \in Bad : \A j \in Bad : i <= j
    <3>1. Bad \subseteq Nat
      BY <1>1
    <3> QED
      BY Zenon, <1>5, <3>1, Least
  <2>2. i # 1 => i - 1 \in 1..Len(q) /\ ~(i <= i - 1)
    BY <1>1, <2>1
  <2> QED
    BY Zenon, <1>4, <2>1, <2>2
<1>6. Fine(k)
  BY Zenon, <1>5
<1> QED
  BY Zenon, <1>6 DEF Fine, at, W

\* From the entries E and the previous activity p to F and o: every entry that
\* survives keeps its place among the survivors, and none leaves but the first,
\* whose time o makes up for.
Delays(E, F, q, r, p, o, t, u) ==
  /\ Typed(E) /\ Arranged(E, q, Pending(E))
  /\ Typed(F) /\ Arranged(F, r, Pending(F))
  /\ p \in Seconds /\ o \in Seconds /\ p <= o
  /\ t \in Nat /\ u \in Nat /\ t <= u
  /\ \A id \in Pending(E) \cap Pending(F) : Keeps(E[id], F[id]) /\ F[id].order = E[id].order
  /\ \A id \in Pending(E) \ Pending(F) : id = q[1] /\ Projection(E, q, p, t)[1] <= o

\* What an entry that survives waits for comes no sooner.
LEMMA AwaitedSlips ==
  ASSUME NEW E, NEW F, NEW q, NEW r, NEW p, NEW o, NEW t, NEW u, Delays(E, F, q, r, p, o, t, u),
         NEW k \in 1..Len(q), NEW m \in 1..Len(r), r[m] = q[k],
         \A j \in 1..Len(q), i \in 1..Len(r) : j < k /\ r[i] = q[j] =>
           Projection(E, q, p, t)[j] <= Projection(F, r, o, u)[i]
  PROVE  Awaited(E, q, p, t, k) <= Awaited(F, r, o, u, m)
<1> DEFINE a == Projection(E, q, p, t)
           b == Projection(F, r, o, u)
           v == Awaited(E, q, p, t, k)
           w == Awaited(F, r, o, u, m)
<1>1. /\ Typed(E) /\ Keys(E) /\ Arranged(E, q, Pending(E))
      /\ Typed(F) /\ Keys(F) /\ Arranged(F, r, Pending(F))
      /\ p \in Seconds /\ o \in Seconds /\ p <= o /\ t \in Nat /\ u \in Nat
  BY Zenon, TypedKeys DEF Delays
<1>2. /\ q \in Seq(Pending(E)) /\ Len(q) \in Nat /\ \A j \in 1..Len(q) : q[j] \in Pending(E)
      /\ r \in Seq(Pending(F)) /\ Len(r) \in Nat /\ \A i \in 1..Len(r) : r[i] \in Pending(F)
  BY Zenon, <1>1, ArrangedMembers
<1>3. /\ w \in Seconds /\ o <= w
      /\ \A i \in 1..Len(r) : b[i] \in Nat /\ (i < m => b[i] <= w)
      /\ \A j \in 1..Len(q) : a[j] \in Nat
  <2>1. w \in Seconds /\ \A i \in 1..Len(r) : b[i] \in Nat
    BY Zenon, <1>1, <1>2, PlaceWaits DEF PlaceIs
  <2>2. o <= w /\ \A i \in 1..Len(r) : i < m => b[i] <= w
    BY Zenon, <1>1, <1>2, PlacesGrow
  <2>3. \A j \in 1..Len(q) : a[j] \in Nat
    BY Zenon, <1>1, <1>2, PlaceWaits DEF PlaceIs
  <2> QED
    BY Zenon, <2>1, <2>2, <2>3
<1>4. CASE k = 1
  <2>1. v = p
    BY Zenon, <1>4 DEF Awaited
  <2> HIDE DEF v, w
  <2>2. p <= w
    BY <1>1, <1>3 DEF Seconds, NoTime
  <2> QED
    BY Zenon, <2>1, <2>2 DEF v, w
<1>5. CASE k # 1
  <2> DEFINE j == k - 1
             x == q[j]
  <2>1. j \in 1..Len(q) /\ j < k /\ x \in Pending(E)
    <3>1. j \in 1..Len(q) /\ j < k
      BY <1>2, <1>5
    <3> QED
      BY Zenon, <1>2, <3>1
  <2>2. v = a[j]
    BY Zenon, <1>5 DEF Awaited
  <2> HIDE DEF a, b, v, w, j
  <2>3. CASE x \in Pending(F)
    <3>1. PICK i \in 1..Len(r) : r[i] = x
      BY Zenon, <1>1, <2>3 DEF Arranged
    <3>2. Before(E, x, q[k])
      BY Zenon, <1>1, <2>1 DEF Arranged
    <3>3. SameKey(E, F, x) /\ SameKey(E, F, q[k])
      <4>1. q[k] \in Pending(E) \cap Pending(F) /\ x \in Pending(E) \cap Pending(F)
        BY Zenon, <1>2, <2>1, <2>3
      <4> QED
        BY Zenon, <4>1 DEF Delays, Keeps, SameKey
    <3>4. Before(F, r[i], r[m])
      BY Zenon, <3>1, <3>2, <3>3 DEF Before, SameKey
    <3>5. i < m
      BY Zenon, <1>1, <3>4, ArrangedPlaces
    <3>6. a[j] <= b[i]
      BY Zenon, <2>1, <3>1 DEF a, b
    <3>7. a[j] \in Nat /\ b[i] \in Nat /\ b[i] <= w
      BY Zenon, <1>3, <2>1, <3>5
    <3>8. a[j] <= w
      BY <1>3, <3>6, <3>7 DEF Seconds, NoTime
    <3> QED
      BY Zenon, <2>2, <3>8 DEF v, w
  <2>4. CASE x \notin Pending(F)
    <3>1. q[j] = q[1] /\ a[1] <= o
      BY Zenon, <2>1, <2>4 DEF Delays, a
    <3>2. 1 \in 1..Len(q)
      BY <1>2
    <3>3. j = 1
      <4>1. 1 < j => Before(E, x, x)
        BY Zenon, <1>1, <2>1, <3>1, <3>2 DEF Arranged
      <4>2. ~Before(E, x, x)
        BY Zenon, <1>1, <2>1, BeforeIsTotal
      <4>3. ~(1 < j)
        BY Zenon, <4>1, <4>2
      <4> QED
        BY <2>1, <4>3
    <3>4. a[1] \in Nat
      BY Zenon, <1>3, <3>2
    <3>5. a[1] <= w
      BY <1>1, <1>3, <3>1, <3>4 DEF Seconds, NoTime
    <3> QED
      BY Zenon, <2>2, <3>3, <3>5 DEF v, w
  <2> QED
    BY Zenon, <2>3, <2>4
<1> QED
  BY Zenon, <1>4, <1>5

LEMMA PlacesSlip ==
  ASSUME NEW E, NEW F, NEW q, NEW r, NEW p, NEW o, NEW t, NEW u, Delays(E, F, q, r, p, o, t, u),
         NEW k \in 1..Len(q), NEW m \in 1..Len(r), r[m] = q[k],
         Awaited(E, q, p, t, k) <= Awaited(F, r, o, u, m)
  PROVE  Projection(E, q, p, t)[k] <= Projection(F, r, o, u)[m]
<1> DEFINE v == Awaited(E, q, p, t, k)
           w == Awaited(F, r, o, u, m)
           x == q[k]
<1>1. /\ Typed(E) /\ Arranged(E, q, Pending(E)) /\ Typed(F) /\ Arranged(F, r, Pending(F))
      /\ p \in Seconds /\ o \in Seconds /\ t \in Nat /\ u \in Nat /\ t <= u
  BY Zenon DEF Delays
<1>2. q \in Seq(Pending(E)) /\ r \in Seq(Pending(F)) /\ x \in Pending(E) /\ r[m] \in Pending(F)
  BY Zenon, <1>1, ArrangedMembers
<1>3. PlaceIs(E, q, p, t, k) /\ PlaceIs(F, r, o, u, m)
  BY Zenon, <1>1, <1>2, PlaceWaits
<1>4. /\ Projection(E, q, p, t)[k] = PostAt(E[x], v, t) /\ v \in Seconds
      /\ Projection(F, r, o, u)[m] = PostAt(F[x], w, u) /\ w \in Seconds
  BY Zenon, <1>3 DEF PlaceIs
<1>5. Keeps(E[x], F[x]) /\ E[x].flutter \in Nat /\ E[x].notBefore \in Nat
  <2>1. x \in Pending(E) \cap Pending(F)
    BY Zenon, <1>2
  <2>2. Keeps(E[x], F[x])
    BY Zenon, <2>1 DEF Delays
  <2> QED
    BY Zenon, <1>1, <1>2, <2>2, EntryFields
<1> HIDE DEF v, w, x
<1>6. PostAt(E[x], v, t) <= PostAt(F[x], w, u)
  <2>1. v <= w
    BY Zenon DEF v, w
  <2> QED
    BY Zenon, <1>1, <1>4, <1>5, <2>1, PostAtGrows
<1> QED
  BY Zenon, <1>4, <1>6

\* The entries that survive post no sooner.
LEMMA TimesSlip ==
  ASSUME NEW E, NEW F, NEW q, NEW r, NEW p, NEW o, NEW t, NEW u, Delays(E, F, q, r, p, o, t, u),
         NEW n \in 1..Len(q), NEW m \in 1..Len(r), r[m] = q[n]
  PROVE  Projection(E, q, p, t)[n] <= Projection(F, r, o, u)[m]
<1> DEFINE a == Projection(E, q, p, t)
           b == Projection(F, r, o, u)
           Early(k) == \E i \in 1..Len(r) : r[i] = q[k] /\ ~(a[k] <= b[i])
           Bad == {k \in 1..Len(q) : Early(k)}
<1>1. ASSUME Bad # {} PROVE FALSE
  <2>1. Len(q) \in Nat
    BY Zenon, ArrangedMembers DEF Delays
  <2>2. PICK k \in Bad : \A j \in Bad : k <= j
    <3>1. Bad \subseteq Nat
      BY <2>1
    <3> QED
      BY Zenon, <1>1, <3>1, Least
  <2>3. PICK i \in 1..Len(r) : r[i] = q[k] /\ ~(a[k] <= b[i])
    BY Zenon, <2>2
  <2>4. ASSUME NEW j \in 1..Len(q), NEW l \in 1..Len(r), j < k, r[l] = q[j]
        PROVE  a[j] <= b[l]
    <3>1. ~(k <= j)
      BY <2>1, <2>2, <2>4
    <3> QED
      BY Zenon, <2>2, <2>4, <3>1
  <2>5. k \in 1..Len(q)
    BY Zenon, <2>2
  <2>6. Awaited(E, q, p, t, k) <= Awaited(F, r, o, u, i)
    BY Zenon, <2>3, <2>4, <2>5, AwaitedSlips
  <2>7. a[k] <= b[i]
    BY Zenon, <2>3, <2>5, <2>6, PlacesSlip
  <2> QED
    BY Zenon, <2>3, <2>7
<1> QED
  BY Zenon, <1>1
-----------------------------------------------------------------------------
(* The attempt.                                                            *)

LEMMA Activity ==
  ASSUME ScheduleInv
  PROVE  /\ now \in Nat /\ Cooldown \in Nat
         /\ lastPost \in Seconds /\ lastAttempt \in Seconds /\ Journal \in Seconds
  BY ScheduleAssumption DEF ScheduleInv, ScheduleTypeOK, Seconds, Journal, NoTime

\* Time and the activity files never go back.
Onward ==
  /\ now <= now' /\ lastPost <= lastPost' /\ lastAttempt <= lastAttempt'

LEMMA LatestIs ==
  ASSUME NEW a \in Seconds, NEW b \in Seconds
  PROVE  /\ Latest(a, b) \in Seconds /\ a <= Latest(a, b) /\ b <= Latest(a, b)
         /\ \A c \in Seconds : a <= c /\ b <= c => Latest(a, b) <= c
  BY DEF Latest, Seconds, NoTime

\* The files take the time of the clock, or the one the journal kept.
LEMMA ActivityStep ==
  ASSUME ScheduleInv, ActivityIsPast, [Next]_vars
  PROVE  ActivityIsPast' /\ Onward
<1>1. /\ now \in Nat /\ Cooldown \in Nat /\ now \in Seconds
      /\ lastPost \in Seconds /\ lastAttempt \in Seconds /\ Journal \in Seconds
  BY Activity DEF Seconds
<1>2. /\ lastPost <= now /\ lastAttempt <= now
      /\ Journal # NoTime => lastPost <= Journal /\ Journal <= now
  BY Zenon DEF ActivityIsPast
<1>3. now <= now /\ lastPost <= lastPost /\ lastAttempt <= lastAttempt /\ Journal <= Journal
  BY <1>1 DEF Seconds
<1>4. lastAttempt <= Latest(lastAttempt, now) /\ Latest(lastAttempt, now) <= now
  BY Zenon, <1>1, <1>2, <1>3, LatestIs
<1>5. CASE UNCHANGED <<now, lastPost, lastAttempt, worker>>
  <2>1. Journal' = Journal
    BY <1>5 DEF Journal
  <2> QED
    BY Zenon, <1>2, <1>3, <1>5, <2>1 DEF ActivityIsPast, Onward
<1>6. CASE Claim \/ Cooled
  <2>1. Journal' = NoTime /\ now' = now /\ lastPost' = lastPost /\ lastAttempt' = lastAttempt
    BY <1>6 DEF Claim, Cooled, Idle, Journal
  <2> QED
    BY Zenon, <1>2, <1>3, <2>1 DEF ActivityIsPast, Onward
<1>7. CASE Complete \/ CompleteFails
  <2>1. /\ Journal' \in {now, NoTime} /\ lastPost' \in {lastPost, now}
        /\ now' = now /\ lastAttempt' = lastAttempt
    BY <1>7 DEF Complete, CompleteFails, Fails, Idle, Journal
  <2> QED
    BY Zenon, <1>2, <1>3, <2>1 DEF ActivityIsPast, Onward
<1>8. CASE Release \/ ReleaseFails
  <2>1. /\ Journal' = NoTime /\ now' = now /\ lastPost' = lastPost
        /\ lastAttempt' \in {lastAttempt, Latest(lastAttempt, now)}
    BY <1>8 DEF Release, ReleaseFails, Fails, Journal
  <2>2. lastAttempt' <= now /\ lastAttempt <= lastAttempt'
    BY Zenon, <1>2, <1>3, <1>4, <2>1
  <2> QED
    BY Zenon, <1>2, <1>3, <2>1, <2>2 DEF ActivityIsPast, Onward
<1>9. CASE Recover \/ Restart
  <2>1. /\ Journal' = NoTime /\ now' = now /\ lastAttempt' = lastAttempt
        /\ lastPost' = IF Journal = NoTime THEN lastPost ELSE Journal
    BY <1>9 DEF Recover, Restart, Recovered, Idle, Journal
  <2> QED
    BY Zenon, <1>2, <1>3, <2>1 DEF ActivityIsPast, Onward
<1>10. CASE RecoverFails
  <2>1. /\ Journal # NoTime /\ now' = now /\ lastAttempt' = lastAttempt
        /\ \/ Journal' = Journal /\ lastPost' \in {lastPost, Journal}
           \/ Journal' = NoTime /\ lastPost' = Journal
    BY <1>10 DEF RecoverFails, Fails, Journal
  <2> QED
    BY Zenon, <1>2, <1>3, <2>1 DEF ActivityIsPast, Onward
<1>11. CASE Tick
  <2>1. /\ now' = now + 1 /\ lastPost' = lastPost /\ lastAttempt' = lastAttempt
        /\ Journal' = Journal
    BY <1>11 DEF Tick, Journal
  <2>2. now <= now + 1 /\ lastPost <= now + 1 /\ lastAttempt <= now + 1
    BY <1>1, <1>2 DEF Seconds
  <2>3. Journal <= now => Journal <= now + 1
    BY <1>1 DEF Seconds
  <2> QED
    BY Zenon, <1>2, <1>3, <2>1, <2>2, <2>3 DEF ActivityIsPast, Onward
<1>12. \/ \E r \in Requests, options \in PutOptions : Put(r, options)
       \/ \E id \in Ids : Bump(id) \/ Bust(id) \/ Del(id)
       => UNCHANGED <<now, lastPost, lastAttempt, worker>>
  BY ClientSteps
<1>13. UNCHANGED vars => UNCHANGED <<now, lastPost, lastAttempt, worker>>
  BY DEF vars, files
<1> QED
  BY Zenon, <1>5, <1>6, <1>7, <1>8, <1>9, <1>10, <1>11, <1>12, <1>13 DEF Next, WorkerStep

\* A post is due when the head has waited since the last success and the last
\* failure.
LEMMA PostAtNow ==
  ASSUME NEW e, e.flutter \in Nat, e.notBefore \in Nat, NEW a \in Seconds, NEW b \in Seconds,
         now \in Nat
  PROVE  /\ PostAt(e, Latest(a, b), now) = now =>
              e.notBefore <= now /\ Waited(e, a) /\ Waited(e, b)
         /\ e.notBefore <= now /\ Waited(e, a) /\ Waited(e, b) =>
              PostAt(e, Latest(a, b), now) <= now
<1>1. Cooldown \in Nat
  BY Zenon, ScheduleAssumption
<1> QED
  BY <1>1 DEF PostAt, Latest, NoTime, Seconds, Waited

LEMMA HeadTime ==
  ASSUME ScheduleInv, schedule.queue # << >>
  PROVE  LET q == schedule.queue
             previous == PreviousActivity(lastPost, lastAttempt)
         IN /\ Head(q) = q[1] /\ q[1] \in Pending(entries)
            /\ schedule.at[Head(q)] = Projection(entries, q, previous, now)[1]
            /\ Projection(entries, q, previous, now)[1] = PostAt(entries[Head(q)], previous, now)
<1> DEFINE q == schedule.queue
           previous == PreviousActivity(lastPost, lastAttempt)
<1>1. /\ Typed(entries) /\ IsFiniteSet(Pending(entries)) /\ q = PostingOrder(entries)
      /\ schedule.at = ProjectedSchedule(entries, q, previous, now)
      /\ Arranged(entries, q, Pending(entries))
  BY Zenon, QueueIsArranged
<1>2. q \in Seq(Pending(entries)) /\ Len(q) \in Nat
  BY Zenon, <1>1, ArrangedMembers
<1> HIDE DEF previous
<1>3. 1 \in 1..Len(q) /\ Head(q) = q[1] /\ q[1] \in Pending(entries)
  BY <1>2
<1>4. schedule.at[q[1]] = Projection(entries, q, previous, now)[1]
  <2>1. HasTime(entries, q, previous, now, 1)
    BY Zenon, <1>1, <1>3, TimeOf
  <2> QED
    BY Zenon, <1>1, <2>1 DEF HasTime
<1>5. Projection(entries, q, previous, now)[1] = PostAt(entries[q[1]], previous, now)
  BY <1>2, <1>3, ProjectionUnfolds
<1> QED
  BY Zenon, <1>3, <1>4, <1>5 DEF previous

\* claim_next_due takes an entry that has waited.
LEMMA ClaimedIsDue ==
  ASSUME ScheduleInv, Claim
  PROVE  \A id \in Pending(entries') : entries'[id].claim => Due(id)'
<1>0. PICK h : h = Head(schedule.queue)
  BY Zenon
<1>1. /\ Typed(entries) /\ now \in Nat /\ lastPost \in Seconds /\ lastAttempt \in Seconds
  BY Zenon, Activity, QueueIsArranged
<1>2. schedule.queue # << >> /\ h \in Pending(entries) /\ schedule.at[h] = now
  BY Zenon, <1>0, HeadIsPending DEF Claim
<1>3. /\ h \in Ids /\ entries[h] \in StoredEntry
      /\ entries[h].flutter \in Nat /\ entries[h].notBefore \in Nat
  BY Zenon, <1>1, <1>2, EntryFields
<1>4. PostAt(entries[h], Latest(lastPost, lastAttempt), now) = now
  BY Zenon, <1>0, <1>2, HeadTime DEF PreviousActivity
<1>5. /\ entries[h].notBefore <= now
      /\ Waited(entries[h], lastPost) /\ Waited(entries[h], lastAttempt)
  BY Zenon, <1>1, <1>3, <1>4, PostAtNow
<1>6. /\ entries' = [entries EXCEPT ![h].claim = TRUE]
      /\ worker' = [pc |-> "posting", id |-> h, time |-> NoTime]
      /\ now' = now /\ lastPost' = lastPost /\ lastAttempt' = lastAttempt
      /\ \A id \in Pending(entries) : ~entries[id].claim
  BY <1>0 DEF Claim
<1>7. /\ entries'[h] = [entries[h] EXCEPT !.claim = TRUE]
      /\ \A id \in Ids \ {h} : entries'[id] = entries[id]
  BY <1>1, <1>3, <1>6 DEF Typed
<1>8. Keeps(entries[h], entries'[h])
  BY Zenon, <1>3, <1>7, ClaimChanges
<1>9. Due(h)'
  <2>1. worker'.id = h /\ worker'.pc = "posting"
    BY <1>6
  <2>2. entries'[h].notBefore = entries[h].notBefore /\ entries'[h].flutter = entries[h].flutter
    BY Zenon, <1>8 DEF Keeps
  <2> QED
    BY Zenon, <1>5, <1>6, <2>1, <2>2 DEF Due, Waited
<1>10. ASSUME NEW id \in Pending(entries'), entries'[id].claim
       PROVE  id = h
  BY Zenon, <1>6, <1>7, <1>10 DEF Pending
<1> QED
  BY Zenon, <1>9, <1>10

\* Time only makes an entry wait longer.
LEMMA DueGoesOn ==
  ASSUME ScheduleInv, NEW id \in Pending(entries), Due(id), Keeps(entries[id], entries'[id]),
         UNCHANGED <<lastPost, lastAttempt, worker>>, now' = now \/ now' = now + 1
  PROVE  Due(id)'
<1>1. /\ now \in Nat /\ Cooldown \in Nat /\ lastPost \in Seconds /\ lastAttempt \in Seconds
  BY Zenon, Activity
<1>2. entries[id].flutter \in Nat /\ entries[id].notBefore \in Nat
  BY Zenon, QueueIsArranged, EntryFields
<1>3. entries'[id].notBefore = entries[id].notBefore /\ entries'[id].flutter = entries[id].flutter
  BY Zenon DEF Keeps
<1>4. /\ lastPost' = lastPost /\ lastAttempt' = lastAttempt /\ worker' = worker
      /\ Journal' = Journal
  BY DEF Journal
<1>5. entries[id].notBefore <= now => entries'[id].notBefore <= now'
  BY <1>1, <1>2, <1>3
<1>6. Waited(entries[id], lastPost) => Waited(entries[id], lastPost)'
  BY <1>1, <1>2, <1>3, <1>4 DEF Waited, Seconds, NoTime
<1>7. Waited(entries[id], lastAttempt) => Waited(entries[id], lastAttempt)'
  BY <1>1, <1>2, <1>3, <1>4 DEF Waited, Seconds, NoTime
<1> QED
  BY Zenon, <1>4, <1>5, <1>6, <1>7 DEF Due

\* Clients and the clock leave a claim as it is.
LEMMA ClientsLeaveClaims ==
  ASSUME ScheduleInv, NEW id \in Pending(entries'), entries'[id].claim,
         \/ \E r \in Requests, options \in PutOptions : Put(r, options)
         \/ \E x \in Ids : Bump(x) \/ Bust(x) \/ Del(x)
         \/ Tick \/ UNCHANGED vars
  PROVE  id \in Pending(entries) /\ entries[id].claim /\ Keeps(entries[id], entries'[id])
<1>1. Typed(entries) /\ id \in Ids /\ entries'[id] # NoEntry
  BY Zenon, QueueIsArranged DEF Pending
<1>2. CASE entries'[id] = entries[id]
  BY Zenon, <1>1, <1>2 DEF Pending, Keeps
<1>3. ASSUME NEW r \in Requests, NEW options \in PutOptions, Put(r, options)
      PROVE  entries'[id] = entries[id]
  <2>1. CASE entries' = entries
    BY Zenon, <2>1
  <2>2. ASSUME NEW x \in Ids, entries' = [entries EXCEPT ![x] = NewEntry(r, options)]
        PROVE  entries'[id] = entries[id]
    <3>1. ~NewEntry(r, options).claim
      BY DEF NewEntry
    <3>2. entries'[id] = IF id = x THEN NewEntry(r, options) ELSE entries[id]
      BY <1>1, <2>2 DEF Typed
    <3> QED
      BY Zenon, <3>1, <3>2
  <2> QED
    BY Zenon, <1>3, <2>1, <2>2, PutWrites
<1>4. ASSUME NEW x \in Ids, Bump(x) \/ Bust(x)
      PROVE  id \in Pending(entries) /\ entries[id].claim /\ Keeps(entries[id], entries'[id])
  <2>1. PICK order \in MinOrder..MaxOrder : Reorder(x, order)
    BY Zenon, <1>4, BumpBustReorder
  <2>2. /\ Pending(entries') = Pending(entries)
        /\ entries'[x].claim = entries[x].claim /\ Keeps(entries[x], entries'[x])
        /\ (id # x => entries'[id] = entries[id])
    BY Zenon, <1>1, <2>1, ReorderWrites
  <2> QED
    BY Zenon, <1>2, <2>2
<1>5. ASSUME NEW x \in Ids, Del(x)
      PROVE  entries'[id] = entries[id]
  <2>1. entries' = [entries EXCEPT ![x] = NoEntry]
    BY Zenon, <1>5 DEF Del
  <2>2. entries'[id] = IF id = x THEN NoEntry ELSE entries[id]
    BY <1>1, <2>1 DEF Typed
  <2> QED
    BY Zenon, <1>1, <2>2
<1>6. Tick \/ UNCHANGED vars => entries'[id] = entries[id]
  BY DEF Tick, vars, files
<1> QED
  BY Zenon, <1>2, <1>3, <1>4, <1>5, <1>6

\* Without the worker's claim there is none.
LEMMA NoClaimLeft ==
  ASSUME ScheduleInv, ClaimIsDue, NEW id \in Ids
  PROVE  /\ WithoutClaimed[id] # NoEntry => ~WithoutClaimed[id].claim
         /\ Released[id] # NoEntry => ~Released[id].claim
<1>1. Typed(entries)
  BY Zenon, QueueIsArranged
<1>2. ASSUME entries[id] # NoEntry, entries[id].claim
      PROVE  worker.id = id /\ HoldsClaim
  <2>1. worker.id = id
    BY Zenon, <1>2 DEF ClaimIsDue, Due, Pending
  <2> QED
    BY Zenon, <1>2, <2>1 DEF HoldsClaim
<1>3. CASE ~HoldsClaim
  <2>1. WithoutClaimed = entries /\ Released = entries
    BY Zenon, <1>3 DEF WithoutClaimed, Released
  <2> QED
    BY Zenon, <1>2, <1>3, <2>1
<1>4. CASE HoldsClaim
  <2>1. /\ WithoutClaimed = [entries EXCEPT ![worker.id] = NoEntry]
        /\ Released = [entries EXCEPT ![worker.id].claim = FALSE]
    BY Zenon, <1>4 DEF WithoutClaimed, Released
  <2>2. CASE id = worker.id
    <3>1. WithoutClaimed[id] = NoEntry /\ Released[id] = [entries[id] EXCEPT !.claim = FALSE]
      BY <1>1, <2>1, <2>2 DEF Typed
    <3>2. entries[id] \in StoredEntry
      BY Zenon, <1>1, <1>4, <2>2 DEF Typed, HoldsClaim
    <3> QED
      BY Zenon, <3>1, <3>2, ClaimChanges
  <2>3. CASE id # worker.id
    <3>1. WithoutClaimed[id] = entries[id] /\ Released[id] = entries[id]
      BY <1>1, <2>1, <2>3 DEF Typed
    <3> QED
      BY Zenon, <1>2, <2>3, <3>1
  <2> QED
    BY Zenon, <2>2, <2>3
<1> QED
  BY Zenon, <1>3, <1>4

LEMMA UnclaimedHasNone ==
  ASSUME ScheduleInv, Recovered, NEW id \in Pending(entries')
  PROVE  ~entries'[id].claim
<1>1. PICK F : F = IF Journal = NoTime THEN entries ELSE WithoutClaimed
  BY Zenon
<1>2. Typed(entries) /\ id \in Ids /\ entries'[id] # NoEntry
  BY Zenon, QueueIsArranged DEF Pending
<1>3. entries'[id] = IF F[id] = NoEntry THEN NoEntry ELSE [F[id] EXCEPT !.claim = FALSE]
  BY Zenon, <1>1, <1>2 DEF Recovered, Unclaimed
<1>4. F[id] # NoEntry /\ F[id] \in {entries[id], NoEntry}
  BY Zenon, <1>1, <1>2, <1>3, ClaimedEnds
<1>5. F[id] \in StoredEntry
  BY Zenon, <1>2, <1>4 DEF Typed
<1> QED
  BY Zenon, <1>3, <1>4, <1>5, ClaimChanges

\* What ends an attempt frees the worker's claim, and no other is there; or,
\* when an error came before that, leaves the entries and last_post.
LEMMA EndsFreeClaims ==
  ASSUME ScheduleInv, ClaimIsDue, NEW id \in Pending(entries'), entries'[id].claim,
         \/ Complete \/ CompleteFails \/ Release \/ ReleaseFails \/ Cooled
         \/ Recover \/ RecoverFails \/ Restart
  PROVE  /\ CompleteFails \/ ReleaseFails
         /\ entries' = entries /\ lastPost' = lastPost
<1>1. id \in Ids /\ entries'[id] # NoEntry
  BY Zenon DEF Pending
<1>2. entries' # WithoutClaimed /\ entries' # Released /\ ~Recovered
  BY Zenon, <1>1, NoClaimLeft, UnclaimedHasNone
<1>3. ~Cooled
  <2>1. ASSUME Cooled PROVE FALSE
    <3>1. entries' = entries /\ worker.pc = "cooling"
      BY Zenon, <2>1 DEF Cooled
    <3>2. worker.pc \in {"posting", "failed"}
      BY Zenon, <3>1 DEF ClaimIsDue, Due
    <3> QED
      BY <3>1, <3>2
  <2> QED
    BY Zenon, <2>1
<1>4. ~(Complete \/ Release \/ Recover \/ RecoverFails \/ Restart)
  BY Zenon, <1>2 DEF Complete, Release, Recover, RecoverFails, Restart
<1>5. CASE CompleteFails
  BY Zenon, <1>2, <1>5 DEF CompleteFails
<1>6. CASE ReleaseFails
  BY Zenon, <1>2, <1>6 DEF ReleaseFails
<1> QED
  BY Zenon, <1>3, <1>4, <1>5, <1>6

LEMMA ClaimStep ==
  ASSUME ScheduleInv, ClaimIsDue, [Next]_vars
  PROVE  ClaimIsDue'
<1>1. SUFFICES ASSUME NEW id \in Pending(entries'), entries'[id].claim
               PROVE  Due(id)'
  BY Zenon DEF ClaimIsDue, Pending
<1>2. CASE Claim
  BY Zenon, <1>1, <1>2, ClaimedIsDue
<1>3. CASE \/ Complete \/ CompleteFails \/ Release \/ ReleaseFails \/ Cooled
           \/ Recover \/ RecoverFails \/ Restart
  <2>1. (CompleteFails \/ ReleaseFails) /\ entries' = entries /\ lastPost' = lastPost
    BY Zenon, <1>1, <1>3, EndsFreeClaims
  <2>2. /\ worker.pc = "posting" /\ now' = now
        /\ \E journal \in {now, NoTime} : Fails(journal)
        /\ lastAttempt' = lastAttempt \/ Fails(NoTime)
    BY Zenon, <2>1 DEF CompleteFails, ReleaseFails
  <2>3. /\ worker'.id = worker.id /\ worker'.pc = "failed"
        /\ Journal' # NoTime => lastAttempt' = lastAttempt
    BY <2>2 DEF Fails, Journal
  <2>4. Due(id)
    BY Zenon, <1>1, <2>1 DEF ClaimIsDue
  <2>5. "failed" # "posting"
    OBVIOUS
  <2> QED
    BY Zenon, <2>1, <2>2, <2>3, <2>4, <2>5 DEF Due, Waited
<1>4. CASE \/ \E r \in Requests, options \in PutOptions : Put(r, options)
           \/ \E x \in Ids : Bump(x) \/ Bust(x) \/ Del(x)
           \/ Tick \/ UNCHANGED vars
  <2>1. id \in Pending(entries) /\ entries[id].claim /\ Keeps(entries[id], entries'[id])
    BY Zenon, <1>1, <1>4, ClientsLeaveClaims
  <2>2. UNCHANGED <<lastPost, lastAttempt, worker>> /\ (now' = now \/ now' = now + 1)
    <3>1. Tick \/ UNCHANGED vars =>
            UNCHANGED <<lastPost, lastAttempt, worker>> /\ (now' = now \/ now' = now + 1)
      BY DEF Tick, vars, files
    <3> QED
      BY <1>4, <3>1, ClientSteps
  <2>3. Due(id)
    BY Zenon, <2>1 DEF ClaimIsDue
  <2> QED
    BY Zenon, <2>1, <2>2, <2>3, DueGoesOn
<1> QED
  BY Zenon, <1>2, <1>3, <1>4 DEF Next, WorkerStep

LEMMA AttemptInvHolds == Spec => []AttemptInv
<1>1. Init => ActivityIsPast /\ ClaimIsDue
  <2>1. ASSUME Init PROVE ActivityIsPast
    BY <2>1 DEF Init, ActivityIsPast, Idle, Journal, NoTime
  <2>2. ASSUME Init PROVE Pending(entries) = {}
    BY <2>2 DEF Init, Pending
  <2> QED
    BY Zenon, <2>1, <2>2 DEF ClaimIsDue
<1>2. AttemptInv /\ [Next]_vars => AttemptInv'
  BY Zenon, ScheduleInvStep, ActivityStep, ClaimStep DEF AttemptInv
<1>3. Init => AttemptInv
  BY Zenon, <1>1, InvInit DEF AttemptInv
<1> QED
  BY <1>2, <1>3, PTL DEF Spec

\* An entry that leaves was due, when its going is the success last_post tells
\* of.
LEMMA LeaverWasDue ==
  ASSUME AttemptInv, [Next]_vars, NEW id \in Pending(entries) \ Pending(entries'),
         entries[id].claim, lastPost' = now
  PROVE  /\ entries[id].notBefore <= now
         /\ Waited(entries[id], lastPost)
         /\ Waited(entries[id], lastAttempt) \/ lastPost = now
<1>1. Due(id) /\ id \in Ids /\ entries[id] # NoEntry /\ entries'[id] = NoEntry
  BY Zenon DEF AttemptInv, ClaimIsDue, Pending
<1>2. entries[id].notBefore <= now /\ Waited(entries[id], lastPost)
  BY Zenon, <1>1 DEF Due
<1>3. CASE worker.pc = "posting"
  BY Zenon, <1>1, <1>2, <1>3 DEF Due
<1>4. CASE worker.pc = "failed" /\ Journal = NoTime
  <2>1. ~Recovered
    <3>1. ASSUME Recovered PROVE FALSE
      <4>1. entries'[id] = [entries[id] EXCEPT !.claim = FALSE]
        BY Zenon, <1>1, <1>4, <3>1 DEF Recovered, Unclaimed
      <4>2. entries[id] \in StoredEntry
        BY Zenon, <1>1, QueueIsArranged DEF AttemptInv, Typed
      <4> QED
        BY Zenon, <1>1, <4>1, <4>2, ClaimChanges, StoredIsSome
    <3> QED
      BY Zenon, <3>1
  <2>2. ~(WorkerStep \/ Restart)
    <3>1. worker.pc # "idle" /\ worker.pc # "posting" /\ worker.pc # "cooling"
      BY <1>4
    <3>2. ~(Recover \/ RecoverFails \/ Restart)
      BY Zenon, <1>4, <2>1 DEF Recover, RecoverFails, Restart
    <3> QED
      BY Zenon, <3>1, <3>2
      DEF WorkerStep, Claim, Complete, CompleteFails, Release, ReleaseFails, Cooled
  <2>3. lastPost' = lastPost
    <3>1. Tick \/ UNCHANGED vars => lastPost' = lastPost
      BY DEF Tick, vars, files
    <3>2. \/ \E r \in Requests, options \in PutOptions : Put(r, options)
          \/ \E x \in Ids : Bump(x) \/ Bust(x) \/ Del(x)
          => lastPost' = lastPost
      BY ClientSteps
    <3> QED
      BY Zenon, <2>2, <3>1, <3>2 DEF Next
  <2> QED
    BY Zenon, <1>2, <2>3
<1>5. CASE Journal # NoTime
  BY Zenon, <1>1, <1>2, <1>5 DEF Due
<1>6. worker.pc = "posting" \/ worker.pc = "failed"
  BY <1>1 DEF Due
<1> QED
  BY Zenon, <1>3, <1>4, <1>5, <1>6

\* Its time was no later than the activity it leaves behind.
LEMMA LeaverMadeUpFor ==
  ASSUME AttemptInv, [Next]_vars, NEW id \in Pending(entries) \ Pending(entries'),
         entries[id].claim, id = Head(schedule.queue), lastPost' = now
  PROVE  LET q == schedule.queue
             previous == PreviousActivity(lastPost, lastAttempt)
         IN id = q[1] /\ Projection(entries, q, previous, now)[1] <= now
<1> DEFINE q == schedule.queue
           previous == PreviousActivity(lastPost, lastAttempt)
<1>1. /\ ScheduleInv /\ now \in Nat /\ lastPost \in Seconds /\ lastAttempt \in Seconds
      /\ lastAttempt <= now /\ Typed(entries) /\ id \in Pending(entries)
  BY Zenon, Activity, QueueIsArranged DEF AttemptInv, ActivityIsPast
<1>2. entries[id].flutter \in Nat /\ entries[id].notBefore \in Nat
  BY Zenon, <1>1, EntryFields
<1>3. q # << >>
  BY Zenon, <1>1, QueueEnds
<1>4. id = q[1] /\ Projection(entries, q, previous, now)[1] = PostAt(entries[id], previous, now)
  BY Zenon, <1>1, <1>3, HeadTime
<1>5. /\ entries[id].notBefore <= now
      /\ Waited(entries[id], lastPost)
      /\ Waited(entries[id], lastAttempt) \/ lastPost = now
  BY Zenon, LeaverWasDue
<1>6. lastPost = now => Waited(entries[id], lastAttempt)
  BY <1>1, <1>2, <1>5, ScheduleAssumption DEF Waited, Seconds, NoTime
<1>7. PostAt(entries[id], previous, now) <= now
  BY Zenon, <1>1, <1>2, <1>5, <1>6, PostAtNow DEF PreviousActivity
<1> QED
  BY Zenon, <1>4, <1>7

\* A step that disturbs no order only delays.
LEMMA UndisturbedDelays ==
  ASSUME AttemptInv, [Next]_vars, Undisturbed
  PROVE  Delays(entries, entries', schedule.queue, schedule'.queue,
                PreviousActivity(lastPost, lastAttempt),
                PreviousActivity(lastPost', lastAttempt'), now, now')
<1> DEFINE p == PreviousActivity(lastPost, lastAttempt)
           o == PreviousActivity(lastPost', lastAttempt')
<1>1. /\ ScheduleInv /\ ScheduleInv' /\ Onward
  BY Zenon, ScheduleInvStep, ActivityStep DEF AttemptInv
<1>2. /\ Typed(entries) /\ Arranged(entries, schedule.queue, Pending(entries))
      /\ Typed(entries') /\ Arranged(entries', schedule'.queue, Pending(entries'))
  BY Zenon, <1>1, QueueIsArranged, QueueIsArrangedNext
<1>3. /\ now \in Nat /\ lastPost \in Seconds /\ lastAttempt \in Seconds
      /\ now' \in Nat /\ lastPost' \in Seconds /\ lastAttempt' \in Seconds
  BY <1>1, ScheduleAssumption DEF ScheduleInv, ScheduleTypeOK, Seconds
<1>4. now <= now' /\ lastPost <= lastPost' /\ lastAttempt <= lastAttempt'
  BY Zenon, <1>1 DEF Onward
<1>5. p \in Seconds /\ o \in Seconds /\ p <= o /\ lastPost' <= o
  BY <1>3, <1>4 DEF PreviousActivity, Latest, Seconds, NoTime
<1>6. ASSUME NEW id \in Pending(entries) \cap Pending(entries')
      PROVE  Keeps(entries[id], entries'[id]) /\ entries'[id].order = entries[id].order
  BY Zenon, <1>1, <1>6, SurvivorsKeep DEF Undisturbed, Pending
<1>7. ASSUME NEW id \in Pending(entries) \ Pending(entries')
      PROVE  id = schedule.queue[1] /\ Projection(entries, schedule.queue, p, now)[1] <= o
  <2>1. entries[id].claim /\ id = Head(schedule.queue) /\ lastPost' = now
    BY Zenon DEF Undisturbed, Pending
  <2>2. id = schedule.queue[1] /\ Projection(entries, schedule.queue, p, now)[1] <= now
    BY Zenon, <2>1, LeaverMadeUpFor
  <2>3. Projection(entries, schedule.queue, p, now)[1] \in Nat
    <3>1. schedule.queue \in Seq(Pending(entries)) /\ schedule.queue # << >>
      BY Zenon, <1>1, <1>2, ArrangedMembers, QueueEnds
    <3>2. 1 \in 1..Len(schedule.queue)
      BY <3>1
    <3> QED
      BY Zenon, <1>2, <1>3, <1>5, <3>1, <3>2, PlaceWaits DEF PlaceIs
  <2> HIDE DEF p, o
  <2>4. Projection(entries, schedule.queue, p, now)[1] <= o
    BY <1>3, <1>5, <2>1, <2>2, <2>3 DEF Seconds, NoTime
  <2> QED
    BY Zenon, <2>2, <2>4
<1> HIDE DEF p, o
<1>8. Delays(entries, entries', schedule.queue, schedule'.queue, p, o, now, now')
  BY Zenon, <1>2, <1>3, <1>4, <1>5, <1>6, <1>7 DEF Delays
<1> QED
  BY Zenon, <1>8 DEF p, o

LEMMA AnnouncedSlip ==
  ASSUME AttemptInv, [Next]_vars, Undisturbed, NEW id \in Pending(entries) \cap Pending(entries')
  PROVE  schedule'.at[id] >= schedule.at[id]
<1> DEFINE p == PreviousActivity(lastPost, lastAttempt)
           o == PreviousActivity(lastPost', lastAttempt')
           q == schedule.queue
           r == schedule'.queue
<1>1. /\ Typed(entries) /\ IsFiniteSet(Pending(entries)) /\ q = PostingOrder(entries)
      /\ schedule.at = ProjectedSchedule(entries, q, p, now)
      /\ Arranged(entries, q, Pending(entries))
  BY Zenon, QueueIsArranged DEF AttemptInv
<1>2. /\ Typed(entries') /\ IsFiniteSet(Pending(entries')) /\ r = PostingOrder(entries')
      /\ schedule'.at = ProjectedSchedule(entries', r, o, now')
      /\ Arranged(entries', r, Pending(entries'))
  BY Zenon, ScheduleInvStep, QueueIsArrangedNext DEF AttemptInv
<1>3. PICK n \in 1..Len(q) : q[n] = id
  BY Zenon, <1>1 DEF Arranged
<1>4. PICK m \in 1..Len(r) : r[m] = id
  BY Zenon, <1>2 DEF Arranged
<1>5. Delays(entries, entries', q, r, p, o, now, now')
  BY Zenon, UndisturbedDelays
<1>6. Projection(entries, q, p, now)[n] <= Projection(entries', r, o, now')[m]
  <2>1. r[m] = q[n]
    BY Zenon, <1>3, <1>4
  <2> QED
    BY Zenon, <1>5, <2>1, TimesSlip
<1> HIDE DEF p, o, q, r
<1>7. HasTime(entries, q, p, now, n) /\ HasTime(entries', r, o, now', m)
  BY Zenon, <1>1, <1>2, TimeOf
<1>8. schedule.at[id] = Projection(entries, q, p, now)[n]
  BY Zenon, <1>1, <1>3, <1>7 DEF HasTime
<1>9. schedule'.at[id] = Projection(entries', r, o, now')[m]
  BY Zenon, <1>2, <1>4, <1>7 DEF HasTime
<1>10. schedule.at[id] <= schedule'.at[id]
  BY Zenon, <1>6, <1>8, <1>9
<1> QED
  BY <1>10

\* projected_schedule, in every step of the clients, the worker, the clock and
\* a restart that disturbs no order: no announced time comes forward.
THEOREM AnnouncedTimesOnlySlip == Spec => EtaOnlySlips
<1> DEFINE Step ==
      Undisturbed =>
        \A id \in Pending(entries) \cap Pending(entries') :
          schedule'.at[id] >= schedule.at[id]
<1>1. AttemptInv /\ [Next]_vars => [Step]_vars
  BY Zenon, AnnouncedSlip
<1> QED
  BY <1>1, AttemptInvHolds, PTL DEF Spec, EtaOnlySlips
=============================================================================
