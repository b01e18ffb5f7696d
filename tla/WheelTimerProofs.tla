--------------------------- MODULE WheelTimerProofs ---------------------------
(***************************************************************************)
(* Proofs about WheelTimer, for every value of its constants.              *)
(***************************************************************************)
EXTENDS WheelTimer, FiniteSetTheorems, TLAPS

(***************************************************************************)
(* Arithmetic of the wheel: shifts are divisions by a span, masks are      *)
(* remainders, for every TVR_SIZE and TVN_SIZE.                            *)
(***************************************************************************)
\* A shift rounds down to a multiple of the span.
LEMMA Division ==
  ASSUME NEW e \in Nat, NEW u \in Nat, u >= 1
  PROVE  /\ e \div u \in Nat
         /\ (e \div u) * u <= e
         /\ e < (e \div u) * u + u
         /\ e % u \in 0 .. (u - 1)
OBVIOUS

\* Quotient and remainder are the only ones.
LEMMA DivisionUnique ==
  ASSUME NEW q \in Nat, NEW u \in Nat, u >= 1, NEW r \in Nat, r < u
  PROVE  (q * u + r) \div u = q /\ (q * u + r) % u = r
OBVIOUS

\* Each level's list stands for TVN_SIZE lists of the level below.
LEMMA SpanGrows ==
  /\ \A b \in 0 .. 4 : Span(b) \in Nat /\ Span(b) >= 1
  /\ \A b \in Levels : Span(b + 1) = Span(b) * TVN_SIZE
  /\ Span(0) = TVR_SIZE
  /\ Levels = {0, 1, 2, 3}
BY WheelAssumption DEF Span, Levels, WHEEL_BUCKETS

\* WaitsIn, with the ticks of the levels below m at j already cascaded.
WaitsPast(e, a, j, m) ==
  \/ a = Near(e % TVR_SIZE)
  \/ \E b \in Levels, t \in 0 .. e :
       /\ a = Bucket(b, t % TVN_SIZE)
       /\ j <= t * Span(b) /\ t * Span(b) <= e
       /\ t * Span(b) = j => b >= m

\* add_timernode's index expressions stay inside buckets_ ...
LEMMA BucketAddress ==
  ASSUME NEW b \in Levels, NEW t \in Nat
  PROVE  /\ t % TVN_SIZE \in 0 .. (TVN_SIZE - 1)
         /\ Bucket(b, t % TVN_SIZE) \in Addresses
<1>1. t % TVN_SIZE \in 0 .. (TVN_SIZE - 1)
  BY WheelAssumption
<1>2. b \in {0, 1, 2, 3}
  BY SpanGrows
<1>3. b * TVR_SIZE + TVR_SIZE <= 4 * TVR_SIZE /\ b * TVR_SIZE >= 0 /\ b * TVR_SIZE \in Nat
  BY <1>2, WheelAssumption
<1>. QED BY <1>1, <1>3, WheelAssumption DEF Bucket, Addresses, WHEEL_BUCKETS

\* ... and near_[e & TVR_MASK] stays inside near_ and the lists after it.
LEMMA NearAddress ==
  ASSUME NEW t \in Nat
  PROVE  t % TVR_SIZE \in 0 .. (TVR_SIZE - 1) /\ Near(t % TVR_SIZE) \in Addresses
BY WheelAssumption DEF Near, Addresses, WHEEL_BUCKETS

\* A timer due at e, or clamped to f <= e, goes to a level-b list that
\* cascades strictly later than j when f is at least a span away.
LEMMA BucketWaits ==
  ASSUME NEW e \in Nat, NEW f \in Nat, NEW j \in Nat, NEW b \in Levels,
         f <= e, j + Span(b) <= f
  PROVE  /\ WaitsPast(e, Bucket(b, IndexPos(f, b)), j, 4)
         /\ Bucket(b, IndexPos(f, b)) \in Addresses
<1> DEFINE t == f \div Span(b)
<1>1. Span(b) \in Nat /\ Span(b) >= 1
  BY SpanGrows
<1>2. t \in Nat /\ t * Span(b) <= f /\ f < t * Span(b) + Span(b)
  BY <1>1, Division
<1>3. t <= t * Span(b)
  BY <1>1, <1>2
<1> HIDE DEF t
<1>4. t \in 0 .. e
  BY <1>1, <1>2, <1>3
<1>5. j < t * Span(b) /\ t * Span(b) <= e /\ t * Span(b) \in Nat
  BY <1>1, <1>2
<1>6. IndexPos(f, b) = t % TVN_SIZE
  BY DEF IndexPos, t
<1>7. WaitsPast(e, Bucket(b, IndexPos(f, b)), j, 4)
  BY <1>4, <1>5, <1>6 DEF WaitsPast
<1>. QED BY <1>2, <1>6, <1>7, BucketAddress

\* add_timernode (wheel_timer.cpp:77-123) puts a timer that is not overdue in a
\* list that is visited, or cascades strictly later than j, by the due tick.
LEMMA ListForWaits ==
  ASSUME NEW e \in Nat, NEW j \in Nat, j <= e
  PROVE  ListFor(e, j) \in Addresses /\ WaitsPast(e, ListFor(e, j), j, 4)
<1>1. CASE e - j < Span(0)
  <2>1. ListFor(e, j) = Near(e % TVR_SIZE)
    BY <1>1 DEF ListFor
  <2>. QED BY <2>1, NearAddress DEF WaitsPast
<1>2. CASE ~(e - j < Span(0))
  <2>1. /\ \A b \in {0, 1, 2, 3, 4} : Span(b) \in Nat /\ Span(b) >= 1
        /\ {0, 1, 2, 3} = Levels
    BY SpanGrows
  <2>2. CASE e - j < Span(1)
    <3>1. ListFor(e, j) = Bucket(0, IndexPos(e, 0))
      BY <1>2, <2>1, <2>2 DEF ListFor
    <3>2. j + Span(0) <= e
      BY <2>1, <1>2
    <3>. QED BY <3>1, <3>2, <2>1, BucketWaits
  <2>3. CASE ~(e - j < Span(1)) /\ e - j < Span(2)
    <3>1. ListFor(e, j) = Bucket(1, IndexPos(e, 1))
      BY <1>2, <2>1, <2>3 DEF ListFor
    <3>2. j + Span(1) <= e
      BY <2>1, <2>3
    <3>. QED BY <3>1, <3>2, <2>1, BucketWaits
  <2>4. CASE ~(e - j < Span(1)) /\ ~(e - j < Span(2)) /\ e - j < Span(3)
    <3>1. ListFor(e, j) = Bucket(2, IndexPos(e, 2))
      BY <1>2, <2>1, <2>4 DEF ListFor
    <3>2. j + Span(2) <= e
      BY <2>1, <2>4
    <3>. QED BY <3>1, <3>2, <2>1, BucketWaits
  <2>5. CASE ~(e - j < Span(1)) /\ ~(e - j < Span(2)) /\ ~(e - j < Span(3))
    <3> DEFINE f == IF e - j > MAX_TVAL THEN j + MAX_TVAL ELSE e
    <3>1. ListFor(e, j) = Bucket(3, IndexPos(f, 3))
      BY <1>2, <2>1, <2>5 DEF ListFor
    <3>2. MAX_TVAL = Span(4) - 1 /\ Span(4) = Span(3) * TVN_SIZE
      BY SpanGrows, <2>1 DEF MAX_TVAL
    <3>3. MAX_TVAL \in Nat /\ MAX_TVAL >= Span(3)
      BY <3>2, <2>1, WheelAssumption
    <3>4. f \in Nat /\ f <= e /\ j + Span(3) <= f
      BY <3>3, <2>1, <2>5
    <3> HIDE DEF f
    <3>. QED BY <3>1, <3>4, <2>1, BucketWaits
  <2>. QED BY <2>2, <2>3, <2>4, <2>5
<1>. QED BY <1>1, <1>2

\* At a tick where a level-b list comes round, the indexes of all levels below
\* are 0 and the index of level b names that list: the nested condition of
\* tick() reaches it.
LEMMA DueIndex ==
  ASSUME NEW j \in Nat, NEW b \in Levels, NEW t \in Nat, t * Span(b) = j
  PROVE  /\ j % TVR_SIZE = 0
         /\ \A c \in Levels : c < b => IndexPos(j, c) = 0
         /\ IndexPos(j, b) = t % TVN_SIZE
<1> DEFINE R == TVR_SIZE
           N == TVN_SIZE
<1>0. R \in Nat /\ R >= 1 /\ N \in Nat /\ N >= 1
  BY WheelAssumption
<1>1. b \in {0, 1, 2, 3}
  BY SpanGrows
<1>2. /\ Span(0) = R /\ Span(1) = R * N /\ Span(2) = R * (N * N)
      /\ Span(3) = R * (N * N * N)
  BY <1>0 DEF Span
<1>3. \A u \in Nat, q \in Nat : u >= 1 => (q * u) \div u = q /\ (q * u) % u = 0
  <2> TAKE u \in Nat, q \in Nat
  <2> HAVE u >= 1
  <2>. QED BY DivisionUnique, q * u + 0 = q * u, 0 \in Nat, 0 < u
<1>4. \A c \in Levels : Span(c) \in Nat /\ Span(c) >= 1
  BY SpanGrows, Levels \subseteq 0 .. 4 DEF Levels, WHEEL_BUCKETS
<1>5. IndexPos(j, b) = t % N
  BY <1>3, <1>4 DEF IndexPos
\* levels below b: j is a multiple of N spans of that level
<1>6. ASSUME NEW c \in Levels, NEW q \in Nat, j = (q * N) * Span(c)
      PROVE  IndexPos(j, c) = 0
  <2>1. j \div Span(c) = q * N
    BY <1>6, <1>4, <1>3, <1>0, q * N \in Nat
  <2>. QED BY <2>1, <1>3, <1>0 DEF IndexPos
<1>7. ASSUME NEW q \in Nat, j = q * R
      PROVE  j % R = 0
  BY <1>7, <1>3, <1>0
<1> HIDE DEF R, N
<1>8. CASE b = 0
  <2>1. j = t * R
    BY <1>8, <1>2
  <2>. QED BY <2>1, <1>7, <1>5, <1>8, SpanGrows DEF R, N
<1>9. CASE b = 1
  <2>1. j = (t * N) * R /\ t * N \in Nat
    BY <1>9, <1>2, <1>0
  <2>2. IndexPos(j, 0) = 0
    BY <2>1, <1>2, <1>6, SpanGrows
  <2>. QED BY <2>1, <2>2, <1>7, <1>5, <1>9, SpanGrows DEF R, N
<1>10. CASE b = 2
  <2>1. j = ((t * N) * N) * R /\ (t * N) * N \in Nat /\ t * N \in Nat
    BY <1>10, <1>2, <1>0
  <2>2. j = (t * N) * (R * N)
    BY <1>10, <1>2, <1>0
  <2>3. IndexPos(j, 0) = 0 /\ IndexPos(j, 1) = 0
    BY <2>1, <2>2, <1>2, <1>6, SpanGrows
  <2>. QED BY <2>1, <2>3, <1>7, <1>5, <1>10, SpanGrows DEF R, N
<1>11. CASE b = 3
  <2>0. t * N \in Nat /\ (t * N) * N \in Nat /\ ((t * N) * N) * N \in Nat
    BY <1>0
  <2>1. j = (((t * N) * N) * N) * R
    BY <1>11, <1>2, <1>0
  <2>2. j = ((t * N) * N) * (R * N)
    BY <1>11, <1>2, <1>0
  <2>3. j = (t * N) * (R * (N * N))
    BY <1>11, <1>2, <1>0
  <2>4. IndexPos(j, 0) = 0 /\ IndexPos(j, 1) = 0 /\ IndexPos(j, 2) = 0
    BY <2>0, <2>1, <2>2, <2>3, <1>2, <1>6, SpanGrows
  <2>. QED BY <2>0, <2>1, <2>4, <1>7, <1>5, <1>11, SpanGrows DEF R, N
<1>. QED BY <1>1, <1>8, <1>9, <1>10, <1>11

-------------------------------------------------------------------------------
(***************************************************************************)
(* Cascades.  s stands for the lists of the wheel between two of them.     *)
(***************************************************************************)
Lists(s) == /\ s \in [Addresses -> SUBSET TimerIds]
            /\ \A a, b \in Addresses : a # b => s[a] \cap s[b] = {}

\* the timers some list of s holds
Held(s) == UNION {s[a] : a \in Addresses}

\* s at the tick jiffies once the levels below m have cascaded
Ready(s, m) ==
  \A a \in Addresses : \A n \in s[a] :
    /\ node[n].expires \in Nat /\ node[n].expires >= jiffies
    /\ WaitsPast(node[n].expires, a, jiffies, m)

\* cascade_timers of the due list of level m loses no timer, duplicates none,
\* and leaves nothing waiting in a list of level m that comes round now.
LEMMA CascadeTimersKeeps ==
  ASSUME jiffies \in Nat, NEW s, Lists(s), NEW m \in Levels, Ready(s, m)
  PROVE  LET r == CascadeTimers(s, m, IndexPos(jiffies, m))
         IN Lists(r) /\ Held(r) = Held(s) /\ Ready(r, m + 1)
<1> DEFINE from == Bucket(m, IndexPos(jiffies, m))
           r == CascadeTimers(s, m, IndexPos(jiffies, m))
           To(n) == ListFor(node[n].expires, jiffies)
<1>1. from \in Addresses
  <2>1. Span(m) \in Nat /\ Span(m) >= 1
    BY SpanGrows, Levels \subseteq 0 .. 4 DEF Levels, WHEEL_BUCKETS
  <2>2. jiffies \div Span(m) \in Nat
    BY <2>1, Division
  <2>. QED BY <2>2, BucketAddress DEF IndexPos
<1>2. \A n \in s[from] : /\ To(n) \in Addresses
                         /\ WaitsPast(node[n].expires, To(n), jiffies, 4)
  BY <1>1, ListForWaits DEF Ready
<1>3. /\ r \in [Addresses -> SUBSET TimerIds]
      /\ \A a \in Addresses : \A n :
           n \in r[a] <=> ((a # from /\ n \in s[a]) \/ (n \in s[from] /\ To(n) = a))
  BY <1>1 DEF Lists, CascadeTimers
<1> HIDE DEF from, r, To
<1>4. Lists(r)
  <2> SUFFICES ASSUME NEW a \in Addresses, NEW b \in Addresses, NEW n,
                      n \in r[a], n \in r[b]
               PROVE  a = b
    BY <1>3 DEF Lists
  <2>. QED BY <1>1, <1>3 DEF Lists
<1>5. Held(r) = Held(s)
  <2>1. \A n : n \in Held(r) <=> \E a \in Addresses : n \in r[a]
    BY DEF Held
  <2>2. \A n : n \in Held(s) <=> \E a \in Addresses : n \in s[a]
    BY DEF Held
  <2>3. ASSUME NEW n, n \in Held(r) PROVE n \in Held(s)
    BY <2>1, <2>2, <2>3, <1>1, <1>3
  <2>4. ASSUME NEW n, n \in Held(s) PROVE n \in Held(r)
    BY <2>1, <2>2, <2>4, <1>1, <1>2, <1>3
  <2>. QED BY <2>3, <2>4
<1>6. Ready(r, m + 1)
  <2> SUFFICES ASSUME NEW a \in Addresses, NEW n \in r[a]
               PROVE  /\ node[n].expires \in Nat /\ node[n].expires >= jiffies
                      /\ WaitsPast(node[n].expires, a, jiffies, m + 1)
    BY DEF Ready
  <2>1. m \in {0, 1, 2, 3}
    BY SpanGrows
  <2>2. CASE n \in s[from] /\ To(n) = a
    <3>1. WaitsPast(node[n].expires, a, jiffies, 4)
      BY <2>2, <1>2
    <3>2. WaitsPast(node[n].expires, a, jiffies, m + 1)
      BY <3>1, <2>1 DEF WaitsPast, Levels, WHEEL_BUCKETS
    <3>. QED BY <3>2, <2>2, <1>1 DEF Ready
  <2>3. CASE a # from /\ n \in s[a]
    <3>1. /\ node[n].expires \in Nat /\ node[n].expires >= jiffies
          /\ WaitsPast(node[n].expires, a, jiffies, m)
      BY <2>3 DEF Ready
    <3>2. ASSUME NEW b \in Levels, NEW t \in 0 .. node[n].expires,
                 a = Bucket(b, t % TVN_SIZE), t * Span(b) = jiffies, b >= m
          PROVE  b >= m + 1
      <4>1. b # m
        BY <3>2, <2>3, DueIndex, t \in Nat DEF from
      <4>. QED BY <4>1, <3>2, <2>1, SpanGrows
    <3>. QED BY <3>1, <3>2 DEF WaitsPast
  <2>. QED BY <1>3, <2>2, <2>3
<1>. QED BY <1>4, <1>5, <1>6 DEF r

\* When the tick does not reach level m, no list of level m or above is due.
LEMMA LevelNotDue ==
  ASSUME jiffies \in Nat, NEW s, NEW m \in Nat, Ready(s, m),
         \/ jiffies % TVR_SIZE # 0
         \/ \E c \in Levels : c < m /\ IndexPos(jiffies, c) # 0
  PROVE  \A k \in Nat : Ready(s, k)
<1> SUFFICES ASSUME NEW k \in Nat, NEW a \in Addresses, NEW n \in s[a],
                    NEW b \in Levels, NEW t \in 0 .. node[n].expires,
                    t * Span(b) = jiffies, node[n].expires \in Nat
             PROVE  ~(b >= m)
  BY DEF Ready, WaitsPast
<1>1. t \in Nat
  OBVIOUS
<1>2. jiffies % TVR_SIZE = 0 /\ \A c \in Levels : c < b => IndexPos(jiffies, c) = 0
  BY <1>1, DueIndex
<1>3. Levels = {0, 1, 2, 3}
  BY SpanGrows
<1>. QED BY <1>2, <1>3

\* All the cascades of one tick together.
LEMMA CascadeKeeps ==
  ASSUME jiffies \in Nat, NEW s, Lists(s), Ready(s, 0), jiffies % TVR_SIZE = 0
  PROVE  /\ Lists(Cascade(s)) /\ Held(Cascade(s)) = Held(s)
         /\ Ready(Cascade(s), 4)
<1> DEFINE s0 == CascadeFrom0(s)
           s1 == CascadeFrom1(s0)
           s2 == CascadeFrom2(s1)
           s3 == CascadeFrom3(s2)
           Kept(r, m) == Lists(r) /\ Held(r) = Held(s) /\ Ready(r, m)
<1>0. Levels = {0, 1, 2, 3}
  BY SpanGrows
<1>1. Kept(s0, 1)
  BY <1>0, CascadeTimersKeeps DEF CascadeFrom0
<1> HIDE DEF s0
<1>2. Kept(s1, 2)
  BY <1>0, <1>1, CascadeTimersKeeps, LevelNotDue DEF CascadeFrom1
<1> HIDE DEF s1
<1>3. Kept(s2, 3)
  BY <1>0, <1>2, CascadeTimersKeeps, LevelNotDue DEF CascadeFrom2
<1> HIDE DEF s2
<1>4. Kept(s3, 4)
  BY <1>0, <1>3, CascadeTimersKeeps, LevelNotDue DEF CascadeFrom3
<1>. QED BY <1>4 DEF Cascade, s0, s1, s2

-------------------------------------------------------------------------------
(***************************************************************************)
(* The invariants.                                                         *)
(***************************************************************************)
\* Every reachable state has the declared types.
THEOREM TypeCorrect == Spec => []TypeOK
<1> USE WheelAssumption DEF TimerIds, None
<1>1. Init => TypeOK
  BY DEF Init, TypeOK
<1>2. TypeOK /\ [Next]_vars => TypeOK'
  <2> SUFFICES ASSUME TypeOK, [Next]_vars
               PROVE  TypeOK'
    OBVIOUS
  <2> USE DEF TypeOK
  <2>1. ASSUME NEW ms_time \in Delays, NEW cb \in CbKinds, AddTimer(ms_time, cb)
        PROVE  TypeOK'
    <3> DEFINE e == jiffies + ms_time
    <3>0. e \in Nat /\ jiffies <= e
      OBVIOUS
    <3> HIDE DEF e
    <3>1. ListFor(e, jiffies) \in Addresses
      BY <3>0, ListForWaits
    <3>2. slots' \in [Addresses -> SUBSET TimerIds]
      BY <2>1, <3>1 DEF AddTimer, DueTick, e
    <3>3. /\ DOMAIN node' = (DOMAIN node) \cup {counter}
          /\ \A n \in DOMAIN node' :
               node'[n] \in [canceled : BOOLEAN, expires : Nat, cb : BOOLEAN]
      BY <2>1, <3>0 DEF AddTimer, DueTick, e
    <3>. QED BY <2>1, <3>2, <3>3 DEF AddTimer, DueTick, loop
  <2>2. ASSUME NEW id \in TimerIds, CancelKnown(id)
        PROVE  TypeOK'
    <3>1. DOMAIN node' = DOMAIN node
      BY <2>2 DEF CancelKnown
    <3>2. ASSUME NEW n \in DOMAIN node
          PROVE  node'[n] \in [canceled : BOOLEAN, expires : Nat, cb : BOOLEAN]
      <4>1. node'[n] = IF n = id THEN [node[n] EXCEPT !.canceled = TRUE] ELSE node[n]
        BY <2>2 DEF CancelKnown
      <4>. QED BY <4>1
    <3>3. size' \in Int /\ UNCHANGED <<alive, slots, ref, nullref, counter, loop>>
      BY <2>2 DEF CancelKnown
    <3>. QED BY <3>1, <3>2, <3>3 DEF loop
  <2>3. ASSUME NEW id \in TimerIds, CancelUnknown(id)
        PROVE  TypeOK'
    BY <2>3 DEF CancelUnknown, loop
  <2>4. ASSUME NEW d \in Elapsed, Update(d)
        PROVE  TypeOK'
    BY <2>4 DEF Update, wheel
  <2>5. CASE Tick
    <3>1. jiffies % TVR_SIZE \in 0 .. (TVR_SIZE - 1) /\ Near(jiffies % TVR_SIZE) \in Addresses
      BY NearAddress
    <3>2. ASSUME NEW s, s \in [Addresses -> SUBSET TimerIds]
          PROVE  Cascade(s) \in [Addresses -> SUBSET TimerIds]
      <4>. DEFINE LL == [Addresses -> SUBSET TimerIds]
      <4>1. \A r \in LL, b \in Levels : CascadeTimers(r, b, IndexPos(jiffies, b)) \in LL
        <5> TAKE r \in LL, b \in Levels
        <5>1. Span(b) \in Nat /\ Span(b) >= 1
          BY SpanGrows, Levels \subseteq 0 .. 4 DEF Levels, WHEEL_BUCKETS
        <5>2. jiffies \div Span(b) \in Nat
          BY <5>1, Division
        <5>3. Bucket(b, IndexPos(jiffies, b)) \in Addresses
          BY <5>2, BucketAddress DEF IndexPos
        <5>. QED BY <5>3 DEF CascadeTimers
      <4>. QED BY <4>1, <3>2, SpanGrows DEF Cascade, CascadeFrom0, CascadeFrom1,
                    CascadeFrom2, CascadeFrom3
    <3>. QED BY <2>5, <3>1, <3>2 DEF Tick
  <2>6. ASSUME NEW n \in expired, StartCallback(n)
        PROVE  TypeOK'
    BY <2>6 DEF StartCallback, Runnable, wheel
  <2>7. ASSUME NEW n \in expired, SkipNode(n)
        PROVE  TypeOK'
    BY <2>7 DEF SkipNode, Free, EraseRef, Runnable
  <2>8. CASE CallbackReturns
    BY <2>8 DEF CallbackReturns, Free, EraseRef
  <2>9. CASE Destroy
    BY <2>9 DEF Destroy, Free, ClearedIds, loop
  <2>10. CASE UNCHANGED vars
    BY <2>10 DEF vars, wheel, loop
  <2>. QED BY <2>1, <2>2, <2>3, <2>4, <2>5, <2>6, <2>7, <2>8, <2>9, <2>10 DEF Next
<1>. QED BY <1>1, <1>2, PTL DEF Spec

\* The callback or the tick at work is never later than the tick counted last.
Timely == \A n \in expired \cup InCallback : node[n].expires >= jiffies - 1

\* The next id is not in use; a destroyed wheel owns nothing and owes no tick.
Fresh == \A n \in DOMAIN node : n < counter
Gone  == ~alive => DOMAIN node = {} /\ ticks = 0

\* The inductive invariant: who owns each node (OneOwner, RefExact) and where
\* each timer waits (Placement) need each other, because a cascade loses a node
\* it cannot place and a placement speaks of the nodes the lists hold.
IInv == /\ TypeOK /\ OneOwner /\ RefExact /\ Placement
        /\ Timely /\ Fresh /\ Gone

\* Having cascaded more levels is the stronger fact.
LEMMA ReadyToWaits ==
  ASSUME NEW e, NEW a, NEW j, NEW m, WaitsPast(e, a, j, m)
  PROVE  WaitsIn(e, a, j)
BY DEF WaitsPast, WaitsIn

\* What the invariant says of the lists is what a tick starts from.
LEMMA PlacementReady ==
  ASSUME IInv
  PROVE  jiffies \in Nat /\ Lists(slots) /\ Ready(slots, 0) /\ Held(slots) = InLists
<1>1. jiffies \in Nat /\ Lists(slots) /\ Held(slots) = InLists
  BY DEF IInv, TypeOK, OneOwner, Lists, Held, InLists
<1>2. ASSUME NEW a \in Addresses, NEW n \in slots[a]
      PROVE  /\ node[n].expires \in Nat /\ node[n].expires >= jiffies
             /\ WaitsPast(node[n].expires, a, jiffies, 0)
  <2>1. n \in DOMAIN node
    BY DEF IInv, OneOwner, InLists
  <2>2. node[n].expires \in Nat
    BY <2>1 DEF IInv, TypeOK
  <2>3. node[n].expires >= jiffies /\ WaitsIn(node[n].expires, a, jiffies)
    BY DEF IInv, Placement
  <2>4. \A b \in Levels : b >= 0
    BY SpanGrows
  <2>. QED BY <2>2, <2>3, <2>4 DEF WaitsPast, WaitsIn
<1>. QED BY <1>1, <1>2 DEF Ready

\* A tick: what the cascade moved and what stayed waits for later ticks, and
\* what the tick visits is due now or was wrongly listed, never overdue.
LEMMA TickKeeps ==
  ASSUME IInv, Tick
  PROVE  /\ OneOwner' /\ Placement' /\ Timely'
<1> DEFINE index == jiffies % TVR_SIZE
           s == IF index = 0 THEN Cascade(slots) ELSE slots
           j == jiffies
<1>1. j \in Nat /\ Lists(s) /\ Held(s) = InLists /\ Ready(s, 4)
  <2>1. CASE index = 0
    BY <2>1, PlacementReady, CascadeKeeps
  <2>2. CASE index # 0
    BY <2>2, PlacementReady, LevelNotDue
  <2>. QED BY <2>1, <2>2
<1>2. index \in 0 .. (TVR_SIZE - 1) /\ Near(index) \in Addresses
  BY <1>1, NearAddress
<1>3. /\ expired = {} /\ running = None
      /\ expired' = s[Near(index)]
      /\ slots' = [s EXCEPT ![Near(index)] = {}]
      /\ jiffies' = j + 1
      /\ UNCHANGED <<node, running>>
  BY DEF Tick
<1> HIDE DEF s, j
<1>4. \A a \in Addresses : slots'[a] = IF a = Near(index) THEN {} ELSE s[a]
  BY <1>1, <1>2, <1>3 DEF Lists
<1>5. OneOwner'
  <2>1. DOMAIN node = Held(s)
    BY <1>1, <1>3 DEF IInv, OneOwner, InCallback
  <2>2. \A n : n \in Held(s) <=> \E a \in Addresses : n \in s[a]
    BY DEF Held
  <2>3. \A n : n \in InLists' <=> \E a \in Addresses : n \in slots'[a]
    BY DEF InLists
  <2>4. \A n : n \in Held(s) <=> n \in InLists' \/ n \in expired'
    BY <2>2, <2>3, <1>2, <1>3, <1>4
  <2>5. InLists' \cap expired' = {}
    BY <2>3, <1>1, <1>2, <1>3, <1>4 DEF Lists
  <2>6. \A a, b \in Addresses : a # b => slots'[a] \cap slots'[b] = {}
    BY <1>1, <1>4 DEF Lists
  <2>7. running' \notin InLists' \cup expired'
    <3>1. None \notin DOMAIN node
      BY WheelAssumption DEF IInv, TypeOK, TimerIds, None
    <3>. QED BY <3>1, <2>1, <2>4, <1>3
  <2>8. InCallback' = {}
    BY <1>3 DEF InCallback
  <2>. QED BY <2>1, <2>4, <2>5, <2>6, <2>7, <2>8, <1>3 DEF OneOwner
<1>6. Timely'
  <2>1. ASSUME NEW n \in s[Near(index)]
        PROVE  node[n].expires \in Nat /\ node[n].expires >= j
    BY <1>1, <1>2 DEF Ready, j
  <2>. QED BY <2>1, <1>1, <1>3 DEF Timely, InCallback
<1>7. Placement'
  <2> SUFFICES ASSUME NEW a \in Addresses, NEW n \in slots'[a]
               PROVE  /\ node[n].expires >= j + 1
                      /\ WaitsIn(node[n].expires, a, j + 1)
    BY <1>3 DEF Placement
  <2> DEFINE e == node[n].expires
  <2>1. a # Near(index) /\ n \in s[a]
    BY <1>4
  <2>2. e \in Nat /\ e >= j /\ WaitsPast(e, a, j, 4)
    BY <2>1, <1>1 DEF Ready, j
  <2> HIDE DEF e
  <2>3. CASE a = Near(e % TVR_SIZE)
    <3>1. e # j
      BY <2>1, <2>3 DEF j
    <3>. QED BY <3>1, <2>2, <2>3, <1>1 DEF WaitsIn, e
  <2>4. ASSUME NEW b \in Levels, NEW t \in 0 .. e,
               a = Bucket(b, t % TVN_SIZE),
               j <= t * Span(b), t * Span(b) <= e,
               t * Span(b) = j => b >= 4
        PROVE  e >= j + 1 /\ WaitsIn(e, a, j + 1)
    <3>1. b \in 0 .. 3 /\ Span(b) \in Nat
      BY SpanGrows, Levels \subseteq 0 .. 4 DEF Levels, WHEEL_BUCKETS
    <3>2. t * Span(b) \in Nat
      BY <3>1
    <3>3. j + 1 <= t * Span(b)
      BY <3>1, <3>2, <2>4, <1>1
    <3>. QED BY <3>2, <3>3, <2>4, <2>2, <1>1 DEF WaitsIn
  <2>. QED BY <2>2, <2>3, <2>4 DEF WaitsPast, e
<1>. QED BY <1>5, <1>6, <1>7

\* Every step but a tick and an added timer leaves the lists or shrinks them,
\* and leaves the clock and the due times of listed timers alone.
LEMMA StillWaiting ==
  ASSUME Placement, jiffies' = jiffies,
         \A a \in Addresses : slots'[a] \subseteq slots[a],
         \A a \in Addresses : \A n \in slots'[a] : node'[n].expires = node[n].expires
  PROVE  Placement'
BY DEF Placement

\* Every action keeps the inductive invariant.
LEMMA InductiveStep ==
  ASSUME IInv, TypeOK', [Next]_vars
  PROVE  IInv'
<1> USE DEF IInv
<1>0. /\ None \notin TimerIds
      /\ \A n : n \in InLists <=> \E a \in Addresses : n \in slots[a]
      /\ \A n : n \in InLists' <=> \E a \in Addresses : n \in slots'[a]
  BY WheelAssumption DEF None, TimerIds, InLists
<1>1. ASSUME NEW ms_time \in Delays, NEW cb \in CbKinds, AddTimer(ms_time, cb)
      PROVE  IInv'
  <2> DEFINE e == jiffies + ms_time
             list == ListFor(e, jiffies)
  <2>1. e \in Nat /\ jiffies \in Nat /\ jiffies <= e
    BY WheelAssumption DEF TypeOK
  <2> HIDE DEF e
  <2>2. list \in Addresses /\ WaitsIn(e, list, jiffies)
    BY <2>1, ListForWaits, ReadyToWaits
  <2> HIDE DEF list
  <2>30. \A a \in Addresses : slots'[a] = IF a = list THEN slots[a] \cup {counter} ELSE slots[a]
    <3>1. slots' = [slots EXCEPT ![list] = @ \cup {counter}]
      BY <1>1 DEF AddTimer, DueTick, list, e
    <3>. QED BY <3>1, <2>2 DEF TypeOK
  <2>31. \A a \in Addresses : \A n : n \in slots'[a] <=> (n \in slots[a] \/ (a = list /\ n = counter))
    BY <2>30
  <2>32. DOMAIN node' = (DOMAIN node) \cup {counter} /\ node'[counter].expires = e
    BY <1>1 DEF AddTimer, DueTick, e
  <2>3. /\ counter \in Nat /\ counter' = counter + 1
        /\ ref' = ref \cup {counter} /\ nullref' = nullref \ {counter}
        /\ alive /\ UNCHANGED <<alive, jiffies, ticks, expired, running>>
    BY <1>1 DEF AddTimer, DueTick, CallerRuns, loop, TypeOK
  <2>4. counter \notin DOMAIN node
    BY <2>3 DEF Fresh
  <2>5. \A n \in DOMAIN node : node'[n] = node[n]
    BY <1>1, <2>4 DEF AddTimer, DueTick
  <2>6. InLists' = InLists \cup {counter}
    BY <1>0, <2>2, <2>31
  <2>7. OneOwner'
    <3>1. counter \notin InLists \cup expired \cup InCallback
      BY <2>4 DEF OneOwner
    <3>2. InCallback' = InCallback
      BY <2>3 DEF InCallback
    <3>3. DOMAIN node' = InLists' \cup expired' \cup InCallback'
      BY <2>3, <2>32, <2>6, <3>2 DEF OneOwner
    <3>4. \A a, b \in Addresses : a # b => slots'[a] \cap slots'[b] = {}
      BY <2>31, <3>1, <1>0 DEF OneOwner
    <3>5. running \notin InLists' \cup expired
      <4>1. running # counter
        BY <3>1, <2>3, <1>0 DEF InCallback, TypeOK, None
      <4>. QED BY <4>1, <2>6 DEF OneOwner
    <3>. QED BY <2>3, <2>6, <3>1, <3>3, <3>4, <3>5 DEF OneOwner
  <2>8. RefExact'
    BY <2>3, <2>32 DEF RefExact
  <2>9. Placement'
    <3> SUFFICES ASSUME NEW a \in Addresses, NEW n \in slots'[a]
                 PROVE  node'[n].expires >= jiffies /\ WaitsIn(node'[n].expires, a, jiffies)
      BY <2>3 DEF Placement
    <3>1. CASE n = counter
      <4>1. a = list
        BY <3>1, <2>31, <2>4, <1>0 DEF OneOwner
      <4>. QED BY <4>1, <3>1, <2>1, <2>2, <2>32
    <3>2. CASE n # counter
      <4>1. n \in slots[a] /\ n \in DOMAIN node
        <5>1. n \in slots[a]
          BY <3>2, <2>31
        <5>. QED BY <5>1, <1>0 DEF OneOwner
      <4>. QED BY <4>1, <2>5 DEF Placement
    <3>. QED BY <3>1, <3>2
  <2>10. Timely'
    BY <2>3, <2>5, <1>0 DEF Timely, InCallback, OneOwner
  <2>11. Fresh'
    BY <2>3, <2>32 DEF Fresh, TypeOK, TimerIds
  <2>12. Gone'
    BY <2>3 DEF Gone
  <2>. QED BY <2>7, <2>8, <2>9, <2>10, <2>11, <2>12
<1>2. ASSUME NEW id \in TimerIds, CancelKnown(id)
      PROVE  IInv'
  <2>1. /\ DOMAIN node' = DOMAIN node
        /\ alive
        /\ UNCHANGED <<alive, slots, ref, nullref, counter, jiffies, ticks, expired, running>>
    BY <1>2 DEF CancelKnown, CallerRuns, loop
  <2>2. \A n \in DOMAIN node : node'[n].expires = node[n].expires
    <3> TAKE n \in DOMAIN node
    <3>1. node'[n] = IF n = id THEN [node[n] EXCEPT !.canceled = TRUE] ELSE node[n]
      BY <1>2 DEF CancelKnown
    <3>2. node[n] \in [canceled : BOOLEAN, expires : Nat, cb : BOOLEAN]
      BY DEF TypeOK
    <3>. QED BY <3>1, <3>2
  <2>3. Placement'
    <3>1. \A a \in Addresses : \A n \in slots'[a] : n \in DOMAIN node
      BY <1>0, <2>1 DEF OneOwner
    <3>. QED BY <3>1, <2>1, <2>2, StillWaiting
  <2>4. OneOwner' /\ RefExact' /\ Timely' /\ Fresh' /\ Gone'
    BY <1>0, <2>1, <2>2 DEF OneOwner, RefExact, Timely, Fresh, Gone, InLists, InCallback
  <2>. QED BY <2>3, <2>4
<1>3. ASSUME NEW id \in TimerIds, CancelUnknown(id)
      PROVE  IInv'
  <2>1. /\ id \notin ref /\ nullref' = nullref \cup {id}
        /\ UNCHANGED <<alive, slots, node, ref, counter, jiffies, ticks, expired, running>>
    BY <1>3 DEF CancelUnknown, loop
  <2>2. Placement'
    BY <2>1, StillWaiting
  <2>3. OneOwner'
    BY <2>1 DEF OneOwner, InLists, InCallback
  <2>4. RefExact'
    BY <2>1 DEF RefExact
  <2>5. Timely' /\ Fresh' /\ Gone'
    BY <2>1 DEF Timely, Fresh, Gone, InCallback
  <2>. QED BY <2>2, <2>3, <2>4, <2>5
<1>4. ASSUME NEW d \in Elapsed, Update(d)
      PROVE  IInv'
  <2>1. /\ alive
        /\ UNCHANGED <<alive, slots, node, ref, nullref, counter, jiffies, expired, running>>
    BY <1>4 DEF Update, wheel
  <2>2. Placement'
    BY <2>1, StillWaiting
  <2>3. OneOwner'
    BY <2>1 DEF OneOwner, InLists, InCallback
  <2>4. RefExact'
    BY <2>1 DEF RefExact
  <2>5. Timely' /\ Fresh' /\ Gone'
    BY <2>1 DEF Timely, Fresh, Gone, InCallback
  <2>. QED BY <2>2, <2>3, <2>4, <2>5
<1>5. CASE Tick
  <2>1. /\ ticks > 0 /\ UNCHANGED <<alive, node, ref, nullref, counter>>
    BY <1>5 DEF Tick
  <2>2. alive
    BY <2>1 DEF Gone
  <2>. QED BY <1>5, <2>1, <2>2, TickKeeps DEF RefExact, Fresh, Gone
<1>6. ASSUME NEW n \in expired, StartCallback(n)
      PROVE  IInv'
  <2>1. /\ running = None /\ running' = n /\ expired' = expired \ {n}
        /\ UNCHANGED <<alive, slots, node, ref, nullref, counter, jiffies, ticks>>
    BY <1>6 DEF StartCallback, Runnable, wheel
  <2>2. Placement'
    BY <2>1, StillWaiting
  <2>3. n # None
    BY <1>0 DEF TypeOK
  <2>4. InLists' = InLists /\ InCallback' = {n} /\ InCallback = {}
    BY <2>1, <2>3 DEF InLists, InCallback
  <2>5. OneOwner'
    BY <2>1, <2>3, <2>4 DEF OneOwner
  <2>. QED BY <2>1, <2>2, <2>4, <2>5 DEF RefExact, Timely, Fresh, Gone
<1>7. ASSUME NEW n \in expired, SkipNode(n)
      PROVE  IInv'
  <2>1. /\ running = None /\ expired' = expired \ {n}
        /\ ref' = ref \ {n} /\ nullref' = nullref \ {n}
        /\ DOMAIN node' = (DOMAIN node) \ {n}
        /\ \A m \in DOMAIN node' : node'[m] = node[m]
        /\ UNCHANGED <<alive, slots, counter, jiffies, ticks, running>>
    BY <1>7 DEF SkipNode, Free, EraseRef, Runnable
  <2>2. InLists' = InLists /\ InCallback' = {} /\ InCallback = {}
    BY <2>1 DEF InLists, InCallback
  <2>3. OneOwner'
    BY <2>1, <2>2 DEF OneOwner
  <2>4. Placement'
    <3>1. \A a \in Addresses : \A m \in slots'[a] : m \in DOMAIN node'
      BY <1>0, <2>3 DEF OneOwner
    <3>. QED BY <3>1, <2>1, StillWaiting
  <2>5. Timely'
    BY <2>1, <2>2, <2>3 DEF Timely, OneOwner
  <2>. QED BY <2>1, <2>3, <2>4, <2>5 DEF RefExact, Fresh, Gone
<1>8. CASE CallbackReturns
  <2>1. /\ running # None /\ running' = None
        /\ ref' = ref \ {running} /\ nullref' = nullref \ {running}
        /\ DOMAIN node' = (DOMAIN node) \ {running}
        /\ \A m \in DOMAIN node' : node'[m] = node[m]
        /\ UNCHANGED <<alive, slots, counter, jiffies, ticks, expired>>
    BY <1>8 DEF CallbackReturns, Free, EraseRef
  <2>2. InLists' = InLists /\ InCallback' = {} /\ InCallback = {running}
    BY <2>1 DEF InLists, InCallback
  <2>3. None \notin InLists \cup expired
    <3>1. None \notin DOMAIN node
      BY <1>0 DEF TypeOK
    <3>. QED BY <3>1 DEF OneOwner
  <2>4. OneOwner'
    BY <2>1, <2>2, <2>3 DEF OneOwner
  <2>5. Placement'
    <3>1. \A a \in Addresses : \A m \in slots'[a] : m \in DOMAIN node'
      BY <1>0, <2>4 DEF OneOwner
    <3>. QED BY <3>1, <2>1, StillWaiting
  <2>6. Timely'
    BY <2>1, <2>2, <2>4 DEF Timely, OneOwner
  <2>. QED BY <2>1, <2>4, <2>5, <2>6 DEF RefExact, Fresh, Gone
<1>9. CASE Destroy
  <2>1. /\ ticks = 0 /\ expired = {} /\ running = None
        /\ \A a \in Addresses : slots'[a] = {}
        /\ ref' = {} /\ nullref' = {}
        /\ DOMAIN node' = (DOMAIN node) \ InLists
        /\ UNCHANGED <<counter, jiffies, ticks, expired, running>>
    BY <1>9 DEF Destroy, Idle, Free, ClearedIds, loop
  <2>2. DOMAIN node' = {}
    BY <2>1 DEF OneOwner, InCallback
  <2>3. InLists' = {}
    BY <1>0, <2>1
  <2>4. OneOwner'
    BY <2>1, <2>2, <2>3 DEF OneOwner, InCallback
  <2>5. Placement'
    BY <2>1 DEF Placement
  <2>. QED BY <2>1, <2>2, <2>4, <2>5 DEF RefExact, Timely, Fresh, Gone, InCallback
<1>10. CASE UNCHANGED vars
  <2>1. UNCHANGED <<alive, slots, node, ref, nullref, counter, jiffies, ticks, expired, running>>
    BY <1>10 DEF vars, wheel, loop
  <2>2. Placement'
    BY <2>1, StillWaiting
  <2>3. OneOwner'
    BY <2>1 DEF OneOwner, InLists, InCallback
  <2>4. RefExact'
    BY <2>1 DEF RefExact
  <2>5. Timely' /\ Fresh' /\ Gone'
    BY <2>1 DEF Timely, Fresh, Gone, InCallback
  <2>. QED BY <2>2, <2>3, <2>4, <2>5
<1>. QED BY <1>1, <1>2, <1>3, <1>4, <1>5, <1>6, <1>7, <1>8, <1>9, <1>10 DEF Next

\* The inductive invariant holds in every reachable state.
THEOREM Inductive == Spec => []IInv
<1>1. Init => IInv
  <2> SUFFICES ASSUME Init PROVE IInv
    OBVIOUS
  <2>1. TypeOK
    BY WheelAssumption DEF Init, TypeOK, TimerIds, None
  <2>2. InLists = {} /\ InCallback = {}
    BY DEF Init, InLists, InCallback
  <2>. QED BY <2>1, <2>2 DEF Init, IInv, OneOwner, RefExact, Placement, Timely, Fresh, Gone
<1>2. IInv /\ TypeOK' /\ [Next]_vars => IInv'
  BY InductiveStep
<1>. QED BY <1>1, <1>2, TypeCorrect, PTL DEF Spec

\* No node is ever lost, held twice, freed while held, or missed by ref_, and a
\* destroyed wheel has freed every node (wheel_timer.cpp:35-49, 140-197).
THEOREM Ownership == Spec => []NodesAccounted
<1>1. IInv => NodesAccounted
  BY DEF IInv, Gone, NothingLeaks, NodesAccounted
<1>. QED BY <1>1, Inductive, PTL

\* Whatever the sizes of the levels and however late update() is called, no
\* tick passes a timer that is due (wheel_timer.cpp:77-123, 169-178).
THEOREM NoTimerLeftBehind == Spec => []NeverLate
<1>1. IInv => NeverLate
  BY DEF IInv, Placement, Timely, NeverLate, InLists
<1>. QED BY <1>1, Inductive, PTL

-------------------------------------------------------------------------------
(***************************************************************************)
(* Refinement.                                                             *)
(***************************************************************************)
\* The wheel implements TimerService: each id fires at most once, never after
\* a cancel and never without a callback, and time never overtakes it.
THEOREM Refinement == Spec => ImplementsTimerService
<1>1. Init => Service!Init
  <2> SUFFICES ASSUME Init PROVE Service!Init
    OBVIOUS
  <2>1. PendingIds = {}
    BY DEF Init, PendingIds
  <2>2. PendingView = [id \in {} |-> 0]
    BY <2>1 DEF PendingView
  <2>. QED BY <2>2 DEF Init, Service!Init
<1>2. IInv /\ IInv' /\ [Next]_vars => [Service!Next]_(Service!vars)
  <2> SUFFICES ASSUME IInv, IInv', [Next]_vars
               PROVE  Service!Next \/ UNCHANGED Service!vars
    OBVIOUS
  <2> DEFINE View(n) == [due |-> node[n].expires, cb |-> node[n].cb]
             View1(n) == [due |-> node'[n].expires, cb |-> node'[n].cb]
  <2>0. /\ PendingView = [n \in PendingIds |-> View(n)]
        /\ PendingView' = [n \in PendingIds' |-> View1(n)]
        /\ DOMAIN PendingView = PendingIds
        /\ PendingIds = {n \in DOMAIN node : ~node[n].canceled /\ n # running}
        /\ PendingIds' = {n \in DOMAIN node' : ~node'[n].canceled /\ n # running'}
    BY DEF PendingView, PendingIds
  \* a step that leaves the pending timers as they are, but for those of S
  <2>a. ASSUME NEW S, PendingIds' = PendingIds \ S,
               \A n \in PendingIds' : View1(n) = View(n)
        PROVE  PendingView' = Service!Without(S)
    BY <2>a, <2>0 DEF Service!Without
  <2>b. ASSUME PendingIds' = PendingIds, \A n \in PendingIds' : View1(n) = View(n)
        PROVE  PendingView' = PendingView
    BY <2>b, <2>0
  <2>1. ASSUME NEW ms_time \in Delays, NEW cb \in CbKinds, AddTimer(ms_time, cb)
        PROVE  Service!Next
    <3>1. counter \notin DOMAIN node /\ counter # running /\ counter \in TimerIds
      <4>1. counter \in TimerIds
        BY <2>1, WheelAssumption DEF IInv, AddTimer, TypeOK, TimerIds
      <4>2. counter \notin DOMAIN node
        BY <4>1, WheelAssumption DEF IInv, Fresh, TimerIds
      <4>3. counter # None
        BY <4>1, WheelAssumption DEF TimerIds, None
      <4>4. running # None => running \in DOMAIN node
        BY DEF IInv, OneOwner, InCallback
      <4>. QED BY <4>1, <4>2, <4>3, <4>4
    <3>2. /\ DOMAIN node' = (DOMAIN node) \cup {counter}
          /\ node'[counter] = [canceled |-> FALSE, expires |-> jiffies + ms_time, cb |-> cb]
          /\ \A n \in DOMAIN node : node'[n] = node[n]
          /\ counter' = counter + 1
          /\ UNCHANGED <<jiffies, running, calls>>
      BY <2>1, <3>1 DEF AddTimer, DueTick, loop
    <3>3. PendingIds' = PendingIds \cup {counter} /\ counter \notin PendingIds
      BY <2>0, <3>1, <3>2
    <3>4. PendingView' = [n \in PendingIds \cup {counter} |->
                            IF n = counter THEN [due |-> jiffies + ms_time, cb |-> cb]
                                           ELSE PendingView[n]]
      BY <2>0, <3>2, <3>3
    <3>5. Service!Add(ms_time, cb)
      BY <2>0, <3>1, <3>2, <3>4 DEF Service!Add
    <3>. QED BY <3>5, WheelAssumption DEF Service!Next
  <2>2. ASSUME NEW id \in TimerIds, CancelKnown(id)
        PROVE  Service!Next \/ UNCHANGED Service!vars
    <3>1. /\ id \in DOMAIN node
          /\ DOMAIN node' = DOMAIN node
          /\ \A n \in DOMAIN node : n # id => node'[n] = node[n]
          /\ node'[id] = [node[id] EXCEPT !.canceled = TRUE]
          /\ UNCHANGED <<jiffies, counter, running, calls>>
      BY <2>2 DEF CancelKnown, loop, IInv, RefExact
    <3>2. node'[id].canceled
      BY <3>1 DEF IInv, TypeOK
    <3>3. PendingIds' = PendingIds \ {id}
      BY <2>0, <3>1, <3>2
    <3>4. \A n \in PendingIds' : View1(n) = View(n)
      BY <2>0, <3>1, <3>3
    <3>5. CASE id \in PendingIds
      <4>1. Service!Cancel(id)
        BY <2>0, <2>a, <3>1, <3>3, <3>4, <3>5 DEF Service!Cancel
      <4>. QED BY <4>1, <2>0, <3>5 DEF Service!Next
    <3>6. CASE id \notin PendingIds
      BY <2>b, <3>1, <3>3, <3>4, <3>6 DEF Service!vars
    <3>. QED BY <3>5, <3>6
  <2>3. CASE UNCHANGED <<node, running, jiffies, counter, calls>>
    BY <2>3, <2>0 DEF Service!vars
  <2>4. ASSUME NEW id \in TimerIds, CancelUnknown(id)
        PROVE  Service!Next \/ UNCHANGED Service!vars
    BY <2>3, <2>4 DEF CancelUnknown, loop
  <2>5. ASSUME NEW d \in Elapsed, Update(d)
        PROVE  Service!Next \/ UNCHANGED Service!vars
    BY <2>3, <2>5 DEF Update, wheel
  <2>6. CASE Tick
    <3>1. /\ expired = {} /\ running = None /\ jiffies' = jiffies + 1
          /\ UNCHANGED <<node, counter, running, calls>>
      BY <2>6 DEF Tick
    <3>2. PendingView' = PendingView
      BY <2>0, <2>b, <3>1
    <3>3. \A n \in PendingIds : n \in InLists
      BY <2>0, <3>1 DEF IInv, OneOwner, InCallback
    <3>4. \A n \in InLists : node[n].expires >= jiffies
      BY DEF IInv, Placement, InLists
    <3>5. \A n \in DOMAIN PendingView : PendingView[n].due >= jiffies
      BY <2>0, <3>3, <3>4
    <3>6. Service!Advance
      BY <3>1, <3>2, <3>5 DEF Service!Advance
    <3>. QED BY <3>6 DEF Service!Next
  <2>7. ASSUME NEW n \in expired, StartCallback(n)
        PROVE  Service!Next
    <3>1. /\ running = None /\ ~node[n].canceled /\ node[n].cb
          /\ running' = n /\ calls' = [calls EXCEPT ![n] = @ + 1]
          /\ UNCHANGED <<node, jiffies, counter>>
      BY <2>7 DEF StartCallback, Runnable, wheel
    <3>2. n \in DOMAIN node /\ n # None
      BY WheelAssumption DEF IInv, OneOwner, TypeOK, TimerIds, None
    <3>3. n \in PendingIds /\ PendingIds' = PendingIds \ {n} /\ None \notin DOMAIN node
      BY <2>0, <3>1, <3>2, WheelAssumption DEF IInv, TypeOK, TimerIds, None
    <3>4. PendingView[n].cb
      BY <2>0, <3>1, <3>3
    <3>5. PendingView' = Service!Without({n})
      BY <2>a, <3>1, <3>3
    <3>6. Service!Fire(n)
      BY <2>0, <3>1, <3>3, <3>4, <3>5 DEF Service!Fire
    <3>. QED BY <3>6, <2>0, <3>3 DEF Service!Next
  <2>8. ASSUME NEW n \in expired, SkipNode(n)
        PROVE  Service!Next \/ UNCHANGED Service!vars
    <3>1. /\ running = None /\ (node[n].canceled \/ ~node[n].cb)
          /\ DOMAIN node' = (DOMAIN node) \ {n}
          /\ \A m \in DOMAIN node' : node'[m] = node[m]
          /\ UNCHANGED <<running, jiffies, counter, calls>>
      BY <2>8 DEF SkipNode, Free, EraseRef, Runnable
    <3>2. PendingIds' = PendingIds \ {n} /\ \A m \in PendingIds' : View1(m) = View(m)
      BY <2>0, <3>1
    <3>3. CASE n \in PendingIds
      <4>1. ~PendingView[n].cb
        BY <2>0, <3>1, <3>3
      <4>2. Service!Drop(n)
        BY <2>0, <2>a, <3>1, <3>2, <3>3, <4>1 DEF Service!Drop
      <4>. QED BY <4>2, <2>0, <3>3 DEF Service!Next
    <3>4. CASE n \notin PendingIds
      BY <2>b, <3>1, <3>2, <3>4 DEF Service!vars
    <3>. QED BY <3>3, <3>4
  <2>9. CASE CallbackReturns
    <3>1. /\ running # None /\ running' = None
          /\ DOMAIN node' = (DOMAIN node) \ {running}
          /\ \A m \in DOMAIN node' : node'[m] = node[m]
          /\ UNCHANGED <<jiffies, counter, calls>>
      BY <2>9 DEF CallbackReturns, Free, EraseRef
    <3>2. None \notin DOMAIN node
      BY WheelAssumption DEF IInv, TypeOK, TimerIds, None
    <3>3. PendingIds' = PendingIds /\ \A m \in PendingIds' : View1(m) = View(m)
      BY <2>0, <3>1, <3>2
    <3>. QED BY <2>b, <3>1, <3>3 DEF Service!vars
  <2>10. CASE Destroy
    <3>1. /\ running = None /\ expired = {}
          /\ DOMAIN node' = (DOMAIN node) \ InLists
          /\ UNCHANGED <<running, jiffies, counter, calls>>
      BY <2>10 DEF Destroy, Idle, Free, ClearedIds, loop
    <3>2. DOMAIN node' = {}
      BY <3>1 DEF IInv, OneOwner, InCallback
    <3>3. PendingIds' = PendingIds \ PendingIds
      BY <2>0, <3>2
    <3>4. PendingView' = Service!Without(PendingIds)
      BY <2>a, <3>3
    <3>5. Service!Close
      BY <2>0, <3>1, <3>4 DEF Service!Close
    <3>. QED BY <3>5 DEF Service!Next
  <2>11. CASE UNCHANGED vars
    BY <2>3, <2>11 DEF vars, wheel, loop, Service!vars
  <2>. QED BY <2>1, <2>2, <2>4, <2>5, <2>6, <2>7, <2>8, <2>9, <2>10, <2>11 DEF Next
<1>. QED BY <1>1, <1>2, Inductive, PTL DEF Spec, Service!Spec, ImplementsTimerService

-------------------------------------------------------------------------------
(***************************************************************************)
(* What size() counts.                                                     *)
(***************************************************************************)
\* The timers size_ may count: those still to fire and the one firing.
Countable == PendingIds \cup InCallback

\* Every node has a callback that can be called.
AllCallable == \A n \in DOMAIN node : node[n].cb

\* The ids are finitely many, and so are the timers.
LEMMA TimersFinite ==
  ASSUME NEW S \in SUBSET TimerIds
  PROVE  /\ IsFiniteSet(S) /\ Cardinality(S) \in Nat
         /\ \A n : IsFiniteSet(S \ {n}) /\ Cardinality(S \ {n}) \in Nat
                     /\ Cardinality(S \ {n}) >= Cardinality(S) - 1
<1>1. IsFiniteSet(TimerIds)
  BY WheelAssumption, FS_Interval DEF TimerIds
<1>2. IsFiniteSet(S) /\ Cardinality(S) \in Nat
  BY <1>1, FS_Subset, FS_CardinalityType
<1>3. ASSUME NEW n
      PROVE  IsFiniteSet(S \ {n}) /\ Cardinality(S \ {n}) \in Nat
               /\ Cardinality(S \ {n}) >= Cardinality(S) - 1
  <2>1. IsFiniteSet(S \ {n})
    BY <1>2, FS_RemoveElement
  <2>2. Cardinality(S \ {n}) \in Nat
    BY <2>1, FS_CardinalityType
  <2>3. Cardinality(S \ {n}) = IF n \in S THEN Cardinality(S) - 1 ELSE Cardinality(S)
    BY <1>2, FS_RemoveElement
  <2>. QED BY <1>2, <2>1, <2>2, <2>3
<1>. QED BY <1>2, <1>3

\* A step changes size_ by as much as it changes the timers at the most.
LEMMA SizeStep ==
  ASSUME CbKinds \subseteq {TRUE}, IInv, TypeOK', AllCallable, SizeNeverOvercounts, [Next]_vars
  PROVE  AllCallable' /\ SizeNeverOvercounts'
<1> USE DEF SizeNeverOvercounts
<1> DEFINE U == Countable
<1>1. /\ IsFiniteSet(U) /\ Cardinality(U) \in Nat /\ size \in Int
      /\ IsFiniteSet(U') /\ Cardinality(U') \in Nat /\ size' \in Int
      /\ alive => size <= Cardinality(U)
  <2>1. U \in SUBSET TimerIds /\ size \in Int
    BY WheelAssumption DEF IInv, TypeOK, Countable, PendingIds, InCallback, None, TimerIds
  <2>2. U' \in SUBSET TimerIds /\ size' \in Int
    BY WheelAssumption DEF TypeOK, Countable, PendingIds, InCallback, None, TimerIds
  <2>3. IsFiniteSet(U) /\ Cardinality(U) \in Nat /\ IsFiniteSet(U') /\ Cardinality(U') \in Nat
    BY <2>1, <2>2, TimersFinite
  <2>. QED BY <2>1, <2>2, <2>3 DEF Countable
<1>2. /\ PendingIds = {n \in DOMAIN node : ~node[n].canceled /\ n # running}
      /\ PendingIds' = {n \in DOMAIN node' : ~node'[n].canceled /\ n # running'}
  BY DEF PendingIds
<1>3. None \notin DOMAIN node
  BY WheelAssumption DEF IInv, TypeOK, TimerIds, None
\* the timers stay, or lose one that is counted off
<1>4. ASSUME alive' => alive, U \subseteq U', size' <= size
      PROVE  SizeNeverOvercounts'
  <2>1. Cardinality(U) <= Cardinality(U')
    BY <1>1, <1>4, FS_Subset
  <2>. QED BY <1>1, <1>4, <2>1 DEF Countable
<1>5. ASSUME alive' => alive, NEW n, U \ {n} \subseteq U', size' = size - 1
      PROVE  SizeNeverOvercounts'
  <2>1. Cardinality(U \ {n}) >= Cardinality(U) - 1 /\ IsFiniteSet(U \ {n})
        /\ Cardinality(U \ {n}) \in Nat
    <3>1. U \in SUBSET TimerIds
      BY WheelAssumption DEF IInv, TypeOK, Countable, PendingIds, InCallback, None, TimerIds
    <3>. QED BY <3>1, TimersFinite
  <2>2. Cardinality(U \ {n}) <= Cardinality(U')
    BY <1>1, <1>5, FS_Subset
  <2>. QED BY <1>1, <1>5, <2>1, <2>2 DEF Countable
<1> HIDE DEF U
<1>6. U = PendingIds \cup InCallback /\ U' = PendingIds' \cup InCallback'
  BY DEF U, Countable
<1>7. ASSUME NEW ms_time \in Delays, NEW cb \in CbKinds, AddTimer(ms_time, cb)
      PROVE  AllCallable' /\ SizeNeverOvercounts'
  <2>1. /\ DOMAIN node' = (DOMAIN node) \cup {counter}
        /\ node'[counter].canceled = FALSE /\ node'[counter].cb = cb
        /\ \A n \in (DOMAIN node) \ {counter} : node'[n] = node[n]
        /\ running' = running /\ size' = size + 1 /\ alive' = alive
    BY <1>7 DEF AddTimer, loop
  <2>2. counter \in Nat /\ counter \notin DOMAIN node /\ counter # running
    <3>1. counter \in Nat /\ \A n \in DOMAIN node : n \in Nat /\ n < counter
      BY WheelAssumption DEF IInv, Fresh, TypeOK, TimerIds
    <3>2. running # None => running \in DOMAIN node
      BY DEF IInv, OneOwner, InCallback
    <3>. QED BY <3>1, <3>2 DEF None
  <2>3. U' = U \cup {counter} /\ counter \notin U
    BY <1>2, <1>6, <2>1, <2>2 DEF InCallback
  <2>4. Cardinality(U') = Cardinality(U) + 1
    BY <1>1, <2>3, FS_AddElement
  <2>5. SizeNeverOvercounts'
    BY <1>1, <2>1, <2>4 DEF U, Countable
  <2>. QED BY <2>1, <2>2, <2>5 DEF AllCallable
<1>8. ASSUME NEW id \in TimerIds, CancelKnown(id)
      PROVE  AllCallable' /\ SizeNeverOvercounts'
  <2>1. /\ DOMAIN node' = DOMAIN node /\ running' = running
        /\ size' = size - 1 /\ alive' = alive
        /\ \A n \in (DOMAIN node) \ {id} : node'[n] = node[n]
    BY <1>8 DEF CancelKnown, loop
  <2>2. \A n \in DOMAIN node : node'[n].cb = node[n].cb
    BY <1>8 DEF CancelKnown, IInv, TypeOK
  <2>3. U \ {id} \subseteq U'
    BY <1>2, <1>6, <2>1 DEF InCallback
  <2>. QED BY <1>5, <2>1, <2>2, <2>3 DEF AllCallable
<1>9. ASSUME NEW id \in TimerIds, CancelUnknown(id)
      PROVE  AllCallable' /\ SizeNeverOvercounts'
  <2>1. UNCHANGED <<alive, node, running, size>>
    BY <1>9 DEF CancelUnknown, loop
  <2>. QED BY <1>1, <1>2, <1>4, <1>6, <2>1 DEF AllCallable, InCallback
<1>10. ASSUME NEW d \in Elapsed, Update(d)
       PROVE  AllCallable' /\ SizeNeverOvercounts'
  <2>1. UNCHANGED <<alive, node, running, size>>
    BY <1>10 DEF Update, wheel
  <2>. QED BY <1>1, <1>2, <1>4, <1>6, <2>1 DEF AllCallable, InCallback
<1>11. CASE Tick
  <2>1. UNCHANGED <<alive, node, running, size>>
    BY <1>11 DEF Tick
  <2>. QED BY <1>1, <1>2, <1>4, <1>6, <2>1 DEF AllCallable, InCallback
<1>12. ASSUME NEW n \in expired, StartCallback(n)
       PROVE  AllCallable' /\ SizeNeverOvercounts'
  <2>1. running = None /\ running' = n /\ UNCHANGED <<alive, node, size>>
    BY <1>12 DEF StartCallback, wheel
  <2>2. n \in DOMAIN node
    BY DEF IInv, OneOwner
  <2>3. U \subseteq U'
    BY <1>2, <1>3, <1>6, <2>1, <2>2 DEF InCallback
  <2>. QED BY <1>1, <1>4, <2>1, <2>3 DEF AllCallable
\* a node the loop passes over is a cancelled one: size_ has it counted off
<1>13. ASSUME NEW n \in expired, SkipNode(n)
       PROVE  AllCallable' /\ SizeNeverOvercounts'
  <2>1. /\ running = None /\ (node[n].canceled \/ ~node[n].cb)
        /\ DOMAIN node' = (DOMAIN node) \ {n}
        /\ \A m \in DOMAIN node' : node'[m] = node[m]
        /\ UNCHANGED <<running, alive, size>>
    BY <1>13 DEF SkipNode, Free, EraseRef, Runnable
  <2>2. n \in DOMAIN node
    BY DEF IInv, OneOwner
  <2>3. node[n].canceled
    BY <2>1, <2>2 DEF AllCallable
  <2>4. U \subseteq U'
    BY <1>2, <1>6, <2>1, <2>3 DEF InCallback
  <2>. QED BY <1>1, <1>4, <2>1, <2>4 DEF AllCallable
<1>14. CASE CallbackReturns
  <2>1. /\ running' = None /\ size' = size - 1 /\ alive' = alive
        /\ DOMAIN node' = (DOMAIN node) \ {running}
        /\ \A m \in DOMAIN node' : node'[m] = node[m]
    BY <1>14 DEF CallbackReturns, Free, EraseRef
  <2>2. U \ {running} \subseteq U'
    BY <1>2, <1>3, <1>6, <2>1 DEF InCallback
  <2>. QED BY <1>5, <2>1, <2>2 DEF AllCallable
<1>15. CASE Destroy
  <2>1. alive' = FALSE /\ \A m \in DOMAIN node' : m \in DOMAIN node /\ node'[m] = node[m]
    BY <1>15 DEF Destroy, Free
  <2>. QED BY <2>1 DEF AllCallable
<1>16. CASE UNCHANGED vars
  <2>1. UNCHANGED <<alive, node, running, size>>
    BY <1>16 DEF vars, wheel, loop
  <2>. QED BY <1>1, <1>2, <1>4, <1>6, <2>1 DEF AllCallable, InCallback
<1>. QED BY <1>7, <1>8, <1>9, <1>10, <1>11, <1>12, <1>13, <1>14, <1>15, <1>16 DEF Next

\* When every callback is callable size_ never counts a timer that neither
\* waits nor fires (wheel_timer.cpp:135, 146, 187-197): "while (size() > 0)
\* update()" ends, however often a timer is cancelled.
THEOREM SizeBounded == CbKinds \subseteq {TRUE} => (Spec => []SizeNeverOvercounts)
<1> SUFFICES ASSUME CbKinds \subseteq {TRUE} PROVE Spec => []SizeNeverOvercounts
  OBVIOUS
<1>1. Init => AllCallable /\ SizeNeverOvercounts
  <2> SUFFICES ASSUME Init PROVE AllCallable /\ SizeNeverOvercounts
    OBVIOUS
  <2>1. PendingIds \cup InCallback = {} /\ size = 0
    BY DEF Init, PendingIds, InCallback
  <2>. QED BY <2>1, FS_EmptySet DEF Init, AllCallable, SizeNeverOvercounts
<1>2. IInv /\ TypeOK' /\ AllCallable /\ SizeNeverOvercounts /\ [Next]_vars
        => AllCallable' /\ SizeNeverOvercounts'
  BY SizeStep
<1>. QED BY <1>1, <1>2, TypeCorrect, Inductive, PTL DEF Spec
===============================================================================
