----------------------- MODULE ProxiedRequestsProofs -----------------------
(***************************************************************************)
(* Theorems about ProxiedRequests, for any processors, proxies, hosts,     *)
(* limits and numbers of URLs: the types, that requests that are under way *)
(* have slots, that no result is lost or comes twice, and that a processor *)
(* that ends leaves no URLs behind.  The lists of the model are filtered   *)
(* and gone through by recursive functions: the first lemmas say when a    *)
(* recursive function has a value, and what the filter Only yields.        *)
(***************************************************************************)
EXTENDS ProxiedRequests, FiniteSetTheorems, TLAPS

-----------------------------------------------------------------------------
(* Induction and recursion                                                 *)

\* A set of numbers that holds 0 and with each number the next holds them all.
LEMMA SetInduction ==
    ASSUME NEW n \in Nat, NEW S, 0 \in S,
           \A k \in 0..(n - 1) : k \in S => k + 1 \in S
    PROVE  0..n \subseteq S
  <1> DEFINE B == {k \in 0..n : k \notin S}
             T == {0..k : k \in B}
             R == StrictSubsetOrdering(0..n)
  <1> SUFFICES ASSUME B # {} PROVE FALSE
    OBVIOUS
  <1>1. IsFiniteSet(0..n)
    BY FS_Interval
  <1>2. IsWellFoundedOn(R, FiniteSubsetsOf(0..n))
    BY FS_StrictSubsetOrderingWellFounded
  <1>3. FiniteSubsetsOf(0..n) = SUBSET (0..n)
    BY <1>1, FS_FiniteSubsetsOfFinite
  <1>4. T \subseteq SUBSET (0..n) /\ T # {}
    OBVIOUS
  <1>5. \E x \in T : \A y \in T : ~ (<<y, x>> \in R)
    <2> HIDE DEF T, R
    <2>1. /\ IsWellFoundedOn(R, SUBSET (0..n))
          /\ T \subseteq SUBSET (0..n) /\ T # {}
      BY <1>2, <1>3, <1>4 DEF R
    <2>2. QED
      BY <2>1, WFMin
  <1>6. PICK k \in B : \A j \in B : <<0..j, 0..k>> \notin R
    BY <1>5
  <1>7. k \in 1..n
    BY <1>6
  <1>8. k - 1 \in B
    BY <1>7, <1>6
  <1>9. <<0..(k - 1), 0..k>> \in R
    BY <1>7 DEF StrictSubsetOrdering
  <1>10. QED
    BY <1>6, <1>8, <1>9

\* A set of numbers up to n that is not empty has a least one.
LEMMA LeastExists ==
    ASSUME NEW n \in Nat, NEW S, S \subseteq 1..n, S # {}
    PROVE  Min(S) \in S /\ \A j \in S : Min(S) <= j
  <1>1. \E i \in S : \A j \in S : i <= j
    <2> SUFFICES ASSUME \A i \in S : \E j \in S : j < i PROVE FALSE
      BY SMT
    <2> DEFINE Clear == {k \in 0..n : \A i \in 1..k : i \notin S}
    <2>1. 0 \in Clear
      OBVIOUS
    <2>2. \A k \in 0..(n - 1) : k \in Clear => k + 1 \in Clear
      <3> SUFFICES ASSUME NEW k \in 0..(n - 1), k \in Clear
                   PROVE  k + 1 \in Clear
        OBVIOUS
      <3>1. k + 1 \notin S
        OBVIOUS
      <3>2. \A i \in 1..(k + 1) : i = k + 1 \/ i \in 1..k
        OBVIOUS
      <3>3. QED
        BY <3>1, <3>2
    <2>3. n \in Clear
      <3> HIDE DEF Clear
      <3>1. 0..n \subseteq Clear
        BY <2>1, <2>2, SetInduction
      <3>2. QED
        BY <3>1
    <2>4. QED
      BY <2>3
  <1>2. QED
    BY <1>1 DEF Min

\* SelectInSeq() finds the first element that satisfies its test: these are
\* the positions of those that do.
LEMMA FirstExists ==
    ASSUME NEW n \in Nat, NEW S, S \subseteq 1..n,
           NEW i, i = IF S # {} THEN Min(S) ELSE 0
    PROVE  /\ i \in 0..n
           /\ i = 0 <=> S = {}
           /\ i # 0 => i \in S /\ \A j \in S : i <= j
  <1>1. CASE S = {}
    BY <1>1
  <1>2. CASE S # {}
    <2>1. i \in S /\ \A j \in S : i <= j
      BY <1>2, LeastExists
    <2>2. QED
      BY <1>2, <2>1
  <1>3. QED
    BY <1>1, <1>2

\* g is the recursive function that begins with this value and goes from the
\* value for i - 1 to that for i by F[i].
Unfolds(g, n, base, F) ==
    g[0] = base /\ \A i \in 1..n : g[i] = F[i][g[i - 1]]

\* There is such a function, and its values are in every set that its steps do
\* not leave.
LEMMA RecursionExists ==
    ASSUME NEW n \in Nat, NEW A, NEW base \in A, NEW F \in [1..n -> [A -> A]]
    PROVE  \E g \in [0..n -> A] : Unfolds(g, n, base, F)
  <1> DEFINE Good(k, g) == g[0] = base /\ \A i \in 1..k : g[i] = F[i][g[i - 1]]
             S == {k \in 0..n : \E g \in [0..k -> A] : Good(k, g)}
  <1>1. 0 \in S
    <2> DEFINE g == [i \in 0..0 |-> base]
    <2>1. g \in [0..0 -> A] /\ g[0] = base
      OBVIOUS
    <2> HIDE DEF g
    <2>2. Good(0, g)
      BY <2>1
    <2>3. QED
      BY <2>1, <2>2
  <1>2. ASSUME NEW k \in 0..(n - 1), k \in S
        PROVE  k + 1 \in S
    <2>1. PICK g \in [0..k -> A] : Good(k, g)
      BY <1>2
    <2> DEFINE h == [i \in 0..(k + 1) |->
                        IF i = k + 1 THEN F[k + 1][g[k]] ELSE g[i]]
    <2>2. F[k + 1][g[k]] \in A
      OBVIOUS
    <2>3. h \in [0..(k + 1) -> A]
      BY <2>2
    <2>4. ASSUME NEW i \in 1..(k + 1)
          PROVE  h[i] = F[i][h[i - 1]]
      <3>1. CASE i = k + 1
        BY <3>1
      <3>2. CASE i # k + 1
        <4>1. i \in 1..k /\ i - 1 \in 0..k /\ i \in 0..k /\ i - 1 # k + 1
          BY <3>2
        <4>2. h[i] = g[i] /\ h[i - 1] = g[i - 1]
          BY <3>2, <4>1
        <4> HIDE DEF h
        <4>3. QED
          BY <2>1, <4>1, <4>2
      <3>3. QED
        BY <3>1, <3>2
    <2>5. h[0] = base
      BY <2>1
    <2> HIDE DEF h
    <2>6. Good(k + 1, h)
      BY <2>4, <2>5
    <2>7. QED
      BY <2>3, <2>6
  <1>3. n \in S
    <2> HIDE DEF S
    <2>1. 0..n \subseteq S
      BY <1>1, <1>2, SetInduction
    <2>2. QED
      BY <2>1
  <1>4. QED
    BY <1>3 DEF Unfolds

\* t is what s has at the positions I, in their order: at has the position of
\* each of its elements.
Picks(t, s, I, at) ==
    /\ at \in [1..Len(t) -> I]
    /\ \A k \in 1..Len(t) : t[k] = s[at[k]]
    /\ \A j, k \in 1..Len(t) : j < k => at[j] < at[k]
    /\ \A i \in I : \E k \in 1..Len(t) : at[k] = i

\* Only() yields that.
LEMMA OnlyPicks ==
    ASSUME NEW T, NEW s \in Seq(T), NEW I
    PROVE  /\ Only(s, I) \in Seq(T)
           /\ Len(Only(s, I)) <= Len(s)
           /\ \E at : Picks(Only(s, I), s, I \cap (1..Len(s)), at)
  <1> DEFINE n == Len(s)
             Step(i, a) == IF i \in I THEN Append(a, s[i]) ELSE a
             only[i \in 0..n] == IF i = 0 THEN <<>> ELSE Step(i, only[i - 1])
             F == [i \in 1..n |-> [a \in Seq(T) |-> Step(i, a)]]
  <1>1. Only(s, I) = only[Len(s)]
    BY DEF Only
  <1>2. n \in Nat
    OBVIOUS
  <1>3. \A i \in 1..n : \A a \in Seq(T) : Step(i, a) \in Seq(T)
    OBVIOUS
  <1>4. \E g : g = [i \in 0..n |-> IF i = 0 THEN <<>> ELSE Step(i, g[i - 1])]
    <2> HIDE DEF Step, n
    <2>1. \A i \in 1..n : \A a \in Seq(T) : F[i][a] = Step(i, a)
      OBVIOUS
    <2>2. F \in [1..n -> [Seq(T) -> Seq(T)]] /\ <<>> \in Seq(T)
      BY <1>3
    <2> HIDE DEF F
    <2>3. PICK g \in [0..n -> Seq(T)] : Unfolds(g, n, <<>>, F)
      BY <1>2, <2>2, RecursionExists
    <2>4. g[0] = <<>> /\ \A i \in 1..n : g[i] = Step(i, g[i - 1])
      <3>1. \A i \in 1..n : g[i - 1] \in Seq(T)
        BY <1>2
      <3>2. QED
        BY <2>1, <2>3, <3>1 DEF Unfolds
    <2>5. g = [i \in 0..n |-> IF i = 0 THEN <<>> ELSE Step(i, g[i - 1])]
      BY <1>2, <2>4
    <2>6. QED
      BY <2>5
  <1>5. only = [i \in 0..n |-> IF i = 0 THEN <<>> ELSE Step(i, only[i - 1])]
    BY <1>4
  <1> DEFINE Good(i) == /\ only[i] \in Seq(T) /\ Len(only[i]) <= i
                        /\ \E at : Picks(only[i], s, I \cap (1..i), at)
             J == {i \in 0..n : Good(i)}
  <1> HIDE DEF only, n, Step
  <1>6. 0 \in J
    <2>1. only[0] = <<>>
      BY <1>2, <1>5
    <2>2. Picks(<<>>, s, I \cap (1..0), <<>>)
      BY DEF Picks
    <2>3. <<>> \in Seq(T) /\ Len(<<>>) <= 0 /\ 0 \in 0..n
      BY <1>2
    <2>4. QED
      BY <2>1, <2>2, <2>3
  <1>7. ASSUME NEW i \in 0..(n - 1), i \in J
        PROVE  i + 1 \in J
    <2>1. only[i + 1] = Step(i + 1, only[i])
      BY <1>2, <1>5
    <2>2. PICK at : Picks(only[i], s, I \cap (1..i), at)
      BY <1>7
    <2>3. only[i] \in Seq(T) /\ Len(only[i]) <= i /\ i \in Nat
      BY <1>7, <1>2
    <2>4. s[i + 1] \in T
      BY <1>2 DEF n
    <2>a. i + 1 \in 0..n
      BY <1>2
    <2>5. CASE i + 1 \notin I
      <3>1. I \cap (1..(i + 1)) = I \cap (1..i)
        BY <2>5, <2>3
      <3>2. only[i + 1] = only[i]
        BY <2>1, <2>5 DEF Step
      <3>3. only[i + 1] \in Seq(T) /\ Len(only[i + 1]) <= i + 1
        BY <2>3, <3>2
      <3>4. QED
        BY <2>a, <2>2, <3>1, <3>2, <3>3
    <2>6. CASE i + 1 \in I
      <3> DEFINE t == only[i]
                 l == Len(t)
                 K == I \cap (1..(i + 1))
                 up == [k \in 1..(l + 1) |-> IF k = l + 1 THEN i + 1 ELSE at[k]]
      <3>1. only[i + 1] = Append(t, s[i + 1])
        BY <2>1, <2>6 DEF Step
      <3>2. t \in Seq(T) /\ l \in Nat
        BY <2>3
      <3>3. /\ at \in [1..l -> I \cap (1..i)]
            /\ \A k \in 1..l : t[k] = s[at[k]]
            /\ \A j, k \in 1..l : j < k => at[j] < at[k]
            /\ \A j \in I \cap (1..i) : \E k \in 1..l : at[k] = j
        BY <2>2 DEF Picks
      <3> HIDE DEF t, l
      <3>4. Append(t, s[i + 1]) \in Seq(T) /\ Len(Append(t, s[i + 1])) = l + 1
        BY <2>4, <3>2 DEF l
      <3>5. \A k \in 1..l : Append(t, s[i + 1])[k] = t[k]
        BY <2>4, <3>2 DEF l
      <3>6. Append(t, s[i + 1])[l + 1] = s[i + 1]
        BY <2>4, <3>2 DEF l
      <3>7. up \in [1..(l + 1) -> K]
        BY <3>3, <3>2, <2>3, <2>6
      <3>8. \A k \in 1..(l + 1) : Append(t, s[i + 1])[k] = s[up[k]]
        <4> SUFFICES ASSUME NEW k \in 1..(l + 1)
                     PROVE  Append(t, s[i + 1])[k] = s[up[k]]
          OBVIOUS
        <4>1. CASE k = l + 1
          BY <4>1, <3>6
        <4>2. CASE k # l + 1
          <5>1. k \in 1..l /\ up[k] = at[k]
            BY <4>2, <3>2
          <5>2. QED
            BY <5>1, <3>3, <3>5
        <4>3. QED
          BY <4>1, <4>2
      <3>9. \A j, k \in 1..(l + 1) : j < k => up[j] < up[k]
        <4> SUFFICES ASSUME NEW j \in 1..(l + 1), NEW k \in 1..(l + 1), j < k
                     PROVE  up[j] < up[k]
          OBVIOUS
        <4>1. j \in 1..l /\ up[j] = at[j] /\ at[j] \in 1..i
          BY <3>2, <3>3
        <4>2. CASE k = l + 1
          BY <4>1, <4>2, <2>3
        <4>3. CASE k # l + 1
          <5>1. k \in 1..l /\ up[k] = at[k]
            BY <3>2, <4>3
          <5>2. QED
            BY <4>1, <5>1, <3>3
        <4>4. QED
          BY <4>2, <4>3
      <3>10. \A j \in K : \E k \in 1..(l + 1) : up[k] = j
        <4> SUFFICES ASSUME NEW j \in K PROVE \E k \in 1..(l + 1) : up[k] = j
          OBVIOUS
        <4>1. CASE j = i + 1
          <5>1. l + 1 \in 1..(l + 1) /\ up[l + 1] = i + 1
            BY <3>2
          <5>2. QED
            BY <4>1, <5>1
        <4>2. CASE j # i + 1
          <5>1. j \in I \cap (1..i)
            BY <4>2, <2>3
          <5>2. PICK k \in 1..l : at[k] = j
            BY <3>3, <5>1
          <5>3. k \in 1..(l + 1) /\ up[k] = j
            BY <3>2, <5>2
          <5>4. QED
            BY <5>3
        <4>3. QED
          BY <4>1, <4>2
      <3> HIDE DEF up, K
      <3>11. Picks(Append(t, s[i + 1]), s, K, up)
        BY <3>4, <3>7, <3>8, <3>9, <3>10 DEF Picks
      <3>12. l + 1 <= i + 1
        BY <2>3, <3>2 DEF l, t
      <3>13. QED
        <4>1. only[i + 1] \in Seq(T) /\ Len(only[i + 1]) <= i + 1
          BY <3>1, <3>4, <3>12
        <4>2. Picks(only[i + 1], s, I \cap (1..(i + 1)), up)
          BY <3>1, <3>11 DEF K
        <4>3. QED
          BY <2>a, <4>1, <4>2
    <2>7. QED
      BY <2>5, <2>6
  <1>8. n \in J
    <2> HIDE DEF J
    <2>1. 0..n \subseteq J
      BY <1>2, <1>6, <1>7, SetInduction
    <2>2. QED
      BY <1>2, <2>1
  <1>9. QED
    BY <1>1, <1>8 DEF n

-----------------------------------------------------------------------------
(* A proxy and its slots                                                   *)

Request == Queue \X Url
Slot == [of : Request, state : {"running", "cooling", "cooled"}]
PooledType ==
    [url : Proxy, healthy : BOOLEAN, pending : BOOLEAN, slots : [Host -> Seq(Slot)]]

\* No more slots are taken than the limits allow.
WithinLimits(p) ==
    /\ \A h \in Host : Len(p.slots[h]) <= MaxPerHost /\ Len(p.slots[h]) <= MaxOverall
    /\ Cardinality(Taken(p)) <= MaxOverall

Pooled == {p \in PooledType : WithinLimits(p)}

Runs(p, r) ==
    \E s \in DOMAIN p.slots[HostOf[r]] :
        p.slots[HostOf[r]][s] = [of |-> r, state |-> "running"]

\* p2 is the same proxy, which still runs those of the requests R that it ran.
SameProxy(p, p2, R) ==
    /\ p2.url = p.url /\ p2.healthy = p.healthy /\ p2.pending = p.pending
    /\ \A r \in R : Runs(p, r) => Runs(p2, r)

LEMMA TakenFinite ==
    ASSUME NEW p
    PROVE  IsFiniteSet(Taken(p)) /\ Cardinality(Taken(p)) \in Nat
  <1>1. IsFiniteSet(1..MaxOverall)
    BY ProxiedRequestsAssumption, FS_Interval
  <1>2. IsFiniteSet(Host \X (1..MaxOverall))
    BY <1>1, ProxiedRequestsAssumption, FS_Product
  <1>3. Taken(p) \in SUBSET (Host \X (1..MaxOverall))
    BY DEF Taken
  <1>4. QED
    BY <1>2, <1>3, FS_Subset, FS_CardinalityType

\* A proxy whose slots are no more for any host is within its limits if it was.
LEMMA FewerSlots ==
    ASSUME NEW p \in Pooled, NEW p2 \in PooledType,
           \A h \in Host : Len(p2.slots[h]) <= Len(p.slots[h])
    PROVE  p2 \in Pooled
  <1>1. \A h \in Host : DOMAIN p2.slots[h] \subseteq DOMAIN p.slots[h]
    BY DEF Pooled, PooledType
  <1>2. Taken(p2) \in SUBSET Taken(p)
    BY <1>1 DEF Taken
  <1>3. Cardinality(Taken(p2)) <= Cardinality(Taken(p))
    BY <1>2, TakenFinite, FS_Subset
  <1>4. \A h \in Host : Len(p2.slots[h]) \in Nat /\ Len(p.slots[h]) \in Nat
    BY DEF Pooled, PooledType
  <1>5. MaxOverall \in Nat /\ MaxPerHost \in Nat
    BY ProxiedRequestsAssumption
  <1>6. WithinLimits(p2)
    <2>1. Cardinality(Taken(p2)) \in Nat /\ Cardinality(Taken(p)) \in Nat
      BY TakenFinite
    <2>2. QED
      BY <1>3, <1>4, <1>5, <2>1 DEF WithinLimits, Pooled
  <1>7. QED
    BY <1>6 DEF Pooled

\* Releasing slots keeps the running ones.
LEMMA ReleasedSlots ==
    ASSUME NEW slots \in Seq(Slot)
    PROVE  /\ release_cooled_off(slots) \in Seq(Slot)
           /\ Len(release_cooled_off(slots)) <= Len(slots)
           /\ \A i \in DOMAIN slots : slots[i].state = "running" =>
                \E k \in DOMAIN release_cooled_off(slots) :
                    release_cooled_off(slots)[k] = slots[i]
  <1> DEFINE cooled(i) == slots[i].state = "cooled"
             released[i \in 0..Len(slots)] ==
                 i > 0 /\ cooled(i) /\ ~released[i - 1]
             I == {i \in DOMAIN slots : cooled(i) => released[i - 1]}
             t == Only(slots, I)
  <1>1. release_cooled_off(slots) = t
    BY DEF release_cooled_off
  <1>2. \A i \in DOMAIN slots : slots[i].state = "running" =>
            i \in I \cap (1..Len(slots))
    OBVIOUS
  <1> HIDE DEF I
  <1>3. /\ t \in Seq(Slot) /\ Len(t) <= Len(slots)
        /\ \E at : Picks(t, slots, I \cap (1..Len(slots)), at)
    BY OnlyPicks
  <1>4. PICK at : Picks(t, slots, I \cap (1..Len(slots)), at)
    BY <1>3
  <1> HIDE DEF t
  <1>5. ASSUME NEW i \in DOMAIN slots, slots[i].state = "running"
        PROVE  \E k \in DOMAIN t : t[k] = slots[i]
    <2>1. i \in I \cap (1..Len(slots))
      BY <1>2, <1>5
    <2>2. PICK k \in 1..Len(t) : at[k] = i
      BY <1>4, <2>1 DEF Picks
    <2>3. t[k] = slots[i] /\ k \in DOMAIN t
      BY <1>3, <1>4, <2>2 DEF Picks
    <2>4. QED
      BY <2>3
  <1>6. QED
    BY <1>1, <1>3, <1>5

LEMMA ReleasedProxy ==
    ASSUME NEW p \in Pooled, NEW p2,
           p2 = [p EXCEPT !.slots = [h \in Host |-> release_cooled_off(p.slots[h])]]
    PROVE  p2 \in Pooled /\ SameProxy(p, p2, Request)
  <1>1. \A h \in Host : p.slots[h] \in Seq(Slot)
    BY DEF Pooled, PooledType
  <1> DEFINE slots == [h \in Host |-> release_cooled_off(p.slots[h])]
  <1>2. slots \in [Host -> Seq(Slot)]
    BY <1>1, ReleasedSlots
  <1>3. \A h \in Host : slots[h] = release_cooled_off(p.slots[h])
    OBVIOUS
  <1> HIDE DEF slots
  <1>4. p2 \in PooledType /\ p2.slots = slots
    BY <1>2 DEF PooledType, Pooled, slots
  <1>5. \A h \in Host : Len(p2.slots[h]) <= Len(p.slots[h])
    BY <1>1, <1>3, <1>4, ReleasedSlots
  <1>6. p2 \in Pooled
    BY <1>4, <1>5, FewerSlots
  <1>7. ASSUME NEW r \in Request, Runs(p, r)
        PROVE  Runs(p2, r)
    <2>1. HostOf[r] \in Host
      BY ProxiedRequestsAssumption DEF Request
    <2>2. PICK s \in DOMAIN p.slots[HostOf[r]] :
              p.slots[HostOf[r]][s] = [of |-> r, state |-> "running"]
      BY <1>7 DEF Runs
    <2>3. \E k \in DOMAIN slots[HostOf[r]] :
              slots[HostOf[r]][k] = p.slots[HostOf[r]][s]
      BY <1>1, <1>3, <2>1, <2>2, ReleasedSlots
    <2>4. QED
      BY <1>4, <2>2, <2>3 DEF Runs
  <1>8. p2.url = p.url /\ p2.healthy = p.healthy /\ p2.pending = p.pending
    BY DEF Pooled, PooledType
  <1>9. QED
    BY <1>6, <1>7, <1>8 DEF SameProxy

\* A slot is only given to a request within the limits, and runs it.
LEMMA ClaimedSlot ==
    ASSUME NEW p \in Pooled, NEW r \in Request, NEW c,
           c = claim_slot(p, HostOf[r], r)
    PROVE  /\ c.ok \in BOOLEAN /\ c.proxy \in Pooled
           /\ SameProxy(p, c.proxy, Request)
           /\ c.ok => Runs(c.proxy, r)
  <1> DEFINE h == HostOf[r]
             slot == [of |-> r, state |-> "running"]
             l == Len(p.slots[h])
             p2 == [p EXCEPT !.slots[h] = Append(@, slot)]
  <1>1. h \in Host /\ p.slots[h] \in Seq(Slot) /\ l \in Nat
    BY ProxiedRequestsAssumption DEF Pooled, PooledType, Request
  <1>2. slot \in Slot
    BY DEF Slot
  <1>3. CASE ~(Cardinality(Taken(p)) < MaxOverall /\ l < MaxPerHost)
    <2>1. c = [ok |-> FALSE, proxy |-> p]
      BY <1>3 DEF claim_slot
    <2>2. QED
      BY <2>1 DEF SameProxy
  <1>4. CASE Cardinality(Taken(p)) < MaxOverall /\ l < MaxPerHost
    <2>1. c = [ok |-> TRUE, proxy |-> p2]
      BY <1>4 DEF claim_slot
    <2> DEFINE slots2 == [p.slots EXCEPT ![h] = Append(p.slots[h], slot)]
    <2> HIDE DEF slot, h
    <2>a. p \in PooledType
      BY DEF Pooled
    <2>b. slots2 \in [Host -> Seq(Slot)]
      BY <1>1, <1>2, <2>a DEF PooledType
    <2>c. p2 = [p EXCEPT !.slots = slots2]
      BY <2>a DEF PooledType
    <2> HIDE DEF slots2, p2
    <2>d. /\ p2 \in PooledType
          /\ p2.url = p.url /\ p2.healthy = p.healthy /\ p2.pending = p.pending
          /\ p2.slots = slots2
      BY <2>a, <2>b, <2>c DEF PooledType
    <2>2. /\ p2 \in PooledType
          /\ p2.url = p.url /\ p2.healthy = p.healthy /\ p2.pending = p.pending
          /\ p2.slots = [p.slots EXCEPT ![h] = Append(p.slots[h], slot)]
      BY <2>d DEF slots2
    <2>3. /\ p2.slots[h] = Append(p.slots[h], slot)
          /\ \A g \in Host : g # h => p2.slots[g] = p.slots[g]
      BY <2>2, <1>1 DEF Pooled, PooledType
    <2>4. /\ Len(p2.slots[h]) = l + 1 /\ p2.slots[h][l + 1] = slot
          /\ DOMAIN p2.slots[h] = 1..(l + 1)
          /\ \A s \in DOMAIN p.slots[h] : s \in DOMAIN p2.slots[h]
                                          /\ p2.slots[h][s] = p.slots[h][s]
      BY <2>3, <1>1, <1>2
    <2> HIDE DEF l
    <2>5. Taken(p2) \subseteq Taken(p) \cup {<<h, l + 1>>}
      <3> SUFFICES ASSUME NEW s \in Taken(p2), s # <<h, l + 1>>
                   PROVE  s \in Taken(p)
        OBVIOUS
      <3>1. s \in Host \X (1..MaxOverall) /\ s[2] \in DOMAIN p2.slots[s[1]]
        BY DEF Taken
      <3>2. CASE s[1] # h
        BY <3>1, <3>2, <2>3 DEF Taken
      <3>3. CASE s[1] = h
        <4>1. s[2] \in 1..l
          BY <3>1, <3>3, <2>4, <1>1
        <4>2. s[2] \in DOMAIN p.slots[s[1]]
          BY <4>1, <3>3, <1>1 DEF l
        <4>3. QED
          BY <3>1, <4>2 DEF Taken
      <3>4. QED
        BY <3>2, <3>3
    <2>6. Cardinality(Taken(p2)) <= Cardinality(Taken(p)) + 1
      <3>1. IsFiniteSet(Taken(p)) /\ Cardinality(Taken(p)) \in Nat
        BY TakenFinite
      <3> DEFINE More == Taken(p) \cup {<<h, l + 1>>}
                 x == <<h, l + 1>>
      <3> HIDE DEF x
      <3>a. /\ IsFiniteSet(Taken(p) \cup {x})
            /\ Cardinality(Taken(p) \cup {x}) =
                  IF x \in Taken(p) THEN Cardinality(Taken(p))
                  ELSE Cardinality(Taken(p)) + 1
        BY <3>1, FS_AddElement
      <3>b. More = Taken(p) \cup {x}
        BY DEF x
      <3> HIDE DEF More
      <3>2. /\ IsFiniteSet(More) /\ Cardinality(More) \in Nat
            /\ Cardinality(More) <= Cardinality(Taken(p)) + 1
        BY <3>1, <3>a, <3>b
      <3>3. Cardinality(Taken(p2)) <= Cardinality(More)
        BY <3>2, <2>5, FS_Subset DEF More
      <3>4. QED
        BY <3>1, <3>2, <3>3, TakenFinite
    <2>7. l < MaxOverall
      <3> DEFINE Own == {h} \X (1..l)
      <3>1. l <= MaxOverall
        BY <1>1 DEF WithinLimits, Pooled, l
      <3>2. MaxOverall \in Nat
        BY ProxiedRequestsAssumption
      <3>3. 1..l \subseteq 1..MaxOverall /\ DOMAIN p.slots[h] = 1..l
        BY <3>1, <3>2, <1>1 DEF l
      <3>4. Own \subseteq Taken(p)
        BY <3>3, <1>1 DEF Taken
      <3>5. Cardinality(1..l) = l /\ IsFiniteSet(1..l)
        BY <1>1, FS_Interval
      <3>6. Cardinality({h}) = 1 /\ IsFiniteSet({h})
        BY FS_Singleton
      <3>7. Cardinality(Own) = 1 * l
        BY <3>5, <3>6, FS_Product
      <3>8. Cardinality(Own) <= Cardinality(Taken(p))
        BY <3>4, TakenFinite, FS_Subset
      <3>9. QED
        BY <3>7, <3>8, <3>2, <1>1, <1>4, TakenFinite
    <2>8. WithinLimits(p2)
      <3>1. MaxOverall \in Nat /\ MaxPerHost \in Nat
        BY ProxiedRequestsAssumption
      <3>2. Len(p2.slots[h]) <= MaxPerHost /\ Len(p2.slots[h]) <= MaxOverall
        BY <3>1, <2>4, <2>7, <1>1, <1>4
      <3>3. \A g \in Host : g # h => /\ Len(p2.slots[g]) <= MaxPerHost
                                     /\ Len(p2.slots[g]) <= MaxOverall
        BY <2>3 DEF Pooled, WithinLimits
      <3>4. Cardinality(Taken(p2)) <= MaxOverall
        BY <3>1, <2>6, <1>4, TakenFinite
      <3>5. QED
        BY <3>2, <3>3, <3>4 DEF WithinLimits
    <2>9. p2 \in Pooled
      BY <2>2, <2>8 DEF Pooled
    <2>10. Runs(p2, r)
      <3>1. l + 1 \in DOMAIN p2.slots[h]
        BY <2>4, <1>1
      <3>2. QED
        BY <3>1, <2>4 DEF Runs, slot, h
    <2>11. ASSUME NEW o \in Request, Runs(p, o)
           PROVE  Runs(p2, o)
      <3>1. HostOf[o] \in Host
        BY ProxiedRequestsAssumption DEF Request
      <3>2. CASE HostOf[o] = h
        BY <3>2, <2>11, <2>4 DEF Runs
      <3>3. CASE HostOf[o] # h
        BY <3>1, <3>3, <2>11, <2>3 DEF Runs
      <3>4. QED
        BY <3>2, <3>3
    <2>12. QED
      BY <2>1, <2>2, <2>9, <2>10, <2>11 DEF SameProxy
  <1>5. QED
    BY <1>3, <1>4

LEMMA ClaimedFor ==
    ASSUME NEW p \in Pooled, NEW r \in Request
    PROVE  /\ claim_for(p, r).ok \in BOOLEAN /\ claim_for(p, r).proxy \in Pooled
           /\ SameProxy(p, claim_for(p, r).proxy, Request)
           /\ claim_for(p, r).ok => Runs(claim_for(p, r).proxy, r)
  <1> DEFINE p2 == [p EXCEPT !.slots =
                                 [h \in Host |-> release_cooled_off(p.slots[h])]]
             c == claim_slot(p2, HostOf[r], r)
  <1>1. claim_for(p, r) = c
    BY DEF claim_for
  <1>2. p2 \in Pooled /\ SameProxy(p, p2, Request)
    BY ReleasedProxy
  <1> HIDE DEF p2
  <1>3. /\ c.ok \in BOOLEAN /\ c.proxy \in Pooled
        /\ SameProxy(p2, c.proxy, Request)
        /\ c.ok => Runs(c.proxy, r)
    BY <1>2, ClaimedSlot
  <1> HIDE DEF c
  <1>4. SameProxy(p, c.proxy, Request)
    BY <1>2, <1>3 DEF SameProxy
  <1>5. QED
    BY <1>1, <1>3, <1>4

\* The slot of a finished request cools off; other requests keep theirs.
LEMMA FinishedRequest ==
    ASSUME NEW p \in Pooled, NEW r \in Request
    PROVE  /\ mark_request_finished(p, r) \in Pooled
           /\ SameProxy(p, mark_request_finished(p, r), Request \ {r})
  <1> DEFINE h == HostOf[r]
             S == {j \in 1..Len(p.slots[h]) :
                      p.slots[h][j].of = r /\ p.slots[h][j].state = "running"}
             i == IF S # {} THEN Min(S) ELSE 0
             p2 == [p EXCEPT !.slots[h][i].state = "cooling"]
  <1>1. mark_request_finished(p, r) = IF i = 0 THEN p ELSE p2
    BY DEF mark_request_finished, SelectInSeq
  <1>2. h \in Host /\ p.slots[h] \in Seq(Slot)
    BY ProxiedRequestsAssumption DEF Pooled, PooledType, Request
  <1>a. i = IF S # {} THEN Min(S) ELSE 0
    OBVIOUS
  <1>b. S \subseteq 1..Len(p.slots[h]) /\ Len(p.slots[h]) \in Nat
    BY <1>2
  <1> HIDE DEF i
  <1>3. /\ i \in 0..Len(p.slots[h])
        /\ i # 0 => i \in S
    <2> HIDE DEF S, h
    <2>1. QED
      BY <1>a, <1>b, FirstExists
  <1>4. CASE i = 0
    BY <1>1, <1>4 DEF SameProxy
  <1>5. CASE i # 0
    <2>1. /\ i \in 1..Len(p.slots[h]) /\ i \in DOMAIN p.slots[h]
          /\ p.slots[h][i].of = r
      BY <1>2, <1>3, <1>5
    <2> DEFINE s2 == [p.slots[h] EXCEPT ![i] = [@ EXCEPT !.state = "cooling"]]
    <2>2. s2 \in Seq(Slot) /\ Len(s2) = Len(p.slots[h])
      <3>a. p.slots[h][i] \in Slot
        BY <1>2, <2>1
      <3>1. [p.slots[h][i] EXCEPT !.state = "cooling"] \in Slot
        BY <3>a DEF Slot
      <3>2. QED
        BY <1>2, <2>1, <3>1
    <2>3. \A j \in DOMAIN p.slots[h] :
              j # i => j \in DOMAIN s2 /\ s2[j] = p.slots[h][j]
      BY <1>2, <2>1
    <2>4. p2.slots = [p.slots EXCEPT ![h] = s2]
      BY <1>2 DEF Pooled, PooledType
    <2> HIDE DEF s2, h
    <2>5. p2 \in PooledType /\ p2.url = p.url /\ p2.healthy = p.healthy
                            /\ p2.pending = p.pending
      BY <1>2, <2>2, <2>4 DEF Pooled, PooledType
    <2> HIDE DEF p2
    <2>6. p2.slots[h] = s2 /\ \A g \in Host : g # h => p2.slots[g] = p.slots[g]
      BY <2>4, <1>2 DEF Pooled, PooledType
    <2>7. \A g \in Host : Len(p2.slots[g]) <= Len(p.slots[g])
      <3>1. \A g \in Host : Len(p2.slots[g]) = Len(p.slots[g])
        BY <2>2, <2>6
      <3>2. \A g \in Host : Len(p.slots[g]) \in Nat
        BY DEF Pooled, PooledType
      <3>3. QED
        BY <3>1, <3>2
    <2>8. p2 \in Pooled
      BY <2>5, <2>7, FewerSlots
    <2>9. ASSUME NEW o \in Request \ {r}, Runs(p, o)
          PROVE  Runs(p2, o)
      <3>1. HostOf[o] \in Host
        BY ProxiedRequestsAssumption DEF Request
      <3>2. PICK j \in DOMAIN p.slots[HostOf[o]] :
                p.slots[HostOf[o]][j] = [of |-> o, state |-> "running"]
        BY <2>9 DEF Runs
      <3>3. CASE HostOf[o] = h
        <4>1. j # i
          BY <2>1, <3>2, <3>3
        <4>2. QED
          BY <4>1, <2>3, <2>6, <3>2, <3>3 DEF Runs
      <3>4. CASE HostOf[o] # h
        BY <3>1, <3>2, <3>4, <2>6 DEF Runs
      <3>5. QED
        BY <3>3, <3>4
    <2>10. QED
      BY <1>1, <1>5, <2>5, <2>8, <2>9 DEF SameProxy
  <1>6. QED
    BY <1>4, <1>5

-----------------------------------------------------------------------------
(* The pool                                                                *)

OwnUrls(pl) == \A i, j \in DOMAIN pl : pl[i].url = pl[j].url => i = j

Pools == {pl \in Seq(Pooled) : OwnUrls(pl)}

RunsIn(pl, u, r) == \E i \in DOMAIN pl : pl[i].url = u /\ Runs(pl[i], r)

\* What of R runs in a proxy of the one pool does so in that of the other.
StillRuns(pl, pl2, R) ==
    \A r \in R : \A u \in Proxy : RunsIn(pl, u, r) => RunsIn(pl2, u, r)

LEMMA FunctionIsSeq ==
    ASSUME NEW T, NEW n \in Nat, NEW f \in [1..n -> T]
    PROVE  f \in Seq(T) /\ Len(f) = n /\ DOMAIN f = 1..n
  OBVIOUS

\* Each proxy may change in place.
LEMMA PoolInPlace ==
    ASSUME NEW pl \in Pools, NEW R, NEW pl2, DOMAIN pl2 = DOMAIN pl,
           pl2 = [i \in DOMAIN pl |-> pl2[i]],
           \A i \in DOMAIN pl : /\ pl2[i] \in Pooled /\ pl2[i].url = pl[i].url
                                /\ \A r \in R : Runs(pl[i], r) => Runs(pl2[i], r)
    PROVE  pl2 \in Pools /\ StillRuns(pl, pl2, R)
  <1>1. DOMAIN pl = 1..Len(pl) /\ Len(pl) \in Nat
    BY DEF Pools
  <1>2. pl2 \in [1..Len(pl) -> Pooled]
    BY <1>1
  <1>3. pl2 \in Seq(Pooled)
    BY <1>1, <1>2, FunctionIsSeq
  <1>4. OwnUrls(pl2)
    BY DEF OwnUrls, Pools
  <1>5. StillRuns(pl, pl2, R)
    BY DEF StillRuns, RunsIn
  <1>6. QED
    BY <1>3, <1>4, <1>5 DEF Pools

\* Some of the proxies make a pool.
LEMMA PoolOnly ==
    ASSUME NEW pl \in Pools, NEW I
    PROVE  /\ Only(pl, I) \in Pools
           /\ \A k \in DOMAIN Only(pl, I) : \E i \in I \cap DOMAIN pl :
                Only(pl, I)[k] = pl[i]
           /\ \A i \in I \cap DOMAIN pl : \E k \in DOMAIN Only(pl, I) :
                Only(pl, I)[k] = pl[i]
  <1> DEFINE t == Only(pl, I)
             D == I \cap (1..Len(pl))
  <1>1. pl \in Seq(Pooled) /\ D = I \cap DOMAIN pl
    BY DEF Pools
  <1>2. t \in Seq(Pooled) /\ \E at : Picks(t, pl, D, at)
    BY <1>1, OnlyPicks
  <1>3. PICK at : Picks(t, pl, D, at)
    BY <1>2
  <1> HIDE DEF t, D
  <1>4. DOMAIN t = 1..Len(t) /\ Len(t) \in Nat
    BY <1>2
  <1>5. \A k \in DOMAIN t : at[k] \in D /\ t[k] = pl[at[k]]
    BY <1>3, <1>4 DEF Picks
  <1>6. \A i \in D : \E k \in DOMAIN t : t[k] = pl[i]
    BY <1>3, <1>4 DEF Picks
  <1>7. ASSUME NEW j \in DOMAIN t, NEW k \in DOMAIN t, t[j].url = t[k].url
        PROVE  j = k
    <2>1. at[j] = at[k]
      BY <1>1, <1>5, <1>7 DEF Pools, OwnUrls
    <2>2. at[j] \in Int /\ j \in Int /\ k \in Int
      BY <1>4, <1>5 DEF D
    <2>3. ~(j < k) /\ ~(k < j)
      BY <1>3, <1>4, <2>1, <2>2 DEF Picks
    <2>4. QED
      BY <2>2, <2>3
  <1>8. t \in Pools
    BY <1>2, <1>7 DEF Pools, OwnUrls
  <1>9. QED
    BY <1>1, <1>5, <1>6, <1>8 DEF t

\* Two pools without a proxy in common make a pool.
LEMMA PoolsJoined ==
    ASSUME NEW a \in Pools, NEW b \in Pools,
           \A i \in DOMAIN a, j \in DOMAIN b : a[i].url # b[j].url
    PROVE  /\ a \o b \in Pools
           /\ \A u, r : RunsIn(a, u, r) \/ RunsIn(b, u, r) => RunsIn(a \o b, u, r)
  <1> DEFINE t == a \o b
             m == Len(a)
             n == Len(b)
  <1>1. a \in Seq(Pooled) /\ b \in Seq(Pooled) /\ m \in Nat /\ n \in Nat
    BY DEF Pools
  <1>2. t \in Seq(Pooled) /\ DOMAIN t = 1..(m + n)
    BY <1>1
  <1>3. DOMAIN a = 1..m /\ DOMAIN b = 1..n
    BY <1>1
  <1>4. /\ \A i \in 1..m : t[i] = a[i]
        /\ \A i \in 1..n : t[m + i] = b[i]
    BY <1>1
  <1>5. \A k \in (m + 1)..(m + n) : k - m \in 1..n /\ t[k] = b[k - m]
    BY <1>1
  <1> HIDE DEF t, m, n
  <1>6. ASSUME NEW i \in DOMAIN t, NEW j \in DOMAIN t, t[i].url = t[j].url
        PROVE  i = j
    <2>1. CASE i \in 1..m /\ j \in 1..m
      BY <2>1, <1>3, <1>4, <1>6 DEF Pools, OwnUrls
    <2>2. CASE i \in (m + 1)..(m + n) /\ j \in (m + 1)..(m + n)
      <3>1. i - m = j - m
        BY <2>2, <1>3, <1>5, <1>6 DEF Pools, OwnUrls
      <3>2. QED
        BY <3>1, <1>1, <2>2
    <2>3. CASE i \in 1..m /\ j \in (m + 1)..(m + n)
      BY <2>3, <1>3, <1>4, <1>5, <1>6
    <2>4. CASE j \in 1..m /\ i \in (m + 1)..(m + n)
      BY <2>4, <1>3, <1>4, <1>5, <1>6
    <2>5. \A k \in DOMAIN t : k \in 1..m \/ k \in (m + 1)..(m + n)
      BY <1>1, <1>2
    <2>6. QED
      BY <2>1, <2>2, <2>3, <2>4, <2>5
  <1>7. \A u, r : RunsIn(a, u, r) => RunsIn(t, u, r)
    <2>1. \A i \in DOMAIN a : i \in DOMAIN t /\ t[i] = a[i]
      BY <1>1, <1>2, <1>3, <1>4
    <2>2. QED
      BY <2>1 DEF RunsIn
  <1>8. \A u, r : RunsIn(b, u, r) => RunsIn(t, u, r)
    <2>1. \A i \in DOMAIN b : m + i \in DOMAIN t /\ t[m + i] = b[i]
      BY <1>1, <1>2, <1>3, <1>4
    <2>2. QED
      BY <2>1 DEF RunsIn
  <1>9. QED
    BY <1>2, <1>6, <1>7, <1>8 DEF t, Pools, OwnUrls

LEMMA NewPooled ==
    ASSUME NEW u \in Proxy
    PROVE  NewProxy(u) \in Pooled /\ NewProxy(u).url = u
  <1> DEFINE p == NewProxy(u)
  <1>1. p \in PooledType /\ \A h \in Host : p.slots[h] = <<>>
    BY DEF NewProxy, PooledType
  <1>2. Taken(p) = {}
    BY <1>1 DEF Taken
  <1>3. Cardinality(Taken(p)) = 0
    BY <1>2, FS_EmptySet
  <1>4. WithinLimits(p)
    BY <1>1, <1>3, ProxiedRequestsAssumption DEF WithinLimits
  <1>5. QED
    BY <1>1, <1>4 DEF Pooled, NewProxy

LEMMA LocalhostPool == <<NewProxy(Localhost)>> \in Pools
  <1>1. Localhost \in Proxy
    BY DEF Proxy
  <1>2. NewProxy(Localhost) \in Pooled
    BY <1>1, NewPooled
  <1>3. QED
    BY <1>2 DEF Pools, OwnUrls

\* Any finite set of URLs is made a list with each of them once.
LEMMA AsSeq ==
    ASSUME NEW S, IsFiniteSet(S)
    PROVE  /\ SetToSeq(S) \in Seq(S)
           /\ \A i, j \in DOMAIN SetToSeq(S) : SetToSeq(S)[i] = SetToSeq(S)[j] => i = j
  <1> DEFINE n == Cardinality(S)
  <1>1. n \in Nat /\ ExistsBijection(1..n, S)
    BY FS_CardinalityType
  <1>2. \E f \in [1..n -> S] : IsInjective(f)
    BY <1>1 DEF ExistsBijection, Bijection, Injection
  <1>3. SetToSeq(S) \in [1..n -> S] /\ IsInjective(SetToSeq(S))
    BY <1>2 DEF SetToSeq
  <1>4. SetToSeq(S) \in Seq(S)
    BY <1>1, <1>3, FunctionIsSeq
  <1>5. QED
    BY <1>3, <1>4 DEF IsInjective

\* Trying the proxies in turn: one that is claimed runs the request.
LEMMA TriedPool ==
    ASSUME NEW pl \in Pools, NEW r \in Request, NEW t, t = try_proxies(pl, r)
    PROVE  /\ t.pool \in Pools /\ StillRuns(pl, t.pool, Request)
           /\ t.proxy \in Proxy \cup {Nothing}
           /\ t.proxy # Nothing => RunsIn(t.pool, t.proxy, r)
  <1> DEFINE S == {j \in 1..Len(pl) : Usable(pl[j]) /\ claim_for(pl[j], r).ok}
             first == IF S # {} THEN Min(S) ELSE 0
             tried(i) == Usable(pl[i]) /\ (first = 0 \/ i <= first)
             pl2 == [i \in DOMAIN pl |->
                        IF tried(i) THEN claim_for(pl[i], r).proxy ELSE pl[i]]
  <1>1. t = [pool |-> pl2,
             proxy |-> IF first = 0 THEN Nothing ELSE pl[first].url]
    BY DEF try_proxies, SelectInSeq
  <1>2. DOMAIN pl = 1..Len(pl) /\ Len(pl) \in Nat
        /\ \A i \in DOMAIN pl : pl[i] \in Pooled
    BY DEF Pools
  <1>a. first = IF S # {} THEN Min(S) ELSE 0
    OBVIOUS
  <1>b. S \subseteq 1..Len(pl)
    OBVIOUS
  <1> HIDE DEF first
  <1>3. first # 0 => first \in S
    <2> HIDE DEF S
    <2>1. QED
      BY <1>2, <1>a, <1>b, FirstExists
  <1>4. \A i \in DOMAIN pl : /\ claim_for(pl[i], r).proxy \in Pooled
                             /\ SameProxy(pl[i], claim_for(pl[i], r).proxy, Request)
                             /\ claim_for(pl[i], r).ok =>
                                  Runs(claim_for(pl[i], r).proxy, r)
    BY <1>2, ClaimedFor
  <1>5. \A i \in DOMAIN pl :
            /\ pl2[i] \in Pooled /\ pl2[i].url = pl[i].url
            /\ \A o \in Request : Runs(pl[i], o) => Runs(pl2[i], o)
    BY <1>2, <1>4 DEF SameProxy
  <1>6. pl2 \in Pools /\ StillRuns(pl, pl2, Request)
    BY <1>5, PoolInPlace
  <1>7. first # 0 => pl[first].url \in Proxy /\ RunsIn(pl2, pl[first].url, r)
    <2> SUFFICES ASSUME first # 0
                 PROVE  pl[first].url \in Proxy /\ RunsIn(pl2, pl[first].url, r)
      OBVIOUS
    <2>1. first \in DOMAIN pl /\ Usable(pl[first]) /\ claim_for(pl[first], r).ok
      BY <1>2, <1>3
    <2>2. pl2[first] = claim_for(pl[first], r).proxy
      BY <2>1, <1>2
    <2>3. pl2[first].url = pl[first].url /\ Runs(pl2[first], r)
      BY <2>1, <2>2, <1>4, <1>5
    <2>4. pl[first].url \in Proxy
      BY <2>1, <1>2 DEF Pooled, PooledType
    <2>5. QED
      BY <2>1, <2>3, <2>4 DEF RunsIn
  <1>8. QED
    BY <1>1, <1>6, <1>7

LEMMA UsedPool ==
    ASSUME NEW t, t.pool \in Pools
    PROVE  /\ Used(t).ok = TRUE /\ Used(t).proxy = t.proxy
           /\ Used(t).pool \in Pools
           /\ \A u, r : RunsIn(t.pool, u, r) => RunsIn(Used(t).pool, u, r)
  <1> DEFINE pl == t.pool
             I == {i \in DOMAIN pl : pl[i].url # t.proxy}
             J == {i \in DOMAIN pl : pl[i].url = t.proxy}
             a == Only(pl, I)
             b == Only(pl, J)
  <1>1. Used(t) = [ok |-> TRUE, proxy |-> t.proxy, pool |-> a \o b]
    BY DEF Used, TakeOut
  <1>2. I \cap DOMAIN pl = I /\ J \cap DOMAIN pl = J
    OBVIOUS
  <1>3. /\ a \in Pools
        /\ \A k \in DOMAIN a : \E i \in I : a[k] = pl[i]
        /\ \A i \in I : \E k \in DOMAIN a : a[k] = pl[i]
    <2> HIDE DEF I
    <2>1. QED
      BY <1>2, PoolOnly
  <1>4. /\ b \in Pools
        /\ \A k \in DOMAIN b : \E i \in J : b[k] = pl[i]
        /\ \A i \in J : \E k \in DOMAIN b : b[k] = pl[i]
    <2> HIDE DEF J
    <2>1. QED
      BY <1>2, PoolOnly
  <1> HIDE DEF a, b
  <1>5. \A i \in DOMAIN a, j \in DOMAIN b : a[i].url # b[j].url
    BY <1>3, <1>4
  <1>6. a \o b \in Pools
        /\ \A u, r : RunsIn(a, u, r) \/ RunsIn(b, u, r) => RunsIn(a \o b, u, r)
    BY <1>3, <1>4, <1>5, PoolsJoined
  <1>7. \A u, r : RunsIn(pl, u, r) => RunsIn(a, u, r) \/ RunsIn(b, u, r)
    BY <1>3, <1>4 DEF RunsIn
  <1>8. QED
    BY <1>1, <1>6, <1>7

LEMMA ClaimedProxy ==
    ASSUME NEW pl \in Pools, NEW r \in Request, NEW c, c = claim_proxy(pl, r)
    PROVE  /\ c.pool \in Pools /\ StillRuns(pl, c.pool, Request)
           /\ c.proxy \in Proxy \cup {Nothing}
           /\ c.proxy # Nothing => RunsIn(c.pool, c.proxy, r)
  <1> DEFINE all == IF NeedsFallback(pl) THEN <<NewProxy(Localhost)>> \o pl ELSE pl
             t == try_proxies(all, r)
  <1>1. all \in Pools /\ StillRuns(pl, all, Request)
    <2>1. CASE NeedsFallback(pl)
      <3> DEFINE l == <<NewProxy(Localhost)>>
      <3>1. l \in Pools
        BY LocalhostPool
      <3>2. \A i \in DOMAIN l, j \in DOMAIN pl : l[i].url # pl[j].url
        BY <2>1 DEF NeedsFallback, InPool, NewProxy
      <3> HIDE DEF l
      <3>3. l \o pl \in Pools
            /\ \A u, o : RunsIn(l, u, o) \/ RunsIn(pl, u, o) => RunsIn(l \o pl, u, o)
        BY <3>1, <3>2, PoolsJoined
      <3>4. QED
        BY <2>1, <3>3 DEF l, StillRuns
    <2>2. CASE ~NeedsFallback(pl)
      BY <2>2 DEF StillRuns
    <2>3. QED
      BY <2>1, <2>2
  <1>2. c = IF \E i \in DOMAIN all : Usable(all[i]) THEN Used(t)
            ELSE [ok |-> FALSE, proxy |-> Nothing, pool |-> pl]
    BY DEF claim_proxy
  <1> HIDE DEF all
  <1>3. CASE \E i \in DOMAIN all : Usable(all[i])
    <2>1. /\ t.pool \in Pools /\ StillRuns(all, t.pool, Request)
          /\ t.proxy \in Proxy \cup {Nothing}
          /\ t.proxy # Nothing => RunsIn(t.pool, t.proxy, r)
      BY <1>1, TriedPool
    <2> HIDE DEF t
    <2>2. /\ c.proxy = t.proxy /\ c.pool \in Pools
          /\ \A u, o : RunsIn(t.pool, u, o) => RunsIn(c.pool, u, o)
      BY <1>2, <1>3, <2>1, UsedPool
    <2>3. StillRuns(pl, c.pool, Request)
      BY <1>1, <2>1, <2>2 DEF StillRuns
    <2>4. QED
      BY <2>1, <2>2, <2>3
  <1>4. CASE ~\E i \in DOMAIN all : Usable(all[i])
    BY <1>2, <1>4 DEF StillRuns
  <1>5. QED
    BY <1>3, <1>4

\* Other URLs than before: proxies that run requests stay.
LEMMA UpdatedPool ==
    ASSUME NEW pl \in Pools, NEW urls \in Settings \cup {Configured}
    PROVE  /\ update_proxy_pool(pl, urls) \in Pools
           /\ StillRuns(pl, update_proxy_pool(pl, urls), Request)
  <1> DEFINE mark(p) == IF p.url \in urls THEN p ELSE [p EXCEPT !.pending = TRUE]
             I == {i \in DOMAIN pl : Stays(pl[i], urls)}
             kept == Only(pl, I)
             marked == [i \in DOMAIN kept |-> mark(kept[i])]
             S == urls \ InPool(pl)
             added == SetToSeq(S)
             new == [i \in DOMAIN added |-> NewProxy(added[i])]
  <1>1. update_proxy_pool(pl, urls) = new \o marked
    BY DEF update_proxy_pool
  <1>2. /\ kept \in Pools
        /\ \A k \in DOMAIN kept : \E i \in I : kept[k] = pl[i]
        /\ \A i \in I : \E k \in DOMAIN kept : kept[k] = pl[i]
    <2>1. I \cap DOMAIN pl = I
      OBVIOUS
    <2> HIDE DEF I
    <2>2. QED
      BY <2>1, PoolOnly
  <1>3. StillRuns(pl, kept, Request)
    <2> SUFFICES ASSUME NEW r \in Request, NEW u, RunsIn(pl, u, r)
                 PROVE  RunsIn(kept, u, r)
      BY DEF StillRuns
    <2>1. PICK i \in DOMAIN pl : pl[i].url = u /\ Runs(pl[i], r)
      BY DEF RunsIn
    <2>2. HostOf[r] \in Host
      BY ProxiedRequestsAssumption DEF Request
    <2>3. has_active_requests(pl[i])
      BY <2>1, <2>2 DEF has_active_requests, Runs
    <2>4. i \in I
      BY <2>3 DEF Stays
    <2>5. QED
      BY <1>2, <2>1, <2>4 DEF RunsIn
  <1>4. \A k \in DOMAIN kept : kept[k] \in Pooled /\ kept[k].url \in InPool(pl)
    <2>1. \A k \in DOMAIN kept : kept[k] \in Pooled
      BY <1>2 DEF Pools
    <2>2. QED
      BY <1>2, <2>1 DEF InPool
  <1> HIDE DEF kept
  <1>5. marked \in Pools /\ StillRuns(kept, marked, Request)
    <2>1. ASSUME NEW i \in DOMAIN kept
          PROVE  /\ marked[i] \in Pooled /\ marked[i].url = kept[i].url
                 /\ \A r \in Request : Runs(kept[i], r) => Runs(marked[i], r)
      <3>1. CASE kept[i].url \in urls
        BY <3>1, <1>4
      <3>2. CASE kept[i].url \notin urls
        <4> DEFINE p == kept[i]
                   p2 == [p EXCEPT !.pending = TRUE]
        <4>1. p \in Pooled /\ marked[i] = p2
          BY <3>2, <1>4
        <4>2. p2 \in PooledType /\ p2.url = p.url /\ p2.slots = p.slots
          BY <4>1 DEF Pooled, PooledType
        <4>3. \A h \in Host : Len(p2.slots[h]) <= Len(p.slots[h])
          BY <4>1, <4>2 DEF Pooled, PooledType
        <4>4. p2 \in Pooled
          BY <4>1, <4>2, <4>3, FewerSlots
        <4>5. QED
          BY <4>1, <4>2, <4>4 DEF Runs
      <3>3. QED
        BY <3>1, <3>2
    <2>2. DOMAIN marked = DOMAIN kept /\ marked = [i \in DOMAIN kept |-> marked[i]]
      OBVIOUS
    <2> HIDE DEF marked
    <2>3. QED
      BY <1>2, <2>1, <2>2, PoolInPlace
  <1>6. IsFiniteSet(urls) /\ urls \subseteq Proxy
    BY ProxiedRequestsAssumption DEF Proxy
  <1>7. IsFiniteSet(S)
    BY <1>6, FS_Difference
  <1>8. /\ added \in Seq(S)
        /\ \A i, j \in DOMAIN added : added[i] = added[j] => i = j
    <2> HIDE DEF S
    <2>1. QED
      BY <1>7, AsSeq
  <1> HIDE DEF added
  <1>9. \A i \in DOMAIN added : added[i] \in Proxy \ InPool(pl)
    BY <1>6, <1>8
  <1>10. new \in Pools
    <2>1. \A i \in DOMAIN added : new[i] \in Pooled /\ new[i].url = added[i]
      BY <1>9, NewPooled
    <2>2. DOMAIN added = 1..Len(added) /\ Len(added) \in Nat /\ DOMAIN new = DOMAIN added
      BY <1>8
    <2>3. new \in [1..Len(added) -> Pooled]
      BY <2>1, <2>2
    <2>4. new \in Seq(Pooled)
      BY <2>2, <2>3, FunctionIsSeq
    <2> HIDE DEF new
    <2>5. QED
      BY <1>8, <2>1, <2>2, <2>4 DEF Pools, OwnUrls
  <1>11. \A i \in DOMAIN new, j \in DOMAIN marked : new[i].url # marked[j].url
    <2>1. \A i \in DOMAIN new : new[i].url \notin InPool(pl)
      BY <1>9, NewPooled
    <2>2. \A j \in DOMAIN marked : marked[j].url \in InPool(pl)
      <3> SUFFICES ASSUME NEW j \in DOMAIN kept
                   PROVE  mark(kept[j]).url \in InPool(pl)
        OBVIOUS
      <3>1. kept[j] \in PooledType
        BY <1>4 DEF Pooled
      <3>2. mark(kept[j]).url = kept[j].url
        BY <3>1 DEF PooledType
      <3>3. QED
        BY <1>4, <3>2
    <2>3. QED
      BY <2>1, <2>2
  <1> HIDE DEF new, marked
  <1>12. /\ new \o marked \in Pools
         /\ \A u, r : RunsIn(new, u, r) \/ RunsIn(marked, u, r)
                        => RunsIn(new \o marked, u, r)
    BY <1>5, <1>10, <1>11, PoolsJoined
  <1>13. StillRuns(pl, new \o marked, Request)
    BY <1>3, <1>5, <1>12 DEF StillRuns
  <1>14. QED
    BY <1>1, <1>12, <1>13

-----------------------------------------------------------------------------
(* Managing requests                                                       *)

EntryType ==
    [n : Url, status : {"queued", "started", "waiting"},
     future : {"none", "running", "returned", "proxy"}, proxy : Proxy \cup {Nothing}]

\* All requests but that for this entry of a queue.
Others(q, e) == Request \ {<<q, e.n>>}

LEMMA NewEntry == \A n \in Url : Entry(n) \in EntryType /\ Entry(n).n = n
  BY DEF Entry, EntryType

LEMMA EndedEntry ==
    ASSUME NEW e \in EntryType
    PROVE  Ended(e) \in EntryType /\ Ended(e).n = e.n /\ Ended(e).status = "waiting"
  BY DEF Ended, EntryType

\* Seeing whether a request has ended only costs that request its slot.
LEMMA Collected ==
    ASSUME NEW pl \in Pools, NEW q \in Queue, NEW e \in EntryType, NEW answers,
           NEW c, c = Collect(pl, q, e, answers)
    PROVE  /\ c.pool \in Pools
           /\ StillRuns(pl, c.pool, Others(q, e))
           /\ c.entry \in EntryType /\ c.entry.n = e.n
           /\ c.entry.status = "started" => c.pool = pl /\ c.entry = e
  <1> DEFINE r == <<q, e.n>>
             Rest == Others(q, e)
             freed == [i \in DOMAIN pl |->
                          IF pl[i].url = e.proxy THEN mark_request_finished(pl[i], r)
                          ELSE pl[i]]
             I == {i \in DOMAIN freed : freed[i].url # e.proxy \/ ~Goes(freed[i])}
             left == Only(freed, I)
             down == [i \in DOMAIN left |->
                         IF left[i].url = e.proxy THEN [left[i] EXCEPT !.healthy = FALSE]
                         ELSE left[i]]
  <1>1. r \in Request
    BY DEF Request, EntryType
  <1>2. freed \in Pools /\ StillRuns(pl, freed, Rest)
    <2>1. \A i \in DOMAIN pl : pl[i] \in Pooled
      BY DEF Pools
    <2>2. \A i \in DOMAIN pl :
              /\ freed[i] \in Pooled /\ freed[i].url = pl[i].url
              /\ \A o \in Rest : Runs(pl[i], o) => Runs(freed[i], o)
      BY <1>1, <2>1, FinishedRequest DEF SameProxy, Others
    <2>3. DOMAIN freed = DOMAIN pl /\ freed = [i \in DOMAIN pl |-> freed[i]]
      OBVIOUS
    <2> HIDE DEF freed, Rest
    <2>4. QED
      BY <2>2, <2>3, PoolInPlace
  <1>3. CASE e.status # "started" \/ e.future = "running"
    <2>1. c = [pool |-> pl, entry |-> e]
      BY <1>3 DEF Collect
    <2>2. QED
      BY <2>1 DEF StillRuns
  <1>4. CASE ~(e.status # "started" \/ e.future = "running")
    <2>1. c = IF e.future = "proxy" /\ e.proxy \notin answers
              THEN [pool |-> Unhealthy(left, e.proxy), entry |-> Entry(e.n)]
              ELSE [pool |-> left, entry |-> Ended(e)]
      BY <1>4 DEF Collect, Update
    <2>2. Unhealthy(left, e.proxy) = down
      BY DEF Unhealthy, Update
    <2> HIDE DEF freed
    <2>3. /\ left \in Pools
          /\ \A i \in I : \E k \in DOMAIN left : left[k] = freed[i]
      <3>1. I \cap DOMAIN freed = I
        OBVIOUS
      <3> HIDE DEF I
      <3>2. QED
        BY <1>2, <3>1, PoolOnly
    <2>4. StillRuns(pl, left, Rest)
      <3> SUFFICES ASSUME NEW o \in Rest, NEW u \in Proxy, RunsIn(pl, u, o)
                   PROVE  RunsIn(left, u, o)
        BY DEF StillRuns
      <3>1. RunsIn(freed, u, o)
        BY <1>2 DEF StillRuns
      <3>2. PICK i \in DOMAIN freed : freed[i].url = u /\ Runs(freed[i], o)
        BY <3>1 DEF RunsIn
      <3>3. HostOf[o] \in Host
        BY ProxiedRequestsAssumption DEF Request, Others
      <3>4. has_active_requests(freed[i])
        BY <3>2, <3>3 DEF has_active_requests, Runs
      <3>5. i \in I
        BY <3>4 DEF Goes
      <3>6. QED
        BY <2>3, <3>2, <3>5 DEF RunsIn
    <2> HIDE DEF left
    <2>5. down \in Pools /\ StillRuns(left, down, Rest)
      <3>1. ASSUME NEW i \in DOMAIN left
            PROVE  /\ down[i] \in Pooled /\ down[i].url = left[i].url
                   /\ \A o \in Rest : Runs(left[i], o) => Runs(down[i], o)
        <4> DEFINE p == left[i]
                   p2 == [p EXCEPT !.healthy = FALSE]
        <4>1. p \in Pooled
          BY <2>3 DEF Pools
        <4>2. p2 \in PooledType /\ p2.url = p.url /\ p2.slots = p.slots
          BY <4>1 DEF Pooled, PooledType
        <4>3. \A h \in Host : Len(p2.slots[h]) <= Len(p.slots[h])
          BY <4>1, <4>2 DEF Pooled, PooledType
        <4>4. p2 \in Pooled
          BY <4>1, <4>2, <4>3, FewerSlots
        <4>5. down[i] = p2 \/ down[i] = p
          OBVIOUS
        <4> HIDE DEF p2, down
        <4>6. QED
          BY <4>1, <4>2, <4>4, <4>5 DEF Runs
      <3>2. DOMAIN down = DOMAIN left /\ down = [i \in DOMAIN left |-> down[i]]
        OBVIOUS
      <3> HIDE DEF down, Rest
      <3>3. QED
        BY <2>3, <3>1, <3>2, PoolInPlace
    <2>6. StillRuns(pl, down, Rest)
      BY <2>4, <2>5 DEF StillRuns
    <2> HIDE DEF down
    <2>7. e.n \in Url
      BY DEF EntryType
    <2>8. CASE e.future = "proxy" /\ e.proxy \notin answers
      <3>1. c = [pool |-> down, entry |-> Entry(e.n)]
        BY <2>1, <2>2, <2>8
      <3>2. Entry(e.n).status = "queued"
        BY DEF Entry
      <3>3. QED
        BY <2>5, <2>6, <2>7, <3>1, <3>2, NewEntry
    <2>9. CASE ~(e.future = "proxy" /\ e.proxy \notin answers)
      <3>1. c = [pool |-> left, entry |-> Ended(e)]
        BY <2>1, <2>9
      <3>2. QED
        BY <2>3, <2>4, <3>1, EndedEntry
    <2>10. QED
      BY <2>8, <2>9
  <1>5. QED
    BY <1>3, <1>4

\* A request that is started runs in the proxy that was claimed for it.
LEMMA StartedEntry ==
    ASSUME NEW q \in Queue, NEW seen, seen.pool \in Pools, seen.entry \in EntryType,
           NEW m, m = Start(q, seen)
    PROVE  /\ m.pool \in Pools /\ StillRuns(seen.pool, m.pool, Request)
           /\ m.entry \in EntryType /\ m.entry.n = seen.entry.n
           /\ m.entry.status = "started" =>
                \/ RunsIn(m.pool, m.entry.proxy, <<q, m.entry.n>>)
                \/ m.entry = seen.entry
  <1> DEFINE e == seen.entry
             r == <<q, e.n>>
             c == claim_proxy(seen.pool, r)
  <1>1. CASE e.status # "queued"
    BY <1>1 DEF Start, StillRuns
  <1>2. CASE e.status = "queued"
    <2>1. r \in Request
      BY DEF Request, EntryType
    <2>2. /\ c.pool \in Pools /\ StillRuns(seen.pool, c.pool, Request)
          /\ c.proxy \in Proxy \cup {Nothing}
          /\ c.proxy # Nothing => RunsIn(c.pool, c.proxy, r)
      <3> HIDE DEF r
      <3>1. QED
        BY <2>1, ClaimedProxy
    <2>3. m = Begun(c, e)
      BY <1>2 DEF Start
    <2> HIDE DEF c
    <2>4. m.pool = c.pool
      BY <2>3 DEF Begun
    <2>5. CASE c.proxy # Nothing
      <3>1. m.entry = [e EXCEPT !.status = "started", !.proxy = c.proxy,
                                !.future = "running"]
        BY <2>3, <2>5 DEF Begun
      <3>2. m.entry \in EntryType /\ m.entry.n = e.n /\ m.entry.proxy = c.proxy
        BY <3>1, <2>2 DEF EntryType
      <3>3. QED
        BY <2>2, <2>4, <2>5, <3>2
    <2>6. CASE c.proxy = Nothing
      <3>1. m.entry = e \/ m.entry = Ended(e)
        BY <2>3, <2>6 DEF Begun
      <3>2. QED
        BY <2>2, <2>4, <3>1, EndedEntry
    <2>7. QED
      BY <2>5, <2>6
  <1>3. QED
    BY <1>1, <1>2

LEMMA ManagedEntry ==
    ASSUME NEW pl \in Pools, NEW q \in Queue, NEW e \in EntryType, NEW answers,
           e.status = "started" => RunsIn(pl, e.proxy, <<q, e.n>>),
           NEW m, m = Start(q, Collect(pl, q, e, answers))
    PROVE  /\ m.pool \in Pools
           /\ StillRuns(pl, m.pool, Others(q, e))
           /\ m.entry \in EntryType /\ m.entry.n = e.n
           /\ m.entry.status = "started" =>
                RunsIn(m.pool, m.entry.proxy, <<q, e.n>>)
  <1> DEFINE seen == Collect(pl, q, e, answers)
             r == <<q, e.n>>
  <1>a. seen = Collect(pl, q, e, answers)
    OBVIOUS
  <1> HIDE DEF seen
  <1>1. /\ seen.pool \in Pools /\ StillRuns(pl, seen.pool, Others(q, e))
        /\ seen.entry \in EntryType /\ seen.entry.n = e.n
        /\ seen.entry.status = "started" => seen.pool = pl /\ seen.entry = e
    BY <1>a, Collected
  <1>2. /\ m.pool \in Pools /\ StillRuns(seen.pool, m.pool, Request)
        /\ m.entry \in EntryType /\ m.entry.n = seen.entry.n
        /\ m.entry.status = "started" =>
             \/ RunsIn(m.pool, m.entry.proxy, <<q, m.entry.n>>)
             \/ m.entry = seen.entry
    BY <1>1, StartedEntry DEF seen
  <1>3. StillRuns(pl, m.pool, Others(q, e))
    BY <1>1, <1>2 DEF StillRuns, Others
  <1>4. r \in Request
    BY DEF Request, EntryType
  <1>5. ASSUME m.entry.status = "started"
        PROVE  RunsIn(m.pool, m.entry.proxy, r)
    <2>1. CASE m.entry = seen.entry
      <3>1. seen.pool = pl /\ m.entry = e /\ e.status = "started"
        BY <1>1, <1>5, <2>1
      <3>2. RunsIn(pl, e.proxy, r)
        BY <3>1
      <3>3. e.proxy \in Proxy
        <4>1. PICK i \in DOMAIN pl : pl[i].url = e.proxy
          BY <3>2 DEF RunsIn
        <4>2. pl[i] \in PooledType
          BY DEF Pools, Pooled
        <4>3. QED
          BY <4>1, <4>2 DEF PooledType
      <3>4. QED
        BY <1>2, <1>4, <3>1, <3>2, <3>3 DEF StillRuns
    <2>2. CASE m.entry # seen.entry
      BY <1>1, <1>2, <1>5, <2>2
    <2>3. QED
      BY <2>1, <2>2
  <1>6. QED
    BY <1>1, <1>2, <1>3, <1>5

-----------------------------------------------------------------------------
(* All queues                                                              *)

QueueType == [name : Queue, entries : Seq(EntryType)]

OwnNames(qs) == \A i, j \in DOMAIN qs : qs[i].name = qs[j].name => i = j
OwnNumbers(entries) == \A j, k \in DOMAIN entries : entries[j].n = entries[k].n => j = k

QueueLists ==
    {qs \in Seq(QueueType) :
        OwnNames(qs) /\ \A i \in DOMAIN qs : OwnNumbers(qs[i].entries)}

\* What an entry has started is what its proxy runs.
LinkedEntry(pl, q, e) == e.status = "started" => RunsIn(pl, e.proxy, <<q, e.n>>)

Linked(pl, qs) ==
    \A i \in DOMAIN qs : \A k \in DOMAIN qs[i].entries :
        LinkedEntry(pl, qs[i].name, qs[i].entries[k])

\* The same queues with the same URLs in the same order.
SameUrls(qs, qs2) ==
    /\ DOMAIN qs2 = DOMAIN qs
    /\ \A i \in DOMAIN qs :
        /\ qs2[i].name = qs[i].name
        /\ DOMAIN qs2[i].entries = DOMAIN qs[i].entries
        /\ \A k \in DOMAIN qs[i].entries : qs2[i].entries[k].n = qs[i].entries[k].n

Handled(qs) ==
    {acc \in [pool : Pools, queues : QueueLists] :
        Linked(acc.pool, acc.queues) /\ SameUrls(qs, acc.queues)}

LEMMA RunsInProxy ==
    ASSUME NEW pl \in Pools, NEW u, NEW r, RunsIn(pl, u, r)
    PROVE  u \in Proxy
  <1>1. PICK i \in DOMAIN pl : pl[i].url = u
    BY DEF RunsIn
  <1>2. pl[i] \in PooledType
    BY DEF Pools, Pooled
  <1>3. QED
    BY <1>1, <1>2 DEF PooledType

\* An entry stays linked when others are managed.
LEMMA StaysLinked ==
    ASSUME NEW pl \in Pools, NEW pl2, NEW R, StillRuns(pl, pl2, R),
           NEW q, NEW e, <<q, e.n>> \in R, LinkedEntry(pl, q, e)
    PROVE  LinkedEntry(pl2, q, e)
  <1> SUFFICES ASSUME e.status = "started"
               PROVE  RunsIn(pl2, e.proxy, <<q, e.n>>)
    BY DEF LinkedEntry
  <1>1. RunsIn(pl, e.proxy, <<q, e.n>>)
    BY DEF LinkedEntry
  <1>2. e.proxy \in Proxy
    BY <1>1, RunsInProxy
  <1>3. QED
    BY <1>1, <1>2 DEF StillRuns

LEMMA ManagedStep ==
    ASSUME NEW qs, NEW acc \in Handled(qs), NEW i \in DOMAIN qs,
           NEW k \in DOMAIN qs[i].entries, NEW answers
    PROVE  Managed(acc, i, k, answers) \in Handled(qs)
  <1> DEFINE old == acc.queues
             q == old[i].name
             e == old[i].entries[k]
             m == Start(q, Collect(acc.pool, q, e, answers))
             es == [old[i].entries EXCEPT ![k] = m.entry]
             new == [old EXCEPT ![i].entries[k] = m.entry]
             qu == [old[i] EXCEPT !.entries = es]
  <1>1. /\ acc.pool \in Pools /\ old \in QueueLists /\ Linked(acc.pool, old)
        /\ SameUrls(qs, old)
    BY DEF Handled
  <1>2. Managed(acc, i, k, answers) = [pool |-> m.pool, queues |-> new]
    BY DEF Managed
  <1>3. i \in DOMAIN old /\ k \in DOMAIN old[i].entries
    BY <1>1 DEF SameUrls
  <1>4. old \in Seq(QueueType) /\ \A j \in DOMAIN old : old[j] \in QueueType
    BY <1>1 DEF QueueLists
  <1>5. q \in Queue /\ old[i].entries \in Seq(EntryType) /\ e \in EntryType
    BY <1>3, <1>4 DEF QueueType
  <1>6. e.status = "started" => RunsIn(acc.pool, e.proxy, <<q, e.n>>)
    BY <1>1, <1>3 DEF Linked, LinkedEntry
  <1> HIDE DEF q, e
  <1>a. m = Start(q, Collect(acc.pool, q, e, answers))
    OBVIOUS
  <1> HIDE DEF m
  <1>7. /\ m.pool \in Pools
        /\ StillRuns(acc.pool, m.pool, Others(q, e))
        /\ m.entry \in EntryType /\ m.entry.n = e.n
        /\ m.entry.status = "started" => RunsIn(m.pool, m.entry.proxy, <<q, e.n>>)
    BY <1>a, <1>1, <1>5, <1>6, ManagedEntry
  <1>8. /\ es \in Seq(EntryType) /\ DOMAIN es = DOMAIN old[i].entries
        /\ es[k] = m.entry
        /\ \A j \in DOMAIN es : j # k => es[j] = old[i].entries[j]
    BY <1>3, <1>5, <1>7
  <1>9. \A j \in DOMAIN es : es[j].n = old[i].entries[j].n
    BY <1>7, <1>8 DEF e
  <1>10. new = [old EXCEPT ![i] = qu]
    BY <1>3, <1>4, <1>5 DEF QueueType
  <1> HIDE DEF es, old
  <1>11. qu \in QueueType /\ qu.name = old[i].name /\ qu.entries = es
    BY <1>3, <1>4, <1>8 DEF QueueType
  <1> HIDE DEF new, qu
  <1>12. /\ new \in Seq(QueueType) /\ DOMAIN new = DOMAIN old
         /\ new[i].name = old[i].name /\ new[i].entries = es
         /\ \A j \in DOMAIN old : j # i => new[j] = old[j]
    BY <1>3, <1>4, <1>10, <1>11
  <1>13. SameUrls(old, new)
    BY <1>8, <1>9, <1>12 DEF SameUrls
  <1>14. SameUrls(qs, new)
    BY <1>1, <1>13 DEF SameUrls
  <1>15. new \in QueueLists
    <2>1. OwnNames(new)
      BY <1>1, <1>13 DEF OwnNames, SameUrls, QueueLists
    <2>2. ASSUME NEW j \in DOMAIN new PROVE OwnNumbers(new[j].entries)
      BY <1>1, <1>13 DEF OwnNumbers, SameUrls, QueueLists
    <2>3. QED
      BY <1>12, <2>1, <2>2 DEF QueueLists
  <1>16. Linked(m.pool, new)
    <2> SUFFICES ASSUME NEW j \in DOMAIN new, NEW l \in DOMAIN new[j].entries
                 PROVE  LinkedEntry(m.pool, new[j].name, new[j].entries[l])
      BY DEF Linked
    <2>1. CASE j = i /\ l = k
      <3>1. new[j].entries[l] = m.entry /\ new[j].name = q
        BY <2>1, <1>8, <1>12 DEF q
      <3>2. QED
        BY <3>1, <1>7 DEF LinkedEntry
    <2>2. CASE ~(j = i /\ l = k)
      <3> DEFINE f == new[j].entries[l]
      <3>1. /\ j \in DOMAIN old /\ l \in DOMAIN old[j].entries
            /\ f = old[j].entries[l] /\ new[j].name = old[j].name
        BY <2>2, <1>8, <1>12
      <3>2. old[j].name \in Queue /\ f \in EntryType
        BY <1>4, <3>1 DEF QueueType
      <3>3. <<old[j].name, f.n>> \in Request
        BY <3>2 DEF Request, EntryType
      <3>4. old[j].name # q \/ f.n # e.n
        BY <1>1, <1>3, <2>2, <3>1 DEF q, e, QueueLists, OwnNames, OwnNumbers
      <3>5. <<old[j].name, f.n>> \in Others(q, e)
        BY <3>3, <3>4 DEF Others
      <3>6. LinkedEntry(acc.pool, old[j].name, f)
        BY <1>1, <3>1 DEF Linked
      <3> HIDE DEF f
      <3>7. LinkedEntry(m.pool, old[j].name, f)
        BY <1>1, <1>7, <3>5, <3>6, StaysLinked
      <3>8. QED
        BY <3>1, <3>7 DEF f
    <2>3. QED
      BY <2>1, <2>2
  <1>17. QED
    BY <1>2, <1>7, <1>14, <1>15, <1>16 DEF Handled

\* All entries of a queue in turn.
LEMMA ManagedQueue ==
    ASSUME NEW qs, NEW acc \in Handled(qs), NEW i \in DOMAIN qs, NEW answers
    PROVE  ManageQueue(acc, i, answers) \in Handled(qs)
  <1> DEFINE n == Len(acc.queues[i].entries)
             to[k \in 0..n] == IF k = 0 THEN acc ELSE Managed(to[k - 1], i, k, answers)
             A == Handled(qs)
             F == [k \in 1..n |-> [a \in A |-> Managed(a, i, k, answers)]]
  <1>1. ManageQueue(acc, i, answers) = to[n]
    BY DEF ManageQueue
  <1>2. n \in Nat /\ 1..n = DOMAIN qs[i].entries
    <2>1. acc.queues \in QueueLists /\ SameUrls(qs, acc.queues)
      BY DEF Handled
    <2>2. acc.queues[i].entries \in Seq(EntryType)
      <3>1. acc.queues \in Seq(QueueType) /\ i \in DOMAIN acc.queues
        BY <2>1 DEF SameUrls, QueueLists
      <3>2. acc.queues[i] \in QueueType
        BY <3>1
      <3>3. QED
        BY <3>2 DEF QueueType
    <2>3. QED
      BY <2>1, <2>2 DEF SameUrls
  <1> HIDE DEF n
  <1>3. \E g \in [0..n -> A] :
            g = [k \in 0..n |-> IF k = 0 THEN acc ELSE Managed(g[k - 1], i, k, answers)]
    <2>1. \A k \in 1..n : \A a \in A : F[k][a] = Managed(a, i, k, answers)
      OBVIOUS
    <2>2. \A k \in 1..n : \A a \in A : Managed(a, i, k, answers) \in A
      BY <1>2, ManagedStep
    <2>3. F \in [1..n -> [A -> A]] /\ acc \in A
      BY <2>2
    <2> HIDE DEF F, A
    <2>4. PICK g \in [0..n -> A] : Unfolds(g, n, acc, F)
      BY <1>2, <2>3, RecursionExists
    <2>5. /\ g[0] = acc
          /\ \A k \in 1..n : g[k - 1] \in A /\ g[k] = Managed(g[k - 1], i, k, answers)
      <3>1. \A k \in 1..n : k - 1 \in 0..n
        BY <1>2
      <3>2. QED
        BY <2>1, <2>4, <3>1 DEF Unfolds
    <2>6. g = [k \in 0..n |-> IF k = 0 THEN acc ELSE Managed(g[k - 1], i, k, answers)]
      BY <1>2, <2>4, <2>5
    <2>7. QED
      BY <2>4, <2>6
  <1>4. to = [k \in 0..n |-> IF k = 0 THEN acc ELSE Managed(to[k - 1], i, k, answers)]
    BY <1>3
  <1> HIDE DEF to
  <1> DEFINE J == {k \in 0..n : to[k] \in A}
  <1>5. 0 \in J
    BY <1>2, <1>4
  <1>6. ASSUME NEW k \in 0..(n - 1), k \in J
        PROVE  k + 1 \in J
    <2>1. k + 1 \in 1..n /\ k + 1 \in 0..n /\ (k + 1) - 1 = k /\ k + 1 # 0
      BY <1>2
    <2>2. to[k + 1] = Managed(to[k], i, k + 1, answers)
      BY <1>4, <2>1
    <2>3. to[k + 1] \in A
      BY <1>2, <1>6, <2>1, <2>2, ManagedStep
    <2>4. QED
      BY <2>1, <2>3
  <1>7. n \in J
    <2> HIDE DEF J
    <2>1. 0..n \subseteq J
      BY <1>2, <1>5, <1>6, SetInduction
    <2>2. QED
      BY <1>2, <2>1
  <1>8. QED
    BY <1>1, <1>7

\* All queues in turn: requests that are under way have slots, and the queues
\* keep their URLs.
LEMMA AllManaged ==
    ASSUME NEW pl \in Pools, NEW qs \in QueueLists, Linked(pl, qs), NEW answers
    PROVE  manage_requests(pl, qs, answers) \in Handled(qs)
  <1> DEFINE n == Len(qs)
             base == [pool |-> pl, queues |-> qs]
             to[i \in 0..n] == IF i = 0 THEN base ELSE ManageQueue(to[i - 1], i, answers)
             A == Handled(qs)
             F == [i \in 1..n |-> [a \in A |-> ManageQueue(a, i, answers)]]
  <1>1. manage_requests(pl, qs, answers) = to[n]
    BY DEF manage_requests
  <1>2. n \in Nat /\ 1..n = DOMAIN qs
    BY DEF QueueLists
  <1>3. base \in A
    BY DEF Handled, SameUrls
  <1> HIDE DEF n, base
  <1>4. \E g \in [0..n -> A] :
            g = [i \in 0..n |-> IF i = 0 THEN base ELSE ManageQueue(g[i - 1], i, answers)]
    <2>1. \A i \in 1..n : \A a \in A : F[i][a] = ManageQueue(a, i, answers)
      OBVIOUS
    <2>2. \A i \in 1..n : \A a \in A : ManageQueue(a, i, answers) \in A
      BY <1>2, ManagedQueue
    <2>3. F \in [1..n -> [A -> A]]
      BY <2>2
    <2> HIDE DEF F, A
    <2>4. PICK g \in [0..n -> A] : Unfolds(g, n, base, F)
      BY <1>2, <1>3, <2>3, RecursionExists
    <2>5. /\ g[0] = base
          /\ \A i \in 1..n : g[i - 1] \in A /\ g[i] = ManageQueue(g[i - 1], i, answers)
      <3>1. \A i \in 1..n : i - 1 \in 0..n
        BY <1>2
      <3>2. QED
        BY <2>1, <2>4, <3>1 DEF Unfolds
    <2>6. g = [i \in 0..n |-> IF i = 0 THEN base ELSE ManageQueue(g[i - 1], i, answers)]
      BY <1>2, <2>4, <2>5
    <2>7. QED
      BY <2>4, <2>6
  <1>5. to = [i \in 0..n |-> IF i = 0 THEN base ELSE ManageQueue(to[i - 1], i, answers)]
    BY <1>4
  <1> HIDE DEF to
  <1> DEFINE J == {i \in 0..n : to[i] \in A}
  <1>6. 0 \in J
    BY <1>2, <1>3, <1>5
  <1>7. ASSUME NEW i \in 0..(n - 1), i \in J
        PROVE  i + 1 \in J
    <2>1. i + 1 \in 1..n /\ i + 1 \in 0..n /\ (i + 1) - 1 = i /\ i + 1 # 0
      BY <1>2
    <2>2. to[i + 1] = ManageQueue(to[i], i + 1, answers)
      BY <1>5, <2>1
    <2>3. to[i + 1] \in A
      BY <1>2, <1>7, <2>1, <2>2, ManagedQueue
    <2>4. QED
      BY <2>1, <2>3
  <1>8. n \in J
    <2> HIDE DEF J
    <2>1. 0..n \subseteq J
      BY <1>2, <1>6, <1>7, SetInduction
    <2>2. QED
      BY <1>2, <2>1
  <1>9. QED
    BY <1>1, <1>8

-----------------------------------------------------------------------------
(* One queue                                                               *)

Named(qs, q) == \E i \in DOMAIN qs : qs[i].name = q

\* Entries(q) for any list of queues.
EntriesIn(qs, q) ==
    IF Named(qs, q) THEN qs[CHOOSE i \in DOMAIN qs : qs[i].name = q].entries ELSE <<>>

Ascending(es) == \A j, k \in DOMAIN es : j < k => es[j].n < es[k].n

LEMMA EntriesOfQueue ==
    ASSUME NEW qs \in QueueLists, NEW q
    PROVE  /\ \A i \in DOMAIN qs : qs[i].name = q => EntriesIn(qs, q) = qs[i].entries
           /\ ~Named(qs, q) => EntriesIn(qs, q) = <<>>
           /\ EntriesIn(qs, q) \in Seq(EntryType)
           /\ OwnNumbers(EntriesIn(qs, q))
  <1> DEFINE c == CHOOSE i \in DOMAIN qs : qs[i].name = q
  <1>1. qs \in Seq(QueueType) /\ OwnNames(qs)
        /\ \A i \in DOMAIN qs : qs[i] \in QueueType /\ OwnNumbers(qs[i].entries)
    BY DEF QueueLists
  <1>2. CASE Named(qs, q)
    <2>1. c \in DOMAIN qs /\ qs[c].name = q
      BY <1>2 DEF Named
    <2>2. EntriesIn(qs, q) = qs[c].entries
      BY <1>2 DEF EntriesIn
    <2> HIDE DEF c
    <2>3. \A i \in DOMAIN qs : qs[i].name = q => i = c
      BY <1>1, <2>1 DEF OwnNames
    <2>4. qs[c].entries \in Seq(EntryType)
      BY <1>1, <2>1 DEF QueueType
    <2>5. QED
      BY <1>1, <1>2, <2>1, <2>2, <2>3, <2>4
  <1>3. CASE ~Named(qs, q)
    <2>1. EntriesIn(qs, q) = <<>>
      BY <1>3 DEF EntriesIn
    <2>2. OwnNumbers(<<>>)
      BY DEF OwnNumbers
    <2>3. QED
      BY <1>3, <2>1, <2>2 DEF Named
  <1>4. QED
    BY <1>2, <1>3

\* Queues are linked if each queue's entries are.
LEMMA LinkedByQueue ==
    ASSUME NEW pl, NEW qs \in QueueLists
    PROVE  Linked(pl, qs) <=>
             \A q \in Queue : \A k \in DOMAIN EntriesIn(qs, q) :
                LinkedEntry(pl, q, EntriesIn(qs, q)[k])
  <1>1. ASSUME Linked(pl, qs), NEW q \in Queue, NEW k \in DOMAIN EntriesIn(qs, q)
        PROVE  LinkedEntry(pl, q, EntriesIn(qs, q)[k])
    <2>1. CASE Named(qs, q)
      BY <1>1, <2>1, EntriesOfQueue DEF Named, Linked
    <2>2. CASE ~Named(qs, q)
      <3>1. EntriesIn(qs, q) = <<>>
        BY <2>2, EntriesOfQueue
      <3>2. QED
        BY <1>1, <3>1
    <2>3. QED
      BY <2>1, <2>2
  <1>2. ASSUME \A q \in Queue : \A k \in DOMAIN EntriesIn(qs, q) :
                  LinkedEntry(pl, q, EntriesIn(qs, q)[k])
        PROVE  Linked(pl, qs)
    <2>1. \A i \in DOMAIN qs : /\ qs[i].name \in Queue
                               /\ qs[i].entries = EntriesIn(qs, qs[i].name)
      <3>1. \A i \in DOMAIN qs : qs[i] \in QueueType
        BY DEF QueueLists
      <3>2. QED
        BY <3>1, EntriesOfQueue DEF QueueType
    <2>2. QED
      BY <1>2, <2>1 DEF Linked
  <1>3. QED
    BY <1>1, <1>2

\* Some of a queue's entries.
LEMMA EntriesOnly ==
    ASSUME NEW es \in Seq(EntryType), OwnNumbers(es), NEW I
    PROVE  /\ Only(es, I) \in Seq(EntryType) /\ OwnNumbers(Only(es, I))
           /\ Ascending(es) => Ascending(Only(es, I))
           /\ \A k \in DOMAIN Only(es, I) : \E i \in I \cap DOMAIN es :
                Only(es, I)[k] = es[i]
           /\ \A i \in I \cap DOMAIN es : \E k \in DOMAIN Only(es, I) :
                Only(es, I)[k] = es[i]
  <1> DEFINE t == Only(es, I)
             D == I \cap (1..Len(es))
  <1>1. D = I \cap DOMAIN es
    OBVIOUS
  <1>2. t \in Seq(EntryType) /\ \E at : Picks(t, es, D, at)
    BY OnlyPicks
  <1>3. PICK at : Picks(t, es, D, at)
    BY <1>2
  <1> HIDE DEF t, D
  <1>4. DOMAIN t = 1..Len(t) /\ Len(t) \in Nat
    BY <1>2
  <1>5. \A k \in DOMAIN t : at[k] \in D /\ t[k] = es[at[k]]
    BY <1>3, <1>4 DEF Picks
  <1>6. \A i \in D : \E k \in DOMAIN t : t[k] = es[i]
    BY <1>3, <1>4 DEF Picks
  <1>7. ASSUME NEW j \in DOMAIN t, NEW k \in DOMAIN t, t[j].n = t[k].n
        PROVE  j = k
    <2>1. at[j] = at[k]
      BY <1>1, <1>5, <1>7 DEF OwnNumbers
    <2>2. at[j] \in Int /\ j \in Int /\ k \in Int
      BY <1>4, <1>5 DEF D
    <2>3. ~(j < k) /\ ~(k < j)
      BY <1>3, <1>4, <2>1, <2>2 DEF Picks
    <2>4. QED
      BY <2>2, <2>3
  <1>8. ASSUME Ascending(es) PROVE Ascending(t)
    <2>1. \A j, k \in DOMAIN t : j < k => at[j] < at[k]
      BY <1>3, <1>4 DEF Picks
    <2>2. QED
      BY <1>1, <1>5, <1>8, <2>1 DEF Ascending
  <1>9. QED
    BY <1>1, <1>2, <1>5, <1>6, <1>7, <1>8 DEF t, OwnNumbers

\* A queue gets other entries.
LEMMA WithEntries ==
    ASSUME NEW qs \in QueueLists, NEW q \in Queue,
           NEW es \in Seq(EntryType), OwnNumbers(es)
    PROVE  /\ With(qs, q, es) \in QueueLists
           /\ \A p : Named(With(qs, q, es), p) <=> Named(qs, p)
           /\ \A p : p # q => EntriesIn(With(qs, q, es), p) = EntriesIn(qs, p)
           /\ Named(qs, q) => EntriesIn(With(qs, q, es), q) = es
  <1> DEFINE new == With(qs, q, es)
  <1>1. qs \in Seq(QueueType) /\ DOMAIN qs = 1..Len(qs) /\ Len(qs) \in Nat
        /\ \A i \in DOMAIN qs : qs[i] \in QueueType /\ OwnNumbers(qs[i].entries)
    BY DEF QueueLists
  <1>2. /\ DOMAIN new = DOMAIN qs
        /\ \A i \in DOMAIN qs : /\ new[i] \in QueueType /\ new[i].name = qs[i].name
                                /\ new[i].entries = IF qs[i].name = q THEN es
                                                    ELSE qs[i].entries
    <2>1. DOMAIN new = DOMAIN qs
      BY DEF With
    <2>2. ASSUME NEW i \in DOMAIN qs
          PROVE  /\ new[i] \in QueueType /\ new[i].name = qs[i].name
                 /\ new[i].entries = IF qs[i].name = q THEN es ELSE qs[i].entries
      <3>1. new[i] = IF qs[i].name = q THEN [qs[i] EXCEPT !.entries = es] ELSE qs[i]
        BY DEF With
      <3>2. qs[i] \in QueueType
        BY <1>1
      <3> HIDE DEF new
      <3>3. QED
        BY <3>1, <3>2 DEF QueueType
    <2>3. QED
      BY <2>1, <2>2
  <1>3. new \in Seq(QueueType)
    <2>1. new \in [1..Len(qs) -> QueueType]
      BY <1>1, <1>2 DEF With
    <2>2. QED
      BY <1>1, <2>1, FunctionIsSeq
  <1> HIDE DEF new
  <1>4. new \in QueueLists
    <2>1. OwnNames(new)
      BY <1>2 DEF QueueLists, OwnNames
    <2>2. \A i \in DOMAIN new : OwnNumbers(new[i].entries)
      BY <1>1, <1>2
    <2>3. QED
      BY <1>3, <2>1, <2>2 DEF QueueLists
  <1>5. \A p : Named(new, p) <=> Named(qs, p)
    BY <1>2 DEF Named
  <1>6. ASSUME NEW p, p # q PROVE EntriesIn(new, p) = EntriesIn(qs, p)
    <2>1. CASE Named(qs, p)
      <3>1. PICK i \in DOMAIN qs : qs[i].name = p
        BY <2>1 DEF Named
      <3>2. EntriesIn(qs, p) = qs[i].entries
        BY <3>1, EntriesOfQueue
      <3>3. EntriesIn(new, p) = new[i].entries
        BY <1>2, <1>4, <3>1, EntriesOfQueue
      <3>4. QED
        BY <1>2, <1>6, <3>1, <3>2, <3>3
    <2>2. CASE ~Named(qs, p)
      BY <1>4, <1>5, <2>2, EntriesOfQueue
    <2>3. QED
      BY <2>1, <2>2
  <1>7. ASSUME Named(qs, q) PROVE EntriesIn(new, q) = es
    <2>1. PICK i \in DOMAIN qs : qs[i].name = q
      BY <1>7 DEF Named
    <2>2. EntriesIn(new, q) = new[i].entries
      BY <1>2, <1>4, <2>1, EntriesOfQueue
    <2>3. QED
      BY <1>2, <2>1, <2>2
  <1>8. QED
    BY <1>4, <1>5, <1>6, <1>7 DEF new

NewQueueOf(q) == [name |-> q, entries |-> <<>>]

\* A new queue, without entries.
LEMMA NewQueue ==
    ASSUME NEW qs \in QueueLists, NEW q \in Queue, ~Named(qs, q),
           NEW new, new = Append(qs, NewQueueOf(q))
    PROVE  /\ new \in QueueLists /\ Named(new, q)
           /\ \A p : Named(qs, p) => Named(new, p)
           /\ \A p : p # q => (Named(new, p) <=> Named(qs, p))
           /\ \A p : EntriesIn(new, p) = EntriesIn(qs, p)
  <1> DEFINE qu == NewQueueOf(q)
             l == Len(qs)
  <1>1. qs \in Seq(QueueType) /\ DOMAIN qs = 1..l /\ l \in Nat
        /\ \A i \in DOMAIN qs : qs[i] \in QueueType /\ OwnNumbers(qs[i].entries)
    BY DEF QueueLists
  <1>2. qu \in QueueType /\ qu.name = q /\ qu.entries = <<>>
    BY DEF QueueType, NewQueueOf
  <1> HIDE DEF qu
  <1>3. new \in Seq(QueueType) /\ DOMAIN new = 1..(l + 1) /\ new[l + 1] = qu
        /\ \A i \in 1..l : new[i] = qs[i]
    BY <1>1, <1>2 DEF qu
  <1> HIDE DEF l
  <1>4. \A i \in DOMAIN new : i \in DOMAIN qs \/ i = l + 1
    BY <1>1, <1>3
  <1>5. OwnNames(new)
    <2> SUFFICES ASSUME NEW i \in DOMAIN new, NEW j \in DOMAIN new,
                        new[i].name = new[j].name
                 PROVE  i = j
      BY DEF OwnNames
    <2>1. CASE i \in DOMAIN qs /\ j \in DOMAIN qs
      BY <2>1, <1>1, <1>3 DEF QueueLists, OwnNames
    <2>2. CASE i \in DOMAIN qs /\ j = l + 1
      BY <2>2, <1>1, <1>2, <1>3 DEF Named
    <2>3. CASE i = l + 1 /\ j \in DOMAIN qs
      BY <2>3, <1>1, <1>2, <1>3 DEF Named
    <2>4. QED
      BY <1>4, <2>1, <2>2, <2>3
  <1>6. \A i \in DOMAIN new : OwnNumbers(new[i].entries)
    <2>1. OwnNumbers(<<>>)
      BY DEF OwnNumbers
    <2>2. QED
      BY <1>1, <1>2, <1>3, <1>4, <2>1
  <1>7. new \in QueueLists
    BY <1>3, <1>5, <1>6 DEF QueueLists
  <1>8. l + 1 \in DOMAIN new /\ \A i \in DOMAIN qs : i \in DOMAIN new
    BY <1>1, <1>3
  <1>9. Named(new, q) /\ \A p : Named(qs, p) => Named(new, p)
    BY <1>1, <1>2, <1>3, <1>8 DEF Named
  <1>10. \A p : p # q => (Named(new, p) => Named(qs, p))
    BY <1>1, <1>2, <1>3, <1>4 DEF Named
  <1>11. ASSUME NEW p PROVE EntriesIn(new, p) = EntriesIn(qs, p)
    <2>1. CASE Named(qs, p)
      <3>1. PICK i \in DOMAIN qs : qs[i].name = p
        BY <2>1 DEF Named
      <3>2. i \in DOMAIN new /\ new[i] = qs[i]
        BY <1>1, <1>3, <1>8, <3>1
      <3>3. EntriesIn(qs, p) = qs[i].entries
        BY <3>1, EntriesOfQueue
      <3>4. EntriesIn(new, p) = new[i].entries
        BY <1>7, <3>1, <3>2, EntriesOfQueue
      <3>5. QED
        BY <3>2, <3>3, <3>4
    <2>2. CASE p = q
      <3>1. EntriesIn(new, q) = new[l + 1].entries
        BY <1>2, <1>3, <1>7, <1>8, EntriesOfQueue
      <3>2. EntriesIn(qs, q) = <<>>
        BY EntriesOfQueue
      <3>3. QED
        BY <2>2, <3>1, <3>2, <1>2, <1>3
    <2>3. CASE ~Named(qs, p) /\ p # q
      BY <2>3, <1>7, <1>10, EntriesOfQueue
    <2>4. QED
      BY <2>1, <2>2, <2>3
  <1>12. QED
    BY <1>7, <1>9, <1>10, <1>11

\* A queue is deleted.
LEMMA DeletedQueue ==
    ASSUME NEW qs \in QueueLists, NEW q \in Queue, NEW new,
           new = Only(qs, {i \in DOMAIN qs : qs[i].name # q})
    PROVE  /\ new \in QueueLists
           /\ \A p : Named(new, p) <=> (Named(qs, p) /\ p # q)
           /\ \A p : p # q => EntriesIn(new, p) = EntriesIn(qs, p)
           /\ EntriesIn(new, q) = <<>>
  <1> DEFINE I == {i \in DOMAIN qs : qs[i].name # q}
             D == I \cap (1..Len(qs))
  <1>1. qs \in Seq(QueueType) /\ D = I
        /\ \A i \in DOMAIN qs : qs[i] \in QueueType /\ OwnNumbers(qs[i].entries)
    BY DEF QueueLists
  <1>2. new \in Seq(QueueType) /\ \E at : Picks(new, qs, D, at)
    <2> HIDE DEF I
    <2>1. new = Only(qs, I)
      BY DEF I
    <2>2. /\ Only(qs, I) \in Seq(QueueType)
          /\ \E at : Picks(Only(qs, I), qs, I \cap (1..Len(qs)), at)
      BY <1>1, OnlyPicks
    <2>3. QED
      BY <2>1, <2>2
  <1>3. PICK at : Picks(new, qs, D, at)
    BY <1>2
  <1> HIDE DEF D
  <1>4. DOMAIN new = 1..Len(new) /\ Len(new) \in Nat
    BY <1>2
  <1>5. \A k \in DOMAIN new : at[k] \in I /\ new[k] = qs[at[k]]
    BY <1>1, <1>3, <1>4 DEF Picks
  <1>6. \A i \in I : \E k \in DOMAIN new : new[k] = qs[i]
    <2>1. ASSUME NEW i \in D PROVE \E k \in DOMAIN new : new[k] = qs[i]
      <3>1. PICK k \in 1..Len(new) : at[k] = i
        BY <1>3 DEF Picks
      <3>2. k \in DOMAIN new /\ new[k] = qs[i]
        BY <1>4, <1>5, <3>1
      <3>3. QED
        BY <3>2
    <2>2. QED
      BY <1>1, <2>1
  <1>7. OwnNames(new)
    <2> SUFFICES ASSUME NEW j \in DOMAIN new, NEW k \in DOMAIN new,
                        new[j].name = new[k].name
                 PROVE  j = k
      BY DEF OwnNames
    <2>1. at[j] = at[k]
      BY <1>5 DEF QueueLists, OwnNames
    <2>2. at[j] \in Int /\ j \in Int /\ k \in Int
      BY <1>1, <1>4, <1>5 DEF D
    <2>3. ~(j < k) /\ ~(k < j)
      BY <1>3, <1>4, <2>1, <2>2 DEF Picks
    <2>4. QED
      BY <2>2, <2>3
  <1>8. new \in QueueLists
    <2>1. \A k \in DOMAIN new : OwnNumbers(new[k].entries)
      BY <1>1, <1>5
    <2>2. QED
      BY <1>2, <1>7, <2>1 DEF QueueLists
  <1>9. \A p : Named(new, p) <=> (Named(qs, p) /\ p # q)
    BY <1>5, <1>6 DEF Named
  <1>10. ASSUME NEW p, p # q PROVE EntriesIn(new, p) = EntriesIn(qs, p)
    <2>1. CASE Named(qs, p)
      <3>1. PICK i \in DOMAIN qs : qs[i].name = p
        BY <2>1 DEF Named
      <3>2. i \in I
        BY <3>1, <1>10
      <3>3. PICK k \in DOMAIN new : new[k] = qs[i]
        BY <1>6, <3>2
      <3>4. EntriesIn(qs, p) = qs[i].entries
        BY <3>1, EntriesOfQueue
      <3>5. EntriesIn(new, p) = new[k].entries
        BY <1>8, <3>1, <3>3, EntriesOfQueue
      <3>6. QED
        BY <3>3, <3>4, <3>5
    <2>2. CASE ~Named(qs, p)
      BY <1>8, <1>9, <2>2, EntriesOfQueue
    <2>3. QED
      BY <2>1, <2>2
  <1>11. EntriesIn(new, q) = <<>>
    BY <1>8, <1>9, EntriesOfQueue
  <1>12. QED
    BY <1>8, <1>9, <1>10, <1>11

-----------------------------------------------------------------------------
(* Type correctness, and requests have slots                               *)

Types ==
    /\ {configured, settings} \subseteq Settings \cup {Configured}
    /\ lock \in Queue \cup {Nothing} /\ phase \in [Queue -> Phase]
    /\ todo \in [Queue -> Seq(Url)] /\ delivered \in [Queue -> Seq(Url)]
    /\ have_urls \in [Queue -> BOOLEAN]
    /\ next \in [Queue -> Nat] /\ \A q \in Queue : next[q] \in 1..Pushed(q)
    /\ changes \in 0..MaxChanges

\* The pool and the queues have their types, each proxy is within its limits,
\* and each request that is under way has a slot.
PoolInv == pool \in Pools /\ queues \in QueueLists /\ Linked(pool, queues)

\* A queue has none of the URLs that its processor has yet to add.
Unasked ==
    \A q \in Queue : \A k \in DOMAIN EntriesIn(queues, q) :
        \/ EntriesIn(queues, q)[k].n < next[q]
        \/ EntriesIn(queues, q)[k].n = Pushed(q)

SlotInv == Types /\ PoolInv /\ Unasked

\* Entries with the same URLs.
Same(es, es2) ==
    DOMAIN es2 = DOMAIN es /\ \A k \in DOMAIN es : es2[k].n = es[k].n

Numbers(es) == {es[k].n : k \in DOMAIN es}

LEMMA UrlNumbers ==
    ASSUME NEW q \in Queue
    PROVE  Pushed(q) \in Nat /\ Urls[q] \in Nat /\ 1..Pushed(q) \subseteq Url
  BY ProxiedRequestsAssumption DEF Pushed, Url

LEMMA UrlIsNumber == Url \subseteq Nat \ {0}
  BY UrlNumbers DEF Url

LEMMA EntriesIs ==
    ASSUME NEW q
    PROVE  Entries(q) = EntriesIn(queues, q) /\ (q \in Queues <=> Named(queues, q))
  BY DEF Entries, EntriesIn, Queues, Named

LEMMA EntriesIsNext ==
    ASSUME NEW q
    PROVE  Entries(q)' = EntriesIn(queues', q) /\ (q \in Queues' <=> Named(queues', q))
  BY DEF Entries, EntriesIn, Queues, Named

LEMMA QueueEntries ==
    ASSUME SlotInv, NEW q \in Queue
    PROVE  /\ Entries(q) \in Seq(EntryType) /\ OwnNumbers(Entries(q))
           /\ DOMAIN Entries(q) = 1..Len(Entries(q)) /\ Len(Entries(q)) \in Nat
           /\ \A k \in DOMAIN Entries(q) : /\ Entries(q)[k] \in EntryType
                                           /\ LinkedEntry(pool, q, Entries(q)[k])
           /\ Entries(q) # <<>> => Named(queues, q)
           /\ Numbers(Entries(q)) \subseteq Url
  <1>1. queues \in QueueLists /\ Linked(pool, queues)
    BY DEF SlotInv, PoolInv
  <1>2. Entries(q) \in Seq(EntryType) /\ OwnNumbers(Entries(q))
    BY <1>1, EntriesIs, EntriesOfQueue
  <1>3. \A k \in DOMAIN Entries(q) : LinkedEntry(pool, q, Entries(q)[k])
    BY <1>1, EntriesIs, LinkedByQueue
  <1>4. Entries(q) # <<>> => Named(queues, q)
    BY <1>1, EntriesIs, EntriesOfQueue
  <1>5. \A k \in DOMAIN Entries(q) : Entries(q)[k] \in EntryType
    BY <1>2
  <1>6. Numbers(Entries(q)) \subseteq Url
    BY <1>5 DEF Numbers, EntryType
  <1>7. QED
    BY <1>2, <1>3, <1>4, <1>5, <1>6

\* Managing requests leaves each queue its URLs.
LEMMA ManageKeeps ==
    ASSUME pool \in Pools, NEW qs \in QueueLists, Linked(pool, qs), Manage(qs)
    PROVE  /\ PoolInv'
           /\ \A p : Named(queues', p) <=> Named(qs, p)
           /\ \A p : Same(EntriesIn(qs, p), EntriesIn(queues', p))
  <1>1. PICK answers : /\ pool' = manage_requests(pool, qs, answers).pool
                       /\ queues' = manage_requests(pool, qs, answers).queues
    BY DEF Manage
  <1> DEFINE m == manage_requests(pool, qs, answers)
  <1>2. m \in Handled(qs)
    BY AllManaged
  <1> HIDE DEF m
  <1>3. /\ m.pool \in Pools /\ m.queues \in QueueLists
        /\ Linked(m.pool, m.queues) /\ SameUrls(qs, m.queues)
    BY <1>2 DEF Handled
  <1>4. pool' = m.pool /\ queues' = m.queues
    BY <1>1 DEF m
  <1>5. \A p : Named(m.queues, p) <=> Named(qs, p)
    BY <1>3 DEF Named, SameUrls
  <1>6. ASSUME NEW p PROVE Same(EntriesIn(qs, p), EntriesIn(m.queues, p))
    <2>1. CASE Named(qs, p)
      <3>1. PICK i \in DOMAIN qs : qs[i].name = p
        BY <2>1 DEF Named
      <3>2. i \in DOMAIN m.queues /\ m.queues[i].name = p
        BY <1>3, <3>1 DEF SameUrls
      <3>3. EntriesIn(qs, p) = qs[i].entries
        BY <3>1, EntriesOfQueue
      <3>4. EntriesIn(m.queues, p) = m.queues[i].entries
        BY <1>3, <3>2, EntriesOfQueue
      <3>5. QED
        BY <1>3, <3>1, <3>3, <3>4 DEF SameUrls, Same
    <2>2. CASE ~Named(qs, p)
      <3>1. EntriesIn(qs, p) = <<>> /\ EntriesIn(m.queues, p) = <<>>
        BY <1>3, <1>5, <2>2, EntriesOfQueue
      <3>2. QED
        BY <3>1 DEF Same
    <2>3. QED
      BY <2>1, <2>2
  <1>7. QED
    BY <1>3, <1>4, <1>5, <1>6 DEF PoolInv

\* A queue may get other entries if those that are started are linked.
LEMMA StaysLinkedWith ==
    ASSUME NEW pl, NEW qs \in QueueLists, Linked(pl, qs), NEW q \in Queue,
           NEW es \in Seq(EntryType), OwnNumbers(es),
           \A k \in DOMAIN es : LinkedEntry(pl, q, es[k])
    PROVE  With(qs, q, es) \in QueueLists /\ Linked(pl, With(qs, q, es))
  <1> DEFINE new == With(qs, q, es)
  <1>1. /\ new \in QueueLists
        /\ \A p : Named(new, p) <=> Named(qs, p)
        /\ \A p : p # q => EntriesIn(new, p) = EntriesIn(qs, p)
        /\ Named(qs, q) => EntriesIn(new, q) = es
    BY WithEntries
  <1> HIDE DEF new
  <1>2. ASSUME NEW p \in Queue, NEW k \in DOMAIN EntriesIn(new, p)
        PROVE  LinkedEntry(pl, p, EntriesIn(new, p)[k])
    <2>1. CASE p # q
      BY <1>1, <1>2, <2>1, LinkedByQueue
    <2>2. CASE p = q /\ Named(qs, q)
      BY <1>1, <1>2, <2>2
    <2>3. CASE p = q /\ ~Named(qs, q)
      <3>1. EntriesIn(new, p) = <<>>
        BY <1>1, <2>3, EntriesOfQueue
      <3>2. QED
        BY <1>2, <3>1
    <2>4. QED
      BY <2>1, <2>2, <2>3
  <1>3. Linked(pl, new)
    BY <1>1, <1>2, LinkedByQueue
  <1>4. QED
    BY <1>1, <1>3 DEF new

\* Another pool is as good if all requests still run in it.
LEMMA StaysLinkedAll ==
    ASSUME NEW pl, NEW pl2, NEW qs \in QueueLists, Linked(pl, qs),
           StillRuns(pl, pl2, Request), pl \in Pools, pl2 \in Pools
    PROVE  Linked(pl2, qs)
  <1>1. ASSUME NEW q \in Queue, NEW k \in DOMAIN EntriesIn(qs, q)
        PROVE  LinkedEntry(pl2, q, EntriesIn(qs, q)[k])
    <2> DEFINE e == EntriesIn(qs, q)[k]
    <2>1. e \in EntryType
      BY <1>1, EntriesOfQueue
    <2>2. <<q, e.n>> \in Request
      BY <2>1 DEF Request, EntryType
    <2>3. LinkedEntry(pl, q, e)
      BY <1>1, LinkedByQueue
    <2> HIDE DEF e
    <2>4. LinkedEntry(pl2, q, e)
      BY <2>2, <2>3, StaysLinked
    <2>5. QED
      BY <2>4 DEF e
  <1>2. QED
    BY <1>1, LinkedByQueue

LEMMA Refreshed ==
    ASSUME SlotInv, refresh_settings, queues' = queues
    PROVE  PoolInv' /\ settings' = configured
  <1> DEFINE healthy == [i \in DOMAIN pool |-> [pool[i] EXCEPT !.healthy = TRUE]]
  <1>1. pool \in Pools /\ queues \in QueueLists /\ Linked(pool, queues)
        /\ configured \in Settings \cup {Configured}
    BY DEF SlotInv, PoolInv, Types
  <1>2. \A i \in DOMAIN pool : pool[i] \in Pooled
    BY <1>1 DEF Pools
  <1>3. healthy \in Pools /\ StillRuns(pool, healthy, Request)
    <2>1. ASSUME NEW i \in DOMAIN pool
          PROVE  /\ healthy[i] \in Pooled /\ healthy[i].url = pool[i].url
                 /\ \A r \in Request : Runs(pool[i], r) => Runs(healthy[i], r)
      <3> DEFINE p == pool[i]
                 p2 == [p EXCEPT !.healthy = TRUE]
      <3>1. p \in Pooled /\ healthy[i] = p2
        BY <1>2
      <3>2. p2 \in PooledType /\ p2.url = p.url /\ p2.slots = p.slots
        BY <3>1 DEF Pooled, PooledType
      <3>3. \A h \in Host : Len(p2.slots[h]) <= Len(p.slots[h])
        BY <3>1, <3>2 DEF Pooled, PooledType
      <3>4. p2 \in Pooled
        BY <3>1, <3>2, <3>3, FewerSlots
      <3>5. QED
        BY <3>1, <3>2, <3>4 DEF Runs
    <2>2. DOMAIN healthy = DOMAIN pool /\ healthy = [i \in DOMAIN pool |-> healthy[i]]
      OBVIOUS
    <2> HIDE DEF healthy
    <2>3. QED
      BY <1>1, <2>1, <2>2, PoolInPlace
  <1>4. settings' = configured
        /\ (pool' = healthy \/ pool' = update_proxy_pool(healthy, configured))
    BY DEF refresh_settings
  <1> HIDE DEF healthy
  <1>5. /\ update_proxy_pool(healthy, configured) \in Pools
        /\ StillRuns(healthy, update_proxy_pool(healthy, configured), Request)
    BY <1>1, <1>3, UpdatedPool
  <1>6. pool' \in Pools /\ StillRuns(pool, pool', Request)
    BY <1>3, <1>4, <1>5 DEF StillRuns
  <1>7. Linked(pool', queues)
    BY <1>1, <1>6, StaysLinkedAll
  <1>8. QED
    BY <1>1, <1>4, <1>6, <1>7 DEF PoolInv

LEMMA SlotInit == Init => SlotInv
  <1> SUFFICES ASSUME Init PROVE SlotInv
    OBVIOUS
  <1>1. Types
    <2>1. next \in [Queue -> Nat] /\ \A q \in Queue : next[q] \in 1..Pushed(q)
      BY UrlNumbers DEF Init, Pushed
    <2>2. QED
      BY <2>1, ProxiedRequestsAssumption DEF Init, Types, Phase
  <1>2. <<>> \in Pools
    BY DEF Pools, OwnUrls
  <1>3. pool \in Pools
    BY <1>2, UpdatedPool DEF Init
  <1>4. queues \in QueueLists /\ Linked(pool, queues)
    BY DEF Init, QueueLists, OwnNames, Linked
  <1>5. Unasked
    BY DEF Init, Unasked, EntriesIn, Named
  <1>6. QED
    BY <1>1, <1>3, <1>4, <1>5 DEF SlotInv, PoolInv

-----------------------------------------------------------------------------
(* What the actions do to the pool and the queues                          *)

LEMMA MinOfTwo ==
    ASSUME NEW a \in Int, NEW b \in Int
    PROVE  Min({a, b}) = IF a <= b THEN a ELSE b
  BY DEF Min

LEMMA SameNumbers ==
    ASSUME NEW es, NEW es2, Same(es, es2)
    PROVE  Numbers(es2) = Numbers(es) /\ (Ascending(es) => Ascending(es2))
  BY DEF Same, Numbers, Ascending

\* What is left of a queue's entries, with at most their futures changed.
PartOf(es2, es) ==
    /\ es2 \in Seq(EntryType) /\ OwnNumbers(es2)
    /\ \A k \in DOMAIN es2 : \E j \in DOMAIN es :
        /\ es2[k].n = es[j].n /\ es2[k].status = es[j].status
        /\ es2[k].proxy = es[j].proxy

LEMMA FewerEntries ==
    ASSUME SlotInv, NEW q \in Queue, NEW es, PartOf(es, Entries(q)),
           pool' = pool, queues' = With(queues, q, es)
    PROVE  /\ PoolInv'
           /\ \A p : Named(queues', p) <=> Named(queues, p)
           /\ \A p : p # q => EntriesIn(queues', p) = EntriesIn(queues, p)
           /\ Named(queues, q) => EntriesIn(queues', q) = es
           /\ Numbers(EntriesIn(queues', q)) \subseteq Numbers(EntriesIn(queues, q))
  <1>1. pool \in Pools /\ queues \in QueueLists /\ Linked(pool, queues)
    BY DEF SlotInv, PoolInv
  <1>2. es \in Seq(EntryType) /\ OwnNumbers(es)
    BY DEF PartOf
  <1>3. ASSUME NEW k \in DOMAIN es PROVE LinkedEntry(pool, q, es[k])
    <2>1. PICK j \in DOMAIN Entries(q) :
              /\ es[k].n = Entries(q)[j].n /\ es[k].status = Entries(q)[j].status
              /\ es[k].proxy = Entries(q)[j].proxy
      BY DEF PartOf
    <2>2. LinkedEntry(pool, q, Entries(q)[j])
      BY QueueEntries
    <2>3. QED
      BY <2>1, <2>2 DEF LinkedEntry
  <1>4. With(queues, q, es) \in QueueLists /\ Linked(pool, With(queues, q, es))
    BY <1>1, <1>2, <1>3, StaysLinkedWith
  <1>5. PoolInv'
    BY <1>1, <1>4 DEF PoolInv
  <1>6. /\ \A p : Named(queues', p) <=> Named(queues, p)
        /\ \A p : p # q => EntriesIn(queues', p) = EntriesIn(queues, p)
        /\ Named(queues, q) => EntriesIn(queues', q) = es
    BY <1>1, <1>2, WithEntries
  <1>7. Numbers(EntriesIn(queues', q)) \subseteq Numbers(EntriesIn(queues, q))
    <2>1. CASE Named(queues, q)
      <3>1. \A k \in DOMAIN es : \E j \in DOMAIN EntriesIn(queues, q) :
                es[k].n = EntriesIn(queues, q)[j].n
        BY EntriesIs DEF PartOf
      <3>2. QED
        BY <1>6, <2>1, <3>1 DEF Numbers
    <2>2. CASE ~Named(queues, q)
      <3>1. EntriesIn(queues', q) = <<>>
        BY <1>5, <1>6, <2>2, EntriesOfQueue DEF PoolInv
      <3>2. QED
        BY <3>1 DEF Numbers
    <2>3. QED
      BY <2>1, <2>2
  <1>8. QED
    BY <1>5, <1>6, <1>7

\* New URLs are those that the processor has yet to add, at the end of its queue.
LEMMA TopUpQueue ==
    ASSUME SlotInv, NEW q \in Queue, TopUp(q)
    PROVE  /\ PoolInv'
           /\ next' = [next EXCEPT ![q] = next'[q]]
           /\ next'[q] \in Nat /\ next[q] <= next'[q] /\ next'[q] <= Pushed(q)
           /\ have_urls' = [have_urls EXCEPT ![q] = have_urls'[q]]
           /\ have_urls'[q] \in BOOLEAN
           /\ ~have_urls'[q] => next'[q] = Pushed(q)
           /\ \A p : p # q => (Named(queues', p) <=> Named(queues, p))
           /\ \A p : p # q => Same(EntriesIn(queues, p), EntriesIn(queues', p))
           /\ Numbers(EntriesIn(queues', q)) =
                Numbers(EntriesIn(queues, q)) \cup (next[q]..(next'[q] - 1))
           /\ /\ Ascending(EntriesIn(queues, q))
              /\ \A n \in Numbers(EntriesIn(queues, q)) : n < next[q]
              => Ascending(EntriesIn(queues', q))
  <1> DEFINE room == Batch - Len(Entries(q))
             last == Min({Urls[q], next[q] + room - 1})
             batch == [i \in 1..(last + 1 - next[q]) |-> Entry(next[q] + i - 1)]
             made == IF q \in Queues THEN queues
                     ELSE Append(queues, [name |-> q, entries |-> <<>>])
             old == Entries(q)
             es == old \o batch
             nx == next[q]
             l == Len(old)
             b == last + 1 - nx
  <1>1. /\ pool \in Pools /\ queues \in QueueLists /\ Linked(pool, queues)
        /\ nx \in 1..Pushed(q) /\ next \in [Queue -> Nat]
        /\ have_urls \in [Queue -> BOOLEAN]
    BY DEF SlotInv, PoolInv, Types
  <1>2. /\ old \in Seq(EntryType) /\ OwnNumbers(old)
        /\ DOMAIN old = 1..l /\ l \in Nat
        /\ \A k \in DOMAIN old : old[k] \in EntryType /\ LinkedEntry(pool, q, old[k])
    BY QueueEntries
  <1>3. room \in Int /\ room >= 1 /\ Urls[q] \in Nat /\ Pushed(q) = Urls[q] + 1
    BY <1>2, UrlNumbers, ProxiedRequestsAssumption DEF TopUp, Pushed
  <1>4. /\ Manage(With(made, q, es))
        /\ next' = [next EXCEPT ![q] = last + 1]
        /\ have_urls' = [have_urls EXCEPT ![q] = nx + room <= last + 1]
    BY DEF TopUp
  <1>5. /\ last \in Int /\ last <= Urls[q] /\ last >= nx - 1
        /\ last = Urls[q] \/ last = nx + room - 1
    <2> HIDE DEF room
    <2>1. Urls[q] \in Int /\ nx + room - 1 \in Int
      BY <1>1, <1>3
    <2>2. last = IF Urls[q] <= nx + room - 1 THEN Urls[q] ELSE nx + room - 1
      BY <2>1, MinOfTwo
    <2>3. QED
      BY <2>1, <2>2, <1>1, <1>3
  <1>6. /\ next'[q] = last + 1 /\ next' = [next EXCEPT ![q] = next'[q]]
        /\ have_urls'[q] = (nx + room <= last + 1)
        /\ have_urls' = [have_urls EXCEPT ![q] = have_urls'[q]]
    BY <1>1, <1>4
  <1>7. b \in Nat /\ last + 1 - next[q] = b
    BY <1>1, <1>5
  <1> HIDE DEF last, room
  <1>8. ~have_urls'[q] => next'[q] = Pushed(q)
    <2>1. nx + room = last + 1 => have_urls'[q]
      <3>1. ASSUME nx + room = last + 1 PROVE nx + room <= last + 1
        BY <3>1, <1>5
      <3>2. QED
        BY <3>1, <1>6
    <2>2. nx + room # last + 1 => last = Urls[q]
      BY <1>1, <1>3, <1>5
    <2>3. QED
      BY <2>1, <2>2, <1>3, <1>6
  <1>9. \A i \in 1..b : nx + i - 1 \in nx..last /\ nx + i - 1 \in Url
    BY <1>1, <1>3, <1>5, UrlNumbers
  <1>10. /\ batch \in Seq(EntryType) /\ Len(batch) = b
         /\ \A i \in 1..b : batch[i] = Entry(nx + i - 1) /\ batch[i].n = nx + i - 1
    <2>1. \A i \in 1..b : /\ batch[i] = Entry(nx + i - 1) /\ batch[i].n = nx + i - 1
                          /\ batch[i] \in EntryType
      BY <1>9, NewEntry
    <2>2. batch \in [1..b -> EntryType]
      BY <2>1
    <2> HIDE DEF batch
    <2>3. batch \in Seq(EntryType) /\ Len(batch) = b
      BY <1>7, <2>2, FunctionIsSeq
    <2>4. QED
      BY <2>1, <2>3
  <1> HIDE DEF batch, old, nx, l, b
  <1>11. /\ es \in Seq(EntryType) /\ DOMAIN es = 1..(l + b)
         /\ \A k \in 1..l : es[k] = old[k]
         /\ \A k \in 1..b : es[l + k] = batch[k]
    BY <1>2, <1>7, <1>10 DEF l
  <1>12. \A k \in (l + 1)..(l + b) :
             k - l \in 1..b /\ es[k] = batch[k - l] /\ es[k].n = nx + k - l - 1
    BY <1>1, <1>2, <1>7, <1>10, <1>11
  <1> HIDE DEF es
  <1>13. \A k \in DOMAIN es : k \in 1..l \/ k \in (l + 1)..(l + b)
    BY <1>2, <1>7, <1>11
  <1>14. \A k \in 1..l : es[k].n \in Nat /\ (es[k].n < nx \/ es[k].n = Pushed(q))
    <2>1. \A k \in 1..l : old[k].n < nx \/ old[k].n = Pushed(q)
      BY <1>2, EntriesIs DEF SlotInv, Unasked, old, nx
    <2>2. \A k \in 1..l : old[k].n \in Nat
      BY <1>2, UrlIsNumber DEF EntryType
    <2>3. QED
      BY <1>11, <2>1, <2>2
  <1>15. OwnNumbers(es)
    <2> SUFFICES ASSUME NEW j \in DOMAIN es, NEW k \in DOMAIN es, es[j].n = es[k].n
                 PROVE  j = k
      BY DEF OwnNumbers
    <2>1. CASE j \in 1..l /\ k \in 1..l
      BY <2>1, <1>2, <1>11 DEF OwnNumbers
    <2>2. CASE j \in (l + 1)..(l + b) /\ k \in (l + 1)..(l + b)
      BY <2>2, <1>1, <1>2, <1>7, <1>12
    <2>3. CASE j \in 1..l /\ k \in (l + 1)..(l + b)
      <3>1. k - l \in 1..b /\ es[k].n = nx + (k - l) - 1
        BY <2>3, <1>1, <1>2, <1>7, <1>12
      <3>3. es[k].n >= nx /\ es[k].n <= last
        BY <3>1, <1>1, <1>5, <1>9
      <3>2. QED
        BY <2>3, <3>3, <1>1, <1>3, <1>5, <1>14
    <2>4. CASE k \in 1..l /\ j \in (l + 1)..(l + b)
      <3>1. j - l \in 1..b /\ es[j].n = nx + (j - l) - 1
        BY <2>4, <1>1, <1>2, <1>7, <1>12
      <3>3. es[j].n >= nx /\ es[j].n <= last
        BY <3>1, <1>1, <1>5, <1>9
      <3>2. QED
        BY <2>4, <3>3, <1>1, <1>3, <1>5, <1>14
    <2>5. QED
      BY <1>13, <2>1, <2>2, <2>3, <2>4
  <1>16. /\ made \in QueueLists /\ Named(made, q) /\ Linked(pool, made)
         /\ \A p : p # q => (Named(made, p) <=> Named(queues, p))
         /\ \A p : EntriesIn(made, p) = EntriesIn(queues, p)
    <2>1. CASE q \in Queues
      BY <2>1, <1>1, EntriesIs
    <2>2. CASE q \notin Queues
      <3>1. ~Named(queues, q) /\ made = Append(queues, [name |-> q, entries |-> <<>>])
        BY <2>2, EntriesIs
      <3> HIDE DEF made
      <3>2. /\ made \in QueueLists /\ Named(made, q)
            /\ \A p : p # q => (Named(made, p) <=> Named(queues, p))
            /\ \A p : EntriesIn(made, p) = EntriesIn(queues, p)
        <4>1. ~Named(queues, q) /\ queues \in QueueLists
          BY <1>1, <3>1
        <4>2. made = Append(queues, NewQueueOf(q))
          BY <3>1 DEF NewQueueOf
        <4>3. QED
          BY <4>1, <4>2, NewQueue
      <3>3. Linked(pool, made)
        BY <1>1, <3>2, LinkedByQueue
      <3>4. QED
        BY <3>2, <3>3
    <2>3. QED
      BY <2>1, <2>2
  <1> HIDE DEF made
  <1>17. \A k \in DOMAIN es : LinkedEntry(pool, q, es[k])
    <2>1. \A k \in 1..l : LinkedEntry(pool, q, es[k])
      BY <1>2, <1>11
    <2>2. \A k \in (l + 1)..(l + b) : es[k].status = "queued"
      BY <1>10, <1>12 DEF Entry
    <2>3. QED
      BY <1>13, <2>1, <2>2 DEF LinkedEntry
  <1> DEFINE qs == With(made, q, es)
  <1>18. qs \in QueueLists /\ Linked(pool, qs)
    BY <1>11, <1>15, <1>16, <1>17, StaysLinkedWith
  <1>19. /\ \A p : Named(qs, p) <=> Named(made, p)
         /\ \A p : p # q => EntriesIn(qs, p) = EntriesIn(queues, p)
         /\ EntriesIn(qs, q) = es
    BY <1>11, <1>15, <1>16, WithEntries
  <1> HIDE DEF qs
  <1>20. /\ PoolInv'
         /\ \A p : Named(queues', p) <=> Named(qs, p)
         /\ \A p : Same(EntriesIn(qs, p), EntriesIn(queues', p))
    BY <1>1, <1>4, <1>18, ManageKeeps DEF qs
  <1>21. Numbers(es) = Numbers(old) \cup (nx..last)
    <2>1. ASSUME NEW n \in Numbers(es) PROVE n \in Numbers(old) \cup (nx..last)
      <3>1. PICK k \in DOMAIN es : n = es[k].n
        BY DEF Numbers
      <3>2. CASE k \in 1..l
        BY <3>1, <3>2, <1>2, <1>11 DEF Numbers
      <3>3. CASE k \in (l + 1)..(l + b)
        <4>1. n = nx + (k - l) - 1 /\ k - l \in 1..b
          BY <3>1, <3>3, <1>1, <1>2, <1>7, <1>12
        <4>2. QED
          BY <4>1, <1>9
      <3>4. QED
        BY <1>13, <3>2, <3>3
    <2>2. ASSUME NEW n \in Numbers(old) PROVE n \in Numbers(es)
      <3>1. PICK k \in 1..l : n = old[k].n
        BY <1>2 DEF Numbers
      <3>2. k \in DOMAIN es /\ es[k] = old[k]
        BY <1>2, <1>7, <1>11
      <3>3. QED
        BY <3>1, <3>2 DEF Numbers
    <2>3. ASSUME NEW n \in nx..last PROVE n \in Numbers(es)
      <3> DEFINE k == l + (n - nx + 1)
      <3>1. k \in (l + 1)..(l + b) /\ k \in DOMAIN es
        BY <1>1, <1>2, <1>5, <1>7, <1>11 DEF b
      <3>2. es[k].n = n
        BY <3>1, <1>1, <1>2, <1>5, <1>12
      <3>3. QED
        BY <3>1, <3>2 DEF Numbers
    <2>4. QED
      BY <2>1, <2>2, <2>3
  <1>22. ASSUME Ascending(old), \A n \in Numbers(old) : n < nx
         PROVE  Ascending(es)
    <2> SUFFICES ASSUME NEW j \in DOMAIN es, NEW k \in DOMAIN es, j < k
                 PROVE  es[j].n < es[k].n
      BY DEF Ascending
    <2>1. CASE j \in 1..l /\ k \in 1..l
      BY <2>1, <1>2, <1>11, <1>22 DEF Ascending
    <2>2. CASE j \in (l + 1)..(l + b) /\ k \in (l + 1)..(l + b)
      BY <2>2, <1>1, <1>2, <1>7, <1>12
    <2>3. CASE j \in 1..l /\ k \in (l + 1)..(l + b)
      <3>1. es[k].n \in Int /\ es[k].n >= nx
        BY <2>3, <1>1, <1>2, <1>7, <1>12
      <3>2. es[j].n < nx
        BY <2>3, <1>2, <1>11, <1>22 DEF Numbers
      <3>3. QED
        BY <2>3, <3>1, <3>2, <1>1, <1>14
    <2>4. CASE k \in 1..l /\ j \in (l + 1)..(l + b)
      BY <2>4, <1>2, <1>7
    <2>5. QED
      BY <1>13, <2>1, <2>2, <2>3, <2>4
  <1>23. /\ Numbers(EntriesIn(queues', q)) = Numbers(es)
         /\ Ascending(es) => Ascending(EntriesIn(queues', q))
    BY <1>19, <1>20, SameNumbers
  <1>24. old = EntriesIn(queues, q) /\ nx = next[q] /\ next'[q] - 1 = last
    BY <1>5, <1>6, EntriesIs DEF old, nx
  <1>25. /\ Numbers(EntriesIn(queues', q)) =
              Numbers(EntriesIn(queues, q)) \cup (next[q]..(next'[q] - 1))
         /\ /\ Ascending(EntriesIn(queues, q))
            /\ \A n \in Numbers(EntriesIn(queues, q)) : n < next[q]
            => Ascending(EntriesIn(queues', q))
    BY <1>21, <1>22, <1>23, <1>24
  <1>26. next'[q] \in Nat /\ next[q] <= next'[q] /\ next'[q] <= Pushed(q)
    BY <1>1, <1>3, <1>5, <1>6 DEF nx
  <1>27. have_urls'[q] \in BOOLEAN
    BY <1>6
  <1>28. /\ \A p : p # q => (Named(queues', p) <=> Named(queues, p))
         /\ \A p : p # q => Same(EntriesIn(queues, p), EntriesIn(queues', p))
    BY <1>16, <1>19, <1>20
  <1>29. QED
    BY <1>6, <1>8, <1>20, <1>25, <1>26, <1>27, <1>28

\* A queue keeps its URLs.
Kept(p) ==
    /\ Named(queues', p) <=> Named(queues, p)
    /\ Same(EntriesIn(queues, p), EntriesIn(queues', p))

LEMMA SameItself == \A es : Same(es, es)
  BY DEF Same

LEMMA AllKept == ASSUME queues' = queues PROVE \A p : Kept(p)
  BY SameItself DEF Kept

\* A URL that is added for a result comes first.
LEMMA PushQueue ==
    ASSUME SlotInv, NEW q \in Queue, Push(q)
    PROVE  /\ PoolInv' /\ \A p : p # q => Kept(p)
           /\ Named(queues', q) <=> Named(queues, q)
           /\ Numbers(EntriesIn(queues, q)) \subseteq Numbers(EntriesIn(queues', q))
           /\ Numbers(EntriesIn(queues', q)) \subseteq
                Numbers(EntriesIn(queues, q)) \cup {Pushed(q)}
  <1> DEFINE old == Entries(q)
             new == Entry(Pushed(q))
             es == <<new>> \o old
             l == Len(old)
             qs == With(queues, q, es)
  <1>1. pool \in Pools /\ queues \in QueueLists /\ Linked(pool, queues)
    BY DEF SlotInv, PoolInv
  <1>2. /\ old \in Seq(EntryType) /\ OwnNumbers(old)
        /\ DOMAIN old = 1..l /\ l \in Nat
        /\ \A k \in DOMAIN old : old[k] \in EntryType /\ LinkedEntry(pool, q, old[k])
    BY QueueEntries
  <1>3. new \in EntryType /\ new.n = Pushed(q) /\ new.status = "queued"
    <2>1. Pushed(q) \in Url
      BY UrlNumbers DEF Pushed
    <2>2. QED
      BY <2>1, NewEntry DEF Entry
  <1>4. /\ Manage(qs)
        /\ \A k \in DOMAIN old : old[k].n # Pushed(q)
    <2>1. Manage(qs) /\ Pushed(q) \notin {e.n : e \in ToSet(old)}
      BY DEF Push
    <2>2. QED
      BY <2>1 DEF ToSet
  <1> HIDE DEF old, new, l
  <1>5. /\ es \in Seq(EntryType) /\ DOMAIN es = 1..(l + 1) /\ es[1] = new
        /\ \A k \in 2..(l + 1) : k - 1 \in DOMAIN old /\ es[k] = old[k - 1]
    BY <1>2, <1>3 DEF l
  <1>6. \A k \in DOMAIN es : k = 1 \/ k \in 2..(l + 1)
    BY <1>2, <1>5
  <1> HIDE DEF es
  <1>7. OwnNumbers(es)
    <2> SUFFICES ASSUME NEW j \in DOMAIN es, NEW k \in DOMAIN es, es[j].n = es[k].n
                 PROVE  j = k
      BY DEF OwnNumbers
    <2>1. CASE j \in 2..(l + 1) /\ k \in 2..(l + 1)
      <3>1. j - 1 = k - 1
        BY <2>1, <1>2, <1>5 DEF OwnNumbers
      <3>2. QED
        BY <2>1, <3>1, <1>2
    <2>2. CASE j = 1 \/ k = 1
      BY <2>2, <1>3, <1>4, <1>5, <1>6
    <2>3. QED
      BY <1>6, <2>1, <2>2
  <1>8. \A k \in DOMAIN es : LinkedEntry(pool, q, es[k])
    BY <1>2, <1>3, <1>5, <1>6 DEF LinkedEntry
  <1>9. qs \in QueueLists /\ Linked(pool, qs)
    BY <1>1, <1>5, <1>7, <1>8, StaysLinkedWith
  <1>10. /\ \A p : Named(qs, p) <=> Named(queues, p)
         /\ \A p : p # q => EntriesIn(qs, p) = EntriesIn(queues, p)
         /\ Named(queues, q) => EntriesIn(qs, q) = es
    BY <1>1, <1>5, <1>7, WithEntries
  <1> HIDE DEF qs
  <1>11. /\ PoolInv'
         /\ \A p : Named(queues', p) <=> Named(qs, p)
         /\ \A p : Same(EntriesIn(qs, p), EntriesIn(queues', p))
    BY <1>1, <1>4, <1>9, ManageKeeps
  <1>12. Numbers(EntriesIn(queues', q)) = Numbers(EntriesIn(qs, q))
    BY <1>11, SameNumbers
  <1>13. Numbers(old) \subseteq Numbers(es) /\ Numbers(es) \subseteq Numbers(old) \cup {Pushed(q)}
    <2>1. ASSUME NEW n \in Numbers(old) PROVE n \in Numbers(es)
      <3>1. PICK k \in 1..l : n = old[k].n
        BY <1>2 DEF Numbers
      <3>2. k + 1 \in 2..(l + 1) /\ k + 1 \in DOMAIN es /\ (k + 1) - 1 = k
        BY <1>2, <1>5
      <3>3. es[k + 1] = old[k]
        BY <3>2, <1>5
      <3>4. QED
        BY <3>1, <3>2, <3>3 DEF Numbers
    <2>2. ASSUME NEW n \in Numbers(es) PROVE n \in Numbers(old) \cup {Pushed(q)}
      BY <1>3, <1>5, <1>6 DEF Numbers
    <2>3. QED
      BY <2>1, <2>2
  <1>14. EntriesIn(queues, q) = old
    BY EntriesIs DEF old
  <1>15. /\ Numbers(old) \subseteq Numbers(EntriesIn(qs, q))
         /\ Numbers(EntriesIn(qs, q)) \subseteq Numbers(old) \cup {Pushed(q)}
    <2>1. CASE Named(queues, q)
      BY <1>10, <1>13, <2>1
    <2>2. CASE ~Named(queues, q)
      <3>1. EntriesIn(qs, q) = <<>> /\ old = <<>>
        BY <1>1, <1>9, <1>10, <1>14, <2>2, EntriesOfQueue
      <3>2. QED
        BY <3>1 DEF Numbers
    <2>3. QED
      BY <2>1, <2>2
  <1>16. \A p : p # q => Kept(p)
    BY <1>10, <1>11 DEF Kept
  <1>17. QED
    BY <1>10, <1>11, <1>12, <1>14, <1>15, <1>16

\* What is left when a processor takes some of its URLs out of its queue.
LEMMA WithoutQueue ==
    ASSUME SlotInv, NEW q \in Queue, NEW ns,
           pool' = pool, queues' = With(queues, q, Without(q, ns))
    PROVE  /\ PoolInv' /\ \A p : p # q => Kept(p)
           /\ Named(queues', q) <=> Named(queues, q)
           /\ Numbers(EntriesIn(queues', q)) = Numbers(EntriesIn(queues, q)) \ ns
           /\ Ascending(EntriesIn(queues, q)) => Ascending(EntriesIn(queues', q))
  <1> DEFINE old == Entries(q)
             I == {i \in DOMAIN old : old[i].n \notin ns}
             es == Only(old, I)
  <1>1. old \in Seq(EntryType) /\ OwnNumbers(old) /\ old = EntriesIn(queues, q)
    BY QueueEntries, EntriesIs
  <1>2. queues' = With(queues, q, es)
    BY DEF Without
  <1>3. I \cap DOMAIN old = I
    OBVIOUS
  <1> HIDE DEF old, I
  <1>4. /\ es \in Seq(EntryType) /\ OwnNumbers(es)
        /\ Ascending(old) => Ascending(es)
        /\ \A k \in DOMAIN es : \E i \in I : es[k] = old[i]
        /\ \A i \in I : \E k \in DOMAIN es : es[k] = old[i]
    BY <1>1, <1>3, EntriesOnly
  <1> HIDE DEF es
  <1>5. PartOf(es, old)
    BY <1>3, <1>4 DEF PartOf
  <1>6. /\ PoolInv'
        /\ \A p : Named(queues', p) <=> Named(queues, p)
        /\ \A p : p # q => EntriesIn(queues', p) = EntriesIn(queues, p)
        /\ Named(queues, q) => EntriesIn(queues', q) = es
    <2>1. PartOf(es, Entries(q))
      BY <1>5 DEF old
    <2>2. QED
      BY <1>2, <2>1, FewerEntries
  <1>7. \A p : p # q => Kept(p)
    BY <1>6, SameItself DEF Kept
  <1>8. Numbers(es) = Numbers(old) \ ns
    <2>1. \A i \in DOMAIN old : i \in I <=> old[i].n \notin ns
      BY DEF I
    <2>2. QED
      BY <1>3, <1>4, <2>1 DEF Numbers
  <1>9. CASE Named(queues, q)
    BY <1>1, <1>4, <1>6, <1>7, <1>8, <1>9
  <1>10. CASE ~Named(queues, q)
    <2>1. old = <<>> /\ EntriesIn(queues', q) = <<>>
      BY <1>1, <1>6, <1>10, EntriesOfQueue DEF SlotInv, PoolInv
    <2>2. Numbers(old) = {} /\ Ascending(<<>>)
      BY <2>1 DEF Numbers, Ascending
    <2>3. QED
      BY <1>1, <1>6, <1>7, <2>1, <2>2
  <1>11. QED
    BY <1>9, <1>10

\* The next result is one of a URL in the queue, for a processor that wants
\* them in order the first that it has yet to look at.
Yielded(q, urls, i) ==
    /\ i = 1 \/ q \notin Ordered
    /\ urls[i] \in Numbers(EntriesIn(queues, q))
    /\ todo' = [todo EXCEPT ![q] = SubSeq(urls, i + 1, Len(urls))]
    /\ lock' = q /\ Goto(q, "working")
    /\ delivered' = [delivered EXCEPT ![q] = Append(@, urls[i])]
    /\ Numbers(EntriesIn(queues', q)) = Numbers(EntriesIn(queues, q)) \ {urls[i]}
    /\ Ascending(EntriesIn(queues, q)) => Ascending(EntriesIn(queues', q))

NoneYielded(q) ==
    /\ todo' = [todo EXCEPT ![q] = <<>>] /\ lock' = Nothing /\ Goto(q, "looping")
    /\ delivered' = delivered /\ Kept(q)

LEMMA YieldQueue ==
    ASSUME SlotInv, NEW q \in Queue, NEW urls \in Seq(Url), YieldNext(q, urls),
           pool' = pool
    PROVE  /\ PoolInv' /\ \A p : p # q => Kept(p)
           /\ Named(queues', q) <=> Named(queues, q)
           /\ NoneYielded(q) \/ \E i \in DOMAIN urls : Yielded(q, urls, i)
  <1> DEFINE S == {j \in 1..Len(urls) : urls[j] \in Waiting(q)}
             i == IF S # {} THEN Min(S) ELSE 0
  <1>1. /\ pool \in Pools /\ queues \in QueueLists /\ Linked(pool, queues)
        /\ lock \in Queue \cup {Nothing}
    BY DEF SlotInv, PoolInv, Types
  <1>2. i = IF S # {} THEN Min(S) ELSE 0
    OBVIOUS
  <1>3. S \subseteq 1..Len(urls) /\ Len(urls) \in Nat
    OBVIOUS
  <1>4. \/ /\ ~InTurn(q, i)
           /\ todo' = [todo EXCEPT ![q] = <<>>] /\ lock' = Nothing
           /\ Goto(q, "looping") /\ queues' = queues /\ delivered' = delivered
        \/ /\ InTurn(q, i)
           /\ todo' = [todo EXCEPT ![q] = SubSeq(urls, i + 1, Len(urls))]
           /\ lock' = q /\ Goto(q, "working")
           /\ queues' = With(queues, q, Without(q, {urls[i]}))
           /\ delivered' = [delivered EXCEPT ![q] = Append(@, urls[i])]
    BY DEF YieldNext, SelectInSeq
  <1> HIDE DEF i
  <1>5. i \in 0..Len(urls) /\ (i # 0 => i \in S)
    <2> HIDE DEF S
    <2>1. QED
      BY <1>2, <1>3, FirstExists
  <1>6. CASE queues' = queues /\ ~InTurn(q, i) /\ delivered' = delivered
             /\ todo' = [todo EXCEPT ![q] = <<>>] /\ lock' = Nothing
             /\ Goto(q, "looping")
    <2>1. PoolInv'
      BY <1>1, <1>6 DEF PoolInv
    <2>2. \A p : Kept(p)
      BY <1>6, AllKept
    <2>3. QED
      BY <1>6, <2>1, <2>2 DEF NoneYielded, Kept
  <1>7. CASE /\ InTurn(q, i)
             /\ todo' = [todo EXCEPT ![q] = SubSeq(urls, i + 1, Len(urls))]
             /\ lock' = q /\ Goto(q, "working")
             /\ queues' = With(queues, q, Without(q, {urls[i]}))
             /\ delivered' = [delivered EXCEPT ![q] = Append(@, urls[i])]
    <2>1. i \in S /\ i \in DOMAIN urls /\ (i = 1 \/ q \notin Ordered)
      BY <1>3, <1>5, <1>7 DEF InTurn
    <2>2. urls[i] \in Numbers(EntriesIn(queues, q))
      <3>1. urls[i] \in Waiting(q)
        BY <2>1
      <3>2. QED
        BY <3>1, EntriesIs DEF Waiting, ToSet, Numbers
    <2>3. /\ PoolInv' /\ \A p : p # q => Kept(p)
          /\ Named(queues', q) <=> Named(queues, q)
          /\ Numbers(EntriesIn(queues', q)) = Numbers(EntriesIn(queues, q)) \ {urls[i]}
          /\ Ascending(EntriesIn(queues, q)) => Ascending(EntriesIn(queues', q))
      BY <1>7, WithoutQueue
    <2>4. Yielded(q, urls, i)
      BY <1>7, <2>1, <2>2, <2>3 DEF Yielded
    <2>5. QED
      BY <2>1, <2>3, <2>4
  <1>8. QED
    BY <1>4, <1>6, <1>7

\* What has been started is what is left, some of it cancelled.
LEMMA HaltQueue ==
    ASSUME SlotInv, NEW q \in Queue, Halt(q)
    PROVE  /\ PoolInv' /\ \A p : p # q => Kept(p)
           /\ Numbers(EntriesIn(queues', q)) \subseteq Numbers(EntriesIn(queues, q))
           /\ Ascending(EntriesIn(queues, q)) => Ascending(EntriesIn(queues', q))
           /\ Named(queues', q) <=> Named(queues, q)
  <1> DEFINE old == Entries(q)
             I == {i \in DOMAIN old : old[i].status = "started"}
             rest == Only(old, I)
  <1>1. old \in Seq(EntryType) /\ OwnNumbers(old) /\ old = EntriesIn(queues, q)
    BY QueueEntries, EntriesIs
  <1>2. \E cancelled : queues' = With(queues, q,
            [i \in DOMAIN rest |-> IF rest[i].n \in cancelled
                                   THEN [rest[i] EXCEPT !.future = "returned"]
                                   ELSE rest[i]])
    BY DEF Halt
  <1>3. PICK cancelled : queues' = With(queues, q,
            [i \in DOMAIN rest |-> IF rest[i].n \in cancelled
                                   THEN [rest[i] EXCEPT !.future = "returned"]
                                   ELSE rest[i]])
    BY <1>2
  <1> HIDE DEF old, I
  <1>4. /\ rest \in Seq(EntryType) /\ OwnNumbers(rest)
        /\ Ascending(old) => Ascending(rest)
        /\ \A k \in DOMAIN rest : \E i \in DOMAIN old : rest[k] = old[i]
    BY <1>1, EntriesOnly
  <1> HIDE DEF rest
  <1> DEFINE es == [i \in DOMAIN rest |-> IF rest[i].n \in cancelled
                                          THEN [rest[i] EXCEPT !.future = "returned"]
                                          ELSE rest[i]]
  <1>5. DOMAIN rest = 1..Len(rest) /\ Len(rest) \in Nat
    BY <1>4
  <1>6. ASSUME NEW k \in DOMAIN rest
        PROVE  /\ es[k] \in EntryType /\ es[k].n = rest[k].n
               /\ es[k].status = rest[k].status /\ es[k].proxy = rest[k].proxy
    <2> DEFINE e == rest[k]
               e2 == [e EXCEPT !.future = "returned"]
    <2>1. e \in EntryType /\ (es[k] = e \/ es[k] = e2)
      BY <1>4
    <2> HIDE DEF e
    <2>2. e2 \in EntryType /\ e2.n = e.n /\ e2.status = e.status /\ e2.proxy = e.proxy
      BY <2>1 DEF EntryType
    <2>3. QED
      BY <2>1, <2>2 DEF e
  <1>7. DOMAIN es = DOMAIN rest /\ queues' = With(queues, q, es)
    BY <1>3
  <1>8. es \in [1..Len(rest) -> EntryType]
    BY <1>5, <1>6
  <1> HIDE DEF es
  <1>9. es \in Seq(EntryType)
    BY <1>5, <1>8, FunctionIsSeq
  <1>10. PartOf(es, old) /\ (Ascending(old) => Ascending(es))
    BY <1>4, <1>6, <1>7, <1>9 DEF PartOf, OwnNumbers, Ascending
  <1>11. /\ PoolInv'
         /\ \A p : Named(queues', p) <=> Named(queues, p)
         /\ \A p : p # q => EntriesIn(queues', p) = EntriesIn(queues, p)
         /\ Named(queues, q) => EntriesIn(queues', q) = es
         /\ Numbers(EntriesIn(queues', q)) \subseteq Numbers(EntriesIn(queues, q))
    <2>1. PartOf(es, Entries(q)) /\ pool' = pool
      BY <1>10 DEF old, Halt
    <2>2. QED
      BY <1>7, <2>1, FewerEntries
  <1>12. \A p : p # q => Kept(p)
    BY <1>11, SameItself DEF Kept
  <1>13. Ascending(EntriesIn(queues, q)) => Ascending(EntriesIn(queues', q))
    <2>1. CASE Named(queues, q)
      BY <1>1, <1>10, <1>11, <2>1
    <2>2. CASE ~Named(queues, q)
      <3>1. EntriesIn(queues', q) = <<>>
        BY <1>11, <2>2, EntriesOfQueue DEF PoolInv
      <3>2. QED
        BY <3>1 DEF Ascending
    <2>3. QED
      BY <2>1, <2>2
  <1>14. QED
    BY <1>11, <1>12, <1>13

\* A request that ends leaves its slot and its URL as they are.
LEMMA RequestEndsQueue ==
    ASSUME SlotInv, NEW q \in Queue, RequestEnds(q)
    PROVE  PoolInv' /\ \A p : Kept(p)
  <1> DEFINE old == Entries(q)
  <1>1. /\ old \in Seq(EntryType) /\ OwnNumbers(old) /\ old = EntriesIn(queues, q)
        /\ old # <<>> => Named(queues, q)
    BY QueueEntries, EntriesIs
  <1>2. PICK i \in DOMAIN old, how \in {"returned", "proxy"} :
            queues' = With(queues, q, [old EXCEPT ![i].future = how])
    BY DEF RequestEnds
  <1> DEFINE e == [old[i] EXCEPT !.future = how]
             es == [old EXCEPT ![i] = e]
  <1>3. queues' = With(queues, q, es) /\ pool' = pool
    BY <1>2 DEF RequestEnds
  <1> HIDE DEF old
  <1>4. DOMAIN old = 1..Len(old) /\ Len(old) \in Nat /\ old[i] \in EntryType
    BY <1>1
  <1>5. /\ e \in EntryType /\ e.n = old[i].n
        /\ e.status = old[i].status /\ e.proxy = old[i].proxy
    BY <1>4 DEF EntryType
  <1> HIDE DEF e
  <1>6. /\ DOMAIN es = DOMAIN old /\ es \in Seq(EntryType)
        /\ \A k \in DOMAIN old : es[k] = IF k = i THEN e ELSE old[k]
    BY <1>1, <1>4, <1>5
  <1> HIDE DEF es
  <1>7. /\ PartOf(es, old) /\ Same(old, es)
    BY <1>1, <1>5, <1>6 DEF PartOf, Same, OwnNumbers
  <1>8. /\ PoolInv'
        /\ \A p : Named(queues', p) <=> Named(queues, p)
        /\ \A p : p # q => EntriesIn(queues', p) = EntriesIn(queues, p)
        /\ Named(queues, q) => EntriesIn(queues', q) = es
    <2>1. PartOf(es, Entries(q))
      BY <1>7 DEF old
    <2>2. QED
      BY <1>3, <2>1, FewerEntries
  <1>9. Named(queues, q)
    BY <1>1, <1>4
  <1>10. QED
    BY <1>1, <1>7, <1>8, <1>9, SameItself DEF Kept

\* A slot that has cooled off is still taken.
LEMMA CoolOffPool ==
    ASSUME SlotInv, CoolOff
    PROVE  PoolInv' /\ \A p : Kept(p)
  <1>1. pool \in Pools /\ queues \in QueueLists /\ Linked(pool, queues)
    BY DEF SlotInv, PoolInv
  <1>2. PICK i \in DOMAIN pool, h \in Host : \E s \in DOMAIN pool[i].slots[h] :
            /\ pool[i].slots[h][s].state = "cooling"
            /\ pool' = [pool EXCEPT ![i].slots[h][s].state = "cooled"]
    BY DEF CoolOff
  <1>3. PICK s \in DOMAIN pool[i].slots[h] :
            /\ pool[i].slots[h][s].state = "cooling"
            /\ pool' = [pool EXCEPT ![i].slots[h][s].state = "cooled"]
    BY <1>2
  <1> DEFINE p == pool[i]
             slot == [p.slots[h][s] EXCEPT !.state = "cooled"]
             list == [p.slots[h] EXCEPT ![s] = slot]
             p2 == [p EXCEPT !.slots = [p.slots EXCEPT ![h] = list]]
             pl == [pool EXCEPT ![i] = p2]
  <1>4. pool' = pl /\ p.slots[h][s].state = "cooling"
    BY <1>3
  <1>5. p \in Pooled /\ p \in PooledType /\ p.slots \in [Host -> Seq(Slot)]
        /\ p.slots[h] \in Seq(Slot) /\ p.slots[h][s] \in Slot
    BY <1>1 DEF Pools, Pooled, PooledType
  <1> HIDE DEF p
  <1>6. slot \in Slot
    BY <1>5 DEF Slot
  <1> HIDE DEF slot
  <1>7. /\ list \in Seq(Slot) /\ Len(list) = Len(p.slots[h])
        /\ DOMAIN list = DOMAIN p.slots[h]
        /\ \A k \in DOMAIN list : k # s => list[k] = p.slots[h][k]
    <2> DEFINE slots == p.slots[h]
    <2>1. slots \in Seq(Slot) /\ DOMAIN slots = 1..Len(slots) /\ Len(slots) \in Nat
      BY <1>5
    <2>2. list = [slots EXCEPT ![s] = slot]
      OBVIOUS
    <2> HIDE DEF slots, list
    <2>3. /\ DOMAIN list = DOMAIN slots
          /\ \A k \in DOMAIN slots : list[k] = IF k = s THEN slot ELSE slots[k]
      BY <2>1, <2>2
    <2>4. list \in [1..Len(slots) -> Slot]
      <3>1. \A k \in 1..Len(slots) : list[k] \in Slot
        BY <1>6, <2>1, <2>3
      <3>2. list = [k \in 1..Len(slots) |-> list[k]]
        BY <2>1, <2>2
      <3>3. QED
        BY <3>1, <3>2
    <2>5. list \in Seq(Slot) /\ Len(list) = Len(slots)
      BY <2>1, <2>4, FunctionIsSeq
    <2>6. QED
      BY <2>3, <2>5 DEF slots
  <1> HIDE DEF list
  <1>8. /\ p2 \in PooledType /\ p2.url = p.url
        /\ p2.slots[h] = list /\ \A g \in Host : g # h => p2.slots[g] = p.slots[g]
    BY <1>5, <1>7 DEF PooledType
  <1>9. \A g \in Host : Len(p2.slots[g]) <= Len(p.slots[g])
    BY <1>5, <1>7, <1>8
  <1> HIDE DEF p2
  <1>10. p2 \in Pooled
    BY <1>5, <1>8, <1>9, FewerSlots
  <1>11. ASSUME NEW r \in Request, Runs(p, r) PROVE Runs(p2, r)
    <2>1. PICK k \in DOMAIN p.slots[HostOf[r]] :
              p.slots[HostOf[r]][k] = [of |-> r, state |-> "running"]
      BY <1>11 DEF Runs
    <2>2. HostOf[r] \in Host
      BY ProxiedRequestsAssumption DEF Request
    <2>3. k # s \/ HostOf[r] # h
      BY <1>4, <2>1
    <2>4. k \in DOMAIN p2.slots[HostOf[r]] /\ p2.slots[HostOf[r]][k] = p.slots[HostOf[r]][k]
      BY <1>7, <1>8, <2>1, <2>2, <2>3
    <2>5. QED
      BY <2>1, <2>4 DEF Runs
  <1>12. /\ DOMAIN pl = DOMAIN pool /\ pl = [k \in DOMAIN pool |-> pl[k]]
         /\ \A k \in DOMAIN pool : pl[k] = IF k = i THEN p2 ELSE pool[k]
    BY DEF Pools
  <1> HIDE DEF pl
  <1>13. \A k \in DOMAIN pool :
            /\ pl[k] \in Pooled /\ pl[k].url = pool[k].url
            /\ \A r \in Request : Runs(pool[k], r) => Runs(pl[k], r)
    BY <1>1, <1>8, <1>10, <1>11, <1>12 DEF p, Pools
  <1>14. pl \in Pools /\ StillRuns(pool, pl, Request)
    BY <1>1, <1>12, <1>13, PoolInPlace
  <1>15. queues' = queues
    BY DEF CoolOff
  <1>16. Linked(pl, queues)
    BY <1>1, <1>14, StaysLinkedAll
  <1>17. QED
    BY <1>1, <1>4, <1>14, <1>15, <1>16, AllKept DEF PoolInv

-----------------------------------------------------------------------------
(* SlotInv is inductive                                                    *)

\* The URLs of a queue are ones that it had or that its processor has added.
Known(p) ==
    Numbers(EntriesIn(queues', p)) \subseteq
        Numbers(EntriesIn(queues, p)) \cup {n \in Nat : n < next'[p]} \cup {Pushed(p)}

LEMMA KeptNumbers ==
    ASSUME NEW p, Kept(p)
    PROVE  /\ Numbers(EntriesIn(queues', p)) = Numbers(EntriesIn(queues, p))
           /\ Ascending(EntriesIn(queues, p)) => Ascending(EntriesIn(queues', p))
           /\ Named(queues', p) <=> Named(queues, p)
           /\ Known(p)
  BY SameNumbers DEF Kept, Known

LEMMA UnaskedStep ==
    ASSUME SlotInv, \A p \in Queue : Known(p),
           \A p \in Queue : next'[p] \in Nat /\ next[p] <= next'[p]
    PROVE  Unasked'
  <1> SUFFICES ASSUME NEW p \in Queue, NEW k \in DOMAIN EntriesIn(queues', p),
                      EntriesIn(queues', p)[k].n # Pushed(p)
               PROVE  EntriesIn(queues', p)[k].n < next'[p]
    BY DEF Unasked
  <1> DEFINE n == EntriesIn(queues', p)[k].n
  <1>1. n \in Numbers(EntriesIn(queues', p))
    BY DEF Numbers
  <1>2. n \in Numbers(EntriesIn(queues, p)) \/ n < next'[p]
    BY <1>1 DEF Known
  <1>3. ASSUME n \in Numbers(EntriesIn(queues, p)) PROVE n < next'[p]
    <2>1. n \in Nat
      BY <1>3, QueueEntries, EntriesIs, UrlIsNumber
    <2>2. n < next[p]
      BY <1>3 DEF SlotInv, Unasked, Numbers
    <2>3. next[p] \in Nat /\ next'[p] \in Nat /\ next[p] <= next'[p]
      BY DEF SlotInv, Types
    <2>4. QED
      BY <2>1, <2>2, <2>3
  <1>4. QED
    BY <1>2, <1>3

\* What a step of one processor has to show.
LEMMA SlotStepOf ==
    ASSUME SlotInv, NEW q \in Queue, Types', PoolInv', \A p : p # q => Kept(p),
           Known(q), \A p \in Queue : next[p] <= next'[p]
    PROVE  SlotInv'
  <1>1. \A p \in Queue : Known(p)
    BY KeptNumbers
  <1>2. \A p \in Queue : next'[p] \in Nat
    BY DEF Types
  <1>3. QED
    BY <1>1, <1>2, UnaskedStep DEF SlotInv

LEMMA NextSame ==
    ASSUME SlotInv, next' = next PROVE \A p \in Queue : next[p] <= next'[p]
  BY DEF SlotInv, Types

\* The URLs that get_results() looks at.
LEMMA EntryUrls ==
    ASSUME SlotInv, NEW q \in Queue
    PROVE  [i \in DOMAIN Entries(q) |-> Entries(q)[i].n] \in Seq(Url)
  <1> DEFINE es == Entries(q)
             urls == [i \in DOMAIN es |-> es[i].n]
  <1>1. DOMAIN es = 1..Len(es) /\ Len(es) \in Nat /\ \A k \in DOMAIN es : es[k].n \in Url
    BY QueueEntries DEF EntryType
  <1> HIDE DEF es
  <1>2. urls \in [1..Len(es) -> Url]
    BY <1>1
  <1> HIDE DEF urls
  <1>3. urls \in Seq(Url)
    BY <1>1, <1>2, FunctionIsSeq
  <1>4. QED
    BY <1>3 DEF urls, es

LEMMA YieldSlots ==
    ASSUME SlotInv, NEW q \in Queue, NEW urls \in Seq(Url), YieldNext(q, urls),
           UNCHANGED <<settings, pool, next, have_urls, env>>
    PROVE  SlotInv'
  <1>1. /\ PoolInv' /\ \A p : p # q => Kept(p)
        /\ NoneYielded(q) \/ \E i \in DOMAIN urls : Yielded(q, urls, i)
    BY YieldQueue
  <1>2. CASE NoneYielded(q)
    <2>1. Types'
      BY <1>2 DEF SlotInv, Types, NoneYielded, Goto, Phase, env
    <2>2. Known(q)
      BY <1>2, KeptNumbers DEF NoneYielded
    <2>3. QED
      BY <1>1, <2>1, <2>2, NextSame, SlotStepOf
  <1>3. CASE \E i \in DOMAIN urls : Yielded(q, urls, i)
    <2>1. PICK i \in DOMAIN urls : Yielded(q, urls, i)
      BY <1>3
    <2>2. SubSeq(urls, i + 1, Len(urls)) \in Seq(Url) /\ urls[i] \in Url
      OBVIOUS
    <2>3. Append(delivered[q], urls[i]) \in Seq(Url)
      BY <2>2 DEF SlotInv, Types
    <2>4. Types'
      BY <2>1, <2>2, <2>3 DEF SlotInv, Types, Yielded, Goto, Phase, env
    <2>5. Known(q)
      BY <2>1 DEF Yielded, Known
    <2>6. QED
      BY <1>1, <2>4, <2>5, NextSame, SlotStepOf
  <1>4. QED
    BY <1>1, <1>2, <1>3

LEMMA SlotStep == SlotInv /\ [Next]_vars => SlotInv'
  <1> SUFFICES ASSUME SlotInv, [Next]_vars PROVE SlotInv'
    OBVIOUS
  <1>1. /\ pool \in Pools /\ queues \in QueueLists /\ Linked(pool, queues)
        /\ Types
    BY DEF SlotInv, PoolInv
  <1>2. ASSUME NEW q \in Queue, Begin(q) PROVE SlotInv'
    <2>1. PoolInv' /\ settings' = configured
      BY <1>2, Refreshed DEF Begin
    <2>2. Types'
      BY <1>1, <1>2, <2>1 DEF Begin, Types, Goto, Phase, env
    <2>3. (\A p : Kept(p)) /\ next' = next
      BY <1>2, AllKept DEF Begin
    <2>4. QED
      BY <2>1, <2>2, <2>3, KeptNumbers, NextSame, SlotStepOf
  <1>3. ASSUME NEW q \in Queue, TopUp(q) PROVE SlotInv'
    <2>1. /\ PoolInv' /\ \A p : p # q => Kept(p)
          /\ next' = [next EXCEPT ![q] = next'[q]]
          /\ next'[q] \in Nat /\ next[q] <= next'[q] /\ next'[q] <= Pushed(q)
          /\ have_urls' = [have_urls EXCEPT ![q] = have_urls'[q]]
          /\ have_urls'[q] \in BOOLEAN
          /\ Numbers(EntriesIn(queues', q)) =
                Numbers(EntriesIn(queues, q)) \cup (next[q]..(next'[q] - 1))
      BY <1>3, TopUpQueue DEF Kept
    <2>2. next \in [Queue -> Nat] /\ \A p \in Queue : next[p] \in 1..Pushed(p)
      BY <1>1 DEF Types
    <2>3. /\ next' \in [Queue -> Nat]
          /\ \A p \in Queue : next'[p] = IF p = q THEN next'[q] ELSE next[p]
      <3> DEFINE to == next'[q]
      <3>1. next' = [next EXCEPT ![q] = to] /\ to \in Nat
        BY <2>1
      <3> HIDE DEF to
      <3>2. /\ next' \in [Queue -> Nat] /\ next'[q] = to
            /\ \A p \in Queue : next'[p] = IF p = q THEN to ELSE next[p]
        BY <2>2, <3>1
      <3>3. QED
        BY <3>2
    <2>4. \A p \in Queue : next'[p] \in 1..Pushed(p) /\ next[p] <= next'[p]
      BY <2>1, <2>2, <2>3, UrlNumbers
    <2>5. have_urls' \in [Queue -> BOOLEAN]
      <3> DEFINE to == have_urls'[q]
      <3>1. have_urls' = [have_urls EXCEPT ![q] = to] /\ to \in BOOLEAN
        BY <2>1
      <3> HIDE DEF to
      <3>2. QED
        BY <1>1, <3>1 DEF Types
    <2>6. Types'
      BY <1>1, <1>3, <2>3, <2>4, <2>5 DEF TopUp, Types, Goto, Phase, env
    <2>7. Known(q)
      BY <2>1, <2>2 DEF Known
    <2>8. QED
      BY <2>1, <2>4, <2>6, <2>7, SlotStepOf
  <1>4. ASSUME NEW q \in Queue, Complete(q) \/ Enough(q) PROVE SlotInv'
    <2>1. UNCHANGED <<pool, settings, queues, next, have_urls, delivered, env>>
      BY <1>4 DEF Complete, Enough, handler
    <2>2. PoolInv'
      BY <2>1 DEF SlotInv, PoolInv
    <2>3. Types'
      <3>1. \E p \in Phase : phase' = [phase EXCEPT ![q] = p]
        BY <1>4 DEF Complete, Enough, Goto, Phase
      <3>2. phase' \in [Queue -> Phase]
        BY <1>1, <3>1 DEF Types
      <3>3. lock' \in {lock, Nothing} /\ (todo' = todo \/ todo' = [todo EXCEPT ![q] = <<>>])
        BY <1>4 DEF Complete, Enough
      <3>4. todo' \in [Queue -> Seq(Url)]
        <4>1. todo \in [Queue -> Seq(Url)] /\ <<>> \in Seq(Url)
          BY <1>1 DEF Types
        <4>2. CASE todo' = [todo EXCEPT ![q] = <<>>]
          BY <4>1, <4>2
        <4>3. QED
          BY <3>3, <4>1, <4>2
      <3>5. QED
        BY <1>1, <2>1, <3>2, <3>3, <3>4 DEF Types, env
    <2>4. \A p : Kept(p)
      BY <2>1, AllKept
    <2>5. QED
      BY <2>1, <2>2, <2>3, <2>4, KeptNumbers, NextSame, SlotStepOf
  <1>5. ASSUME NEW q \in Queue, Asking(q) PROVE SlotInv'
    <2>1. Manage(queues) /\ next' = next
      BY <1>5 DEF Asking
    <2>2. PoolInv' /\ \A p : Kept(p)
      BY <1>1, <2>1, ManageKeeps DEF Kept
    <2>3. Types'
      BY <1>1, <1>5 DEF Asking, Types, Goto, Phase, env
    <2>4. QED
      BY <2>1, <2>2, <2>3, KeptNumbers, NextSame, SlotStepOf
  <1>6. ASSUME NEW q \in Queue, Results(q) PROVE SlotInv'
    BY <1>6, EntryUrls, YieldSlots DEF Results
  <1>7. ASSUME NEW q \in Queue, Continue(q) PROVE SlotInv'
    <2>1. todo[q] \in Seq(Url)
      BY <1>1 DEF Types
    <2>2. QED
      BY <1>7, <2>1, YieldSlots DEF Continue
  <1>8. ASSUME NEW q \in Queue, Push(q) PROVE SlotInv'
    <2>1. PoolInv' /\ (\A p : p # q => Kept(p)) /\ Known(q)
      BY <1>8, PushQueue DEF Known
    <2>2. Types' /\ next' = next
      BY <1>1, <1>8 DEF Push, Types, Goto, Phase, env
    <2>3. QED
      BY <2>1, <2>2, NextSame, SlotStepOf
  <1>9. ASSUME NEW q \in Queue, Halt(q) PROVE SlotInv'
    <2>1. PoolInv' /\ (\A p : p # q => Kept(p)) /\ Known(q)
      BY <1>9, HaltQueue DEF Known
    <2>2. Types' /\ next' = next
      BY <1>1, <1>9 DEF Halt, Types, Goto, Phase, env
    <2>3. QED
      BY <2>1, <2>2, NextSame, SlotStepOf
  <1>10. ASSUME NEW q \in Queue, Drain(q) PROVE SlotInv'
    <2>1. pool' = pool /\ queues' = With(queues, q, Without(q, Waiting(q)))
      BY <1>10 DEF Drain
    <2>2. /\ PoolInv' /\ \A p : p # q => Kept(p)
          /\ Numbers(EntriesIn(queues', q)) = Numbers(EntriesIn(queues, q)) \ Waiting(q)
      BY <2>1, WithoutQueue
    <2>3. Known(q)
      BY <2>2 DEF Known
    <2>4. Types' /\ next' = next
      BY <1>1, <1>10 DEF Drain, Types, Goto, Phase, env
    <2>5. QED
      BY <2>2, <2>3, <2>4, NextSame, SlotStepOf
  <1>11. ASSUME NEW q \in Queue, Halted(q) PROVE SlotInv'
    <2>1. pool' = pool /\ queues' = Only(queues, {i \in DOMAIN queues : queues[i].name # q})
      BY <1>11 DEF Halted
    <2>2. /\ queues' \in QueueLists
          /\ \A p : Named(queues', p) <=> (Named(queues, p) /\ p # q)
          /\ \A p : p # q => EntriesIn(queues', p) = EntriesIn(queues, p)
          /\ EntriesIn(queues', q) = <<>>
      BY <1>1, <2>1, DeletedQueue
    <2>3. Linked(pool, queues')
      BY <1>1, <2>2, LinkedByQueue
    <2>4. PoolInv' /\ \A p : p # q => Kept(p)
      BY <1>1, <2>1, <2>2, <2>3, SameItself DEF PoolInv, Kept
    <2>5. Known(q)
      BY <2>2 DEF Known, Numbers
    <2>6. Types' /\ next' = next
      BY <1>1, <1>11 DEF Halted, Types, Goto, Phase, env
    <2>7. QED
      BY <2>4, <2>5, <2>6, NextSame, SlotStepOf
  <1>12. ASSUME NEW q \in Queue, RequestEnds(q) PROVE SlotInv'
    <2>1. PoolInv' /\ \A p : Kept(p)
      BY <1>12, RequestEndsQueue
    <2>2. Types' /\ next' = next
      BY <1>1, <1>12 DEF RequestEnds, Types, workers, env
    <2>3. QED
      BY <2>1, <2>2, KeptNumbers, NextSame, SlotStepOf
  <1>13. ASSUME PoolInv', \A p : Kept(p), Types', next' = next PROVE SlotInv'
    <2>1. \A p \in Queue : Known(p)
      BY <1>13, KeptNumbers
    <2>2. \A p \in Queue : next'[p] \in Nat
      BY <1>13 DEF Types
    <2>3. QED
      BY <1>13, <2>1, <2>2, NextSame, UnaskedStep DEF SlotInv
  <1>14. ASSUME CoolOff PROVE SlotInv'
    <2>1. PoolInv' /\ \A p : Kept(p)
      BY <1>14, CoolOffPool
    <2>2. Types' /\ next' = next
      BY <1>1, <1>14 DEF CoolOff, Types, workers, env
    <2>3. QED
      BY <1>13, <2>1, <2>2
  <1>15. ASSUME ChangeSettings PROVE SlotInv'
    <2>1. queues' = queues /\ pool' = pool /\ next' = next
      BY <1>15 DEF ChangeSettings, handler, workers
    <2>2. changes' \in 0..MaxChanges
      BY <1>1, <1>15, ProxiedRequestsAssumption DEF ChangeSettings, Types
    <2>3. Types'
      BY <1>1, <1>15, <2>2 DEF ChangeSettings, Types, handler, workers
    <2>4. PoolInv' /\ \A p : Kept(p)
      BY <1>1, <2>1, AllKept DEF PoolInv
    <2>5. QED
      BY <1>13, <2>1, <2>3, <2>4
  <1>16. ASSUME UNCHANGED vars PROVE SlotInv'
    BY <1>16 DEF vars, SlotInv, Types, PoolInv, Unasked
  <1>17. QED
    BY <1>2, <1>3, <1>4, <1>5, <1>6, <1>7, <1>8, <1>9, <1>10, <1>11, <1>12,
       <1>14, <1>15, <1>16 DEF Next, Work

LEMMA SlotsInvariant == Spec => []SlotInv
  <1>1. Init => SlotInv
    BY SlotInit
  <1>2. SlotInv /\ [Next]_vars => SlotInv'
    BY SlotStep
  <1>3. QED
    BY <1>1, <1>2, PTL DEF Spec

-----------------------------------------------------------------------------
(* Types, and the slots of requests                                        *)

\* A list without repetitions has as many elements as positions.
LEMMA DistinctElements ==
    ASSUME NEW n \in Nat, NEW f, f = [i \in 1..n |-> f[i]],
           \A i, j \in 1..n : f[i] = f[j] => i = j
    PROVE  Cardinality({f[i] : i \in 1..n}) = n
  <1> DEFINE S == {f[i] : i \in 1..n}
  <1>1. f \in Bijection(1..n, S)
    BY DEF Bijection, Injection, Surjection, IsInjective
  <1>2. ExistsBijection(1..n, S)
    BY <1>1 DEF ExistsBijection
  <1> HIDE DEF S
  <1>3. Cardinality(S) = n
    BY <1>2, FS_CountingElements
  <1>4. QED
    BY <1>3 DEF S

LEMMA SlotTypes == SlotInv => TypeOK
  <1> SUFFICES ASSUME SlotInv PROVE TypeOK
    OBVIOUS
  <1>1. pool \in Pools /\ queues \in QueueLists /\ Types
    BY DEF SlotInv, PoolInv
  <1>2. /\ pool \in Seq(Pooled) /\ OwnUrls(pool)
        /\ \A i \in DOMAIN pool : pool[i] \in PooledType
    BY <1>1 DEF Pools, Pooled
  <1>3. InPool(pool) \subseteq Proxy
    BY <1>2 DEF InPool, PooledType
  <1>4. Len(pool) = Cardinality(InPool(pool))
    <2> DEFINE n == Len(pool)
               f == [i \in 1..n |-> pool[i].url]
    <2>1. n \in Nat /\ DOMAIN pool = 1..n
      BY <1>2
    <2>2. \A i, j \in 1..n : f[i] = f[j] => i = j
      BY <1>2, <2>1 DEF OwnUrls
    <2>3. InPool(pool) = {f[i] : i \in 1..n} /\ f = [i \in 1..n |-> f[i]]
      BY <2>1 DEF InPool
    <2> HIDE DEF n, f
    <2>4. Cardinality({f[i] : i \in 1..n}) = n
      BY <2>1, <2>2, <2>3, DistinctElements
    <2>5. QED
      BY <2>3, <2>4 DEF n
  <1>5. \A i \in DOMAIN pool : pool[i].healthy \in BOOLEAN /\ pool[i].pending \in BOOLEAN
    BY <1>2 DEF PooledType
  <1>6. /\ queues \in Seq(QueueType) /\ OwnNames(queues)
        /\ \A i \in DOMAIN queues : queues[i] \in QueueType
    BY <1>1 DEF QueueLists
  <1>7. Queues \subseteq Queue
    BY <1>6 DEF Queues, QueueType
  <1>8. Len(queues) = Cardinality(Queues)
    <2> DEFINE n == Len(queues)
               f == [i \in 1..n |-> queues[i].name]
    <2>1. n \in Nat /\ DOMAIN queues = 1..n
      BY <1>6
    <2>2. \A i, j \in 1..n : f[i] = f[j] => i = j
      BY <1>6, <2>1 DEF OwnNames
    <2>3. Queues = {f[i] : i \in 1..n} /\ f = [i \in 1..n |-> f[i]]
      BY <2>1 DEF Queues
    <2> HIDE DEF n, f
    <2>4. Cardinality({f[i] : i \in 1..n}) = n
      BY <2>1, <2>2, <2>3, DistinctElements
    <2>5. QED
      BY <2>3, <2>4 DEF n
  <1>9. \A q \in Queue : \A e \in ToSet(Entries(q)) :
            /\ e.n \in Url
            /\ e.status \in {"queued", "started", "waiting"}
            /\ e.future \in {"none", "running", "returned", "proxy"}
            /\ e.proxy \in Proxy \cup {Nothing}
    BY QueueEntries DEF EntryType, ToSet
  <1>10. next \in [Queue -> Url]
    BY <1>1, UrlNumbers DEF Types
  <1>11. QED
    BY <1>1, <1>3, <1>4, <1>5, <1>7, <1>8, <1>9, <1>10 DEF Types, TypeOK

\* TypeOK: the pool has each proxy once and the handler each queue once, and
\* entries have the status and the future they may have (requests.py).
THEOREM RequestsTypeCorrect == Spec => []TypeOK
  BY SlotsInvariant, SlotTypes, PTL

\* Requests that run in one proxy have slots of their own, so that they are
\* within its limits.
LEMMA RunningHaveSlots ==
    ASSUME NEW p \in Pooled, NEW R \in SUBSET Request, \A r \in R : Runs(p, r)
    PROVE  /\ Cardinality(R) <= MaxOverall
           /\ \A h \in Host : Cardinality({r \in R : HostOf[r] = h}) <= MaxPerHost
  <1> DEFINE At(r, s) == /\ s \in DOMAIN p.slots[HostOf[r]]
                         /\ p.slots[HostOf[r]][s] = [of |-> r, state |-> "running"]
             at == [r \in R |-> CHOOSE s : At(r, s)]
             slot == [r \in R |-> <<HostOf[r], at[r]>>]
  <1>1. /\ p \in PooledType /\ WithinLimits(p)
        /\ MaxOverall \in Nat /\ MaxPerHost \in Nat
    BY ProxiedRequestsAssumption DEF Pooled
  <1>2. \A r \in R : HostOf[r] \in Host
    BY ProxiedRequestsAssumption DEF Request
  <1>3. \A h \in Host : /\ DOMAIN p.slots[h] = 1..Len(p.slots[h])
                        /\ Len(p.slots[h]) \in Nat
                        /\ Len(p.slots[h]) <= MaxPerHost
                        /\ Len(p.slots[h]) <= MaxOverall
    BY <1>1 DEF PooledType, WithinLimits
  <1>4. ASSUME NEW r \in R PROVE At(r, at[r])
    <2>1. \E s : At(r, s)
      BY DEF Runs
    <2> HIDE DEF At
    <2>2. QED
      BY <2>1
  <1>5. \A r, r2 \in R : slot[r] = slot[r2] => r = r2
    <2> SUFFICES ASSUME NEW r \in R, NEW r2 \in R, slot[r] = slot[r2]
                 PROVE  r = r2
      OBVIOUS
    <2> HIDE DEF at
    <2>1. HostOf[r] = HostOf[r2] /\ at[r] = at[r2]
      OBVIOUS
    <2>2. [of |-> r, state |-> "running"] = [of |-> r2, state |-> "running"]
      BY <1>4, <2>1
    <2>3. QED
      BY <2>2
  <1>6. ASSUME NEW r \in R
        PROVE  at[r] \in DOMAIN p.slots[HostOf[r]] /\ at[r] \in 1..MaxOverall
    <2> HIDE DEF at
    <2> DEFINE l == Len(p.slots[HostOf[r]])
    <2>1. at[r] \in DOMAIN p.slots[HostOf[r]]
      BY <1>4
    <2>2. l \in Nat /\ l <= MaxOverall /\ DOMAIN p.slots[HostOf[r]] = 1..l
      BY <1>2, <1>3
    <2>3. at[r] \in 1..l
      BY <2>1, <2>2
    <2> HIDE DEF l
    <2>4. QED
      BY <1>1, <2>1, <2>2, <2>3
  <1>7. slot \in Injection(R, Taken(p))
    <2> HIDE DEF at
    <2>1. \A r \in R : slot[r] \in Taken(p)
      BY <1>2, <1>6 DEF Taken
    <2>2. slot \in [R -> Taken(p)]
      BY <2>1
    <2>3. DOMAIN slot = R
      OBVIOUS
    <2> HIDE DEF slot
    <2>4. QED
      BY <1>5, <2>2, <2>3 DEF Injection, IsInjective
  <1>8. Cardinality(R) <= MaxOverall
    <2> HIDE DEF slot
    <2>1. IsFiniteSet(Taken(p)) /\ Cardinality(Taken(p)) \in Nat
      BY TakenFinite
    <2>2. IsFiniteSet(R) /\ Cardinality(R) <= Cardinality(Taken(p))
      BY <1>7, <2>1, FS_Injection
    <2>3. Cardinality(R) \in Nat
      BY <2>2, FS_CardinalityType
    <2>4. QED
      BY <1>1, <2>1, <2>2, <2>3 DEF WithinLimits
  <1>9. ASSUME NEW h \in Host
        PROVE  Cardinality({r \in R : HostOf[r] = h}) <= MaxPerHost
    <2> DEFINE T == {r \in R : HostOf[r] = h}
               l == Len(p.slots[h])
               own == [r \in T |-> at[r]]
    <2>1. \A r \in T : r \in R /\ HostOf[r] = h
      OBVIOUS
    <2>2. l \in Nat /\ l <= MaxPerHost /\ DOMAIN p.slots[h] = 1..l
      BY <1>3
    <2> HIDE DEF T, l, at
    <2>3. \A r \in T : own[r] = at[r] /\ own[r] \in 1..l
      BY <1>6, <2>1, <2>2
    <2>4. \A r, r2 \in T : own[r] = own[r2] => r = r2
      <3> SUFFICES ASSUME NEW r \in T, NEW r2 \in T, own[r] = own[r2] PROVE r = r2
        OBVIOUS
      <3>1. slot[r] = slot[r2]
        BY <2>1
      <3>2. QED
        BY <1>5, <2>1, <3>1
    <2>5. own \in [T -> 1..l] /\ DOMAIN own = T
      BY <2>3
    <2> HIDE DEF own
    <2>6. own \in Injection(T, 1..l)
      BY <2>4, <2>5 DEF Injection, IsInjective
    <2>7. IsFiniteSet(1..l) /\ Cardinality(1..l) = l
      BY <2>2, FS_Interval
    <2>8. IsFiniteSet(T) /\ Cardinality(T) <= l
      BY <2>6, <2>7, FS_Injection
    <2>9. Cardinality(T) \in Nat
      BY <2>8, FS_CardinalityType
    <2>10. Cardinality(T) <= MaxPerHost
      BY <1>1, <2>2, <2>8, <2>9
    <2>11. QED
      BY <2>10 DEF T
  <1>10. QED
    BY <1>8, <1>9

LEMMA StartedHaveSlots == SlotInv => RequestsHaveSlots
  <1> SUFFICES ASSUME SlotInv, NEW u \in Proxy
               PROVE  /\ Cardinality(Started(u)) <= MaxOverall
                      /\ \A h \in Host :
                            Cardinality({r \in Started(u) : HostOf[r] = h})
                                <= MaxPerHost
                      /\ \A r \in Started(u) : \E i \in DOMAIN pool :
                            /\ pool[i].url = u
                            /\ [of |-> r, state |-> "running"]
                                    \in ToSet(pool[i].slots[HostOf[r]])
    BY DEF RequestsHaveSlots
  <1>1. pool \in Pools /\ MaxOverall \in Nat /\ MaxPerHost \in Nat
    BY ProxiedRequestsAssumption DEF SlotInv, PoolInv
  <1>2. ASSUME NEW r \in Started(u) PROVE r \in Request /\ RunsIn(pool, u, r)
    <2>1. PICK q \in Queue, n \in Url : r = <<q, n>>
      BY DEF Started
    <2>2. PICK k \in DOMAIN Entries(q) : /\ Entries(q)[k].n = n
                                         /\ Entries(q)[k].status = "started"
                                         /\ Entries(q)[k].proxy = u
      BY <2>1 DEF Started, ToSet
    <2>3. LinkedEntry(pool, q, Entries(q)[k])
      BY QueueEntries
    <2>4. QED
      BY <2>1, <2>2, <2>3 DEF LinkedEntry, Request
  <1>3. CASE Started(u) = {}
    BY <1>1, <1>3, FS_EmptySet
  <1>4. CASE Started(u) # {}
    <2>1. PICK i \in DOMAIN pool : pool[i].url = u
      BY <1>2, <1>4 DEF RunsIn
    <2> DEFINE p == pool[i]
               R == Started(u)
    <2>2. p \in Pooled /\ R \in SUBSET Request
      BY <1>1, <1>2 DEF Pools
    <2>3. \A r \in R : Runs(p, r)
      BY <1>1, <1>2, <2>1 DEF RunsIn, Pools, OwnUrls
    <2>4. \A r \in R : [of |-> r, state |-> "running"] \in ToSet(p.slots[HostOf[r]])
      BY <2>3 DEF Runs, ToSet
    <2> HIDE DEF p, R
    <2>5. /\ Cardinality(R) <= MaxOverall
          /\ \A h \in Host : Cardinality({r \in R : HostOf[r] = h}) <= MaxPerHost
      BY <2>2, <2>3, RunningHaveSlots
    <2>6. QED
      BY <2>1, <2>4, <2>5 DEF p, R
  <1>5. QED
    BY <1>3, <1>4

\* RequestsHaveSlots: what is under way through a proxy is what its slots are
\* taken by, and within its limits, for any limits, hosts and settings.
THEOREM AllStartedHaveSlots == Spec => []RequestsHaveSlots
  BY SlotsInvariant, StartedHaveSlots, PTL

-----------------------------------------------------------------------------
(* Results                                                                 *)

InLoop == {"idle", "looping", "asking", "results", "working", "pushed"}

\* Results in order: of the first URLs, with those in the queue to follow, of
\* which the processor still looks at all when it has one.
InOrder(q) ==
    /\ \A i \in DOMAIN delivered[q] : delivered[q][i] = i
    /\ Ascending(EntriesIn(queues, q))
    /\ phase[q] = "working" =>
        /\ ToSet(todo[q]) = Numbers(EntriesIn(queues, q))
        /\ \A i, j \in DOMAIN todo[q] : i < j => todo[q][i] < todo[q][j]

\* A URL that was added is in the queue or has been delivered, not both, until
\* its processor stops its requests.
ResultsOf(q) ==
    /\ \A i, j \in DOMAIN delivered[q] : delivered[q][i] = delivered[q][j] => i = j
    /\ ToSet(delivered[q]) \cap Numbers(EntriesIn(queues, q)) = {}
    /\ \A n \in ToSet(delivered[q]) \cup Numbers(EntriesIn(queues, q)) :
        n < next[q] \/ (q \notin Ordered /\ n = Pushed(q))
    /\ phase[q] \in InLoop =>
        1..(next[q] - 1) \subseteq ToSet(delivered[q]) \cup Numbers(EntriesIn(queues, q))
    /\ ~have_urls[q] => next[q] = Pushed(q)
    /\ phase[q] = "pushed" => q \notin Ordered
    /\ q \in Ordered => InOrder(q)
    /\ phase[q] = "done" /\ q \notin Abandoner =>
        /\ EntriesIn(queues, q) = <<>>
        /\ Named(queues, q) => 1..Urls[q] \subseteq ToSet(delivered[q])

ResultInv == \A q \in Queue : ResultsOf(q)
LEMMA StaysEmpty ==
    ASSUME PoolInv', NEW p, Kept(p), EntriesIn(queues, p) = <<>>
    PROVE  EntriesIn(queues', p) = <<>>
  <1>1. EntriesIn(queues', p) \in Seq(EntryType)
    BY EntriesOfQueue DEF PoolInv
  <1>2. DOMAIN EntriesIn(queues', p) = {}
    BY DEF Kept, Same
  <1>3. QED
    BY <1>1, <1>2

\* A step that leaves a processor's URLs alone, or with which it moves on in its
\* loop or finds that it is through.
LEMMA ResultsMoved ==
    ASSUME SlotInv, PoolInv', NEW q \in Queue, ResultsOf(q), Kept(q),
           delivered'[q] = delivered[q], next'[q] = next[q],
           have_urls'[q] = have_urls[q],
           phase'[q] \in InLoop => phase[q] \in InLoop,
           phase'[q] = "pushed" => phase[q] = "pushed",
           phase'[q] = "working" => phase[q] = "working" /\ todo'[q] = todo[q],
           phase'[q] = "done" =>
                \/ phase[q] = "done" \/ q \in Abandoner
                \/ /\ EntriesIn(queues, q) = <<>> /\ ~have_urls[q]
                   /\ phase[q] \in InLoop
    PROVE  ResultsOf(q)'
  <1> DEFINE es == EntriesIn(queues, q)
             es2 == EntriesIn(queues', q)
  <1>1. /\ Numbers(es2) = Numbers(es) /\ (Ascending(es) => Ascending(es2))
        /\ Named(queues', q) <=> Named(queues, q)
    BY KeptNumbers
  <1>2. es = <<>> => es2 = <<>>
    BY StaysEmpty
  <1> HIDE DEF es, es2
  <1>3. q \in Ordered => InOrder(q)'
    <2>1. q \in Ordered => InOrder(q)
      BY DEF ResultsOf
    <2>2. QED
      BY <1>1, <2>1 DEF InOrder, es, es2
  <1>4. phase'[q] = "done" /\ q \notin Abandoner =>
            es2 = <<>> /\ (Named(queues', q) => 1..Urls[q] \subseteq ToSet(delivered'[q]))
    <2>1. CASE phase[q] = "done"
      BY <1>1, <1>2, <2>1 DEF ResultsOf, es
    <2>2. CASE es = <<>> /\ ~have_urls[q] /\ phase[q] \in InLoop
      <3>1. next[q] - 1 = Urls[q]
        BY <2>2, UrlNumbers DEF ResultsOf, Pushed
      <3>2. 1..(next[q] - 1) \subseteq ToSet(delivered[q]) \cup Numbers(es)
        BY <2>2 DEF ResultsOf, es
      <3>3. Numbers(es) = {}
        BY <2>2 DEF Numbers
      <3>4. QED
        BY <1>2, <2>2, <3>1, <3>2, <3>3
    <2>3. QED
      BY <2>1, <2>2 DEF es
  <1>5. /\ \A i, j \in DOMAIN delivered'[q] : delivered'[q][i] = delivered'[q][j] => i = j
        /\ ToSet(delivered'[q]) \cap Numbers(es2) = {}
        /\ \A n \in ToSet(delivered'[q]) \cup Numbers(es2) :
            n < next'[q] \/ (q \notin Ordered /\ n = Pushed(q))
        /\ phase'[q] \in InLoop =>
            1..(next'[q] - 1) \subseteq ToSet(delivered'[q]) \cup Numbers(es2)
        /\ ~have_urls'[q] => next'[q] = Pushed(q)
        /\ phase'[q] = "pushed" => q \notin Ordered
    BY <1>1 DEF ResultsOf, es
  <1>6. QED
    BY <1>3, <1>4, <1>5 DEF ResultsOf, es2

\* Stopping its requests takes URLs from its queue and ends its loop.
LEMMA ResultsFewer ==
    ASSUME NEW q \in Queue, ResultsOf(q),
           Numbers(EntriesIn(queues', q)) \subseteq Numbers(EntriesIn(queues, q)),
           Ascending(EntriesIn(queues, q)) => Ascending(EntriesIn(queues', q)),
           delivered'[q] = delivered[q], next'[q] = next[q],
           have_urls'[q] = have_urls[q], phase'[q] \notin InLoop,
           phase'[q] = "done" =>
                EntriesIn(queues', q) = <<>> /\ ~Named(queues', q)
    PROVE  ResultsOf(q)'
  <1> DEFINE es == EntriesIn(queues, q)
             es2 == EntriesIn(queues', q)
  <1> HIDE DEF es, es2
  <1>1. q \in Ordered => InOrder(q)'
    BY DEF ResultsOf, InOrder, InLoop
  <1>2. /\ \A i, j \in DOMAIN delivered'[q] : delivered'[q][i] = delivered'[q][j] => i = j
        /\ ToSet(delivered'[q]) \cap Numbers(es2) = {}
        /\ \A n \in ToSet(delivered'[q]) \cup Numbers(es2) :
            n < next'[q] \/ (q \notin Ordered /\ n = Pushed(q))
        /\ ~have_urls'[q] => next'[q] = Pushed(q)
        /\ phase'[q] # "pushed"
    BY DEF ResultsOf, es, es2, InLoop
  <1>3. QED
    BY <1>1, <1>2 DEF ResultsOf, es2

LEMMA ResultsPushed ==
    ASSUME SlotInv, NEW q \in Queue, ResultsOf(q), Push(q)
    PROVE  ResultsOf(q)'
  <1> DEFINE es == EntriesIn(queues, q)
             es2 == EntriesIn(queues', q)
  <1>1. /\ Numbers(es) \subseteq Numbers(es2)
        /\ Numbers(es2) \subseteq Numbers(es) \cup {Pushed(q)}
    BY PushQueue
  <1> HIDE DEF es, es2
  <1>2. /\ q \notin Ordered /\ Pushed(q) \notin ToSet(delivered[q])
        /\ phase[q] \in InLoop /\ phase'[q] = "pushed"
        /\ UNCHANGED <<next, have_urls, delivered>>
    BY ProxiedRequestsAssumption DEF Push, InLoop, Goto, SlotInv, Types
  <1>3. QED
    BY <1>1, <1>2 DEF ResultsOf, es, es2

LEMMA ResultsToppedUp ==
    ASSUME SlotInv, NEW q \in Queue, ResultsOf(q), TopUp(q)
    PROVE  ResultsOf(q)'
  <1> DEFINE es == EntriesIn(queues, q)
             es2 == EntriesIn(queues', q)
             nx == next[q]
             nx2 == next'[q]
             had == ToSet(delivered[q])
  <1>1. /\ nx2 \in Nat /\ nx <= nx2 /\ nx2 <= Pushed(q)
        /\ ~have_urls'[q] => nx2 = Pushed(q)
        /\ Numbers(es2) = Numbers(es) \cup (nx..(nx2 - 1))
        /\ /\ Ascending(es)
           /\ \A n \in Numbers(es) : n < nx
           => Ascending(es2)
    BY TopUpQueue
  <1>2. /\ nx \in Nat /\ Pushed(q) \in Nat
        /\ phase[q] = "looping" /\ phase'[q] = "asking" /\ delivered' = delivered
    BY UrlNumbers DEF TopUp, Goto, SlotInv, Types
  <1>3. had \subseteq Nat /\ Numbers(es) \subseteq Nat
    <2>1. delivered[q] \in Seq(Url)
      BY DEF SlotInv, Types
    <2>2. had \subseteq Url
      BY <2>1 DEF ToSet
    <2>3. Numbers(es) \subseteq Url
      BY QueueEntries, EntriesIs
    <2>4. QED
      BY <2>2, <2>3, UrlIsNumber
  <1> HIDE DEF es, es2, nx, nx2, had
  <1>4. /\ \A i, j \in DOMAIN delivered[q] : delivered[q][i] = delivered[q][j] => i = j
        /\ had \cap Numbers(es) = {}
        /\ \A n \in had \cup Numbers(es) : n < nx \/ (q \notin Ordered /\ n = Pushed(q))
        /\ 1..(nx - 1) \subseteq had \cup Numbers(es)
    BY <1>2 DEF ResultsOf, es, nx, had, InLoop
  <1>5. had \cap Numbers(es2) = {}
    BY <1>1, <1>2, <1>3, <1>4
  <1>6. \A n \in had \cup Numbers(es2) : n < nx2 \/ (q \notin Ordered /\ n = Pushed(q))
    BY <1>1, <1>2, <1>3, <1>4
  <1>7. 1..(nx2 - 1) \subseteq had \cup Numbers(es2)
    <2>1. ASSUME NEW n \in 1..(nx2 - 1) PROVE n \in 1..(nx - 1) \/ n \in nx..(nx2 - 1)
      BY <1>1, <1>2
    <2>2. QED
      BY <1>1, <1>4, <2>1
  <1>8. q \in Ordered => InOrder(q)'
    <2>1. q \in Ordered => /\ \A i \in DOMAIN delivered[q] : delivered[q][i] = i
                           /\ Ascending(es)
      BY DEF ResultsOf, InOrder, es
    <2>2. q \in Ordered => Ascending(es2)
      BY <1>1, <1>4, <2>1
    <2>3. QED
      BY <1>2, <2>1, <2>2 DEF InOrder, es2
  <1>9. QED
    BY <1>1, <1>2, <1>4, <1>5, <1>6, <1>7, <1>8 DEF ResultsOf, es2, nx2, had, InLoop

\* What a processor that wants results in order looks at.
LookedAt(q, urls) ==
    /\ ToSet(urls) = Numbers(EntriesIn(queues, q))
    /\ \A i, j \in DOMAIN urls : i < j => urls[i] < urls[j]

LEMMA ResultsYielded ==
    ASSUME SlotInv, NEW q \in Queue, ResultsOf(q), phase[q] \in InLoop,
           NEW urls \in Seq(Url), q \in Ordered => LookedAt(q, urls),
           NEW i \in DOMAIN urls, Yielded(q, urls, i),
           next' = next, have_urls' = have_urls
    PROVE  ResultsOf(q)'
  <1> DEFINE es == EntriesIn(queues, q)
             es2 == EntriesIn(queues', q)
             nx == next[q]
             d == delivered[q]
             n == urls[i]
             d2 == Append(d, n)
  <1>1. /\ i = 1 \/ q \notin Ordered
        /\ n \in Numbers(es) /\ phase'[q] = "working"
        /\ todo'[q] = SubSeq(urls, i + 1, Len(urls)) /\ delivered'[q] = d2
        /\ Numbers(es2) = Numbers(es) \ {n}
        /\ Ascending(es) => Ascending(es2)
    BY DEF Yielded, Goto, SlotInv, Types
  <1>2. /\ d \in Seq(Url) /\ nx \in Nat /\ n \in Url /\ Len(urls) \in Nat
        /\ DOMAIN urls = 1..Len(urls) /\ i \in 1..Len(urls)
        /\ \A j \in DOMAIN urls : urls[j] \in Nat
    <2>1. d \in Seq(Url) /\ nx \in Nat
      BY DEF SlotInv, Types
    <2>2. /\ Len(urls) \in Nat /\ DOMAIN urls = 1..Len(urls)
          /\ \A j \in DOMAIN urls : urls[j] \in Url
      OBVIOUS
    <2>3. QED
      BY <2>1, <2>2, UrlIsNumber
  <1>3. Numbers(es) \subseteq Nat \ {0}
    BY QueueEntries, EntriesIs, UrlIsNumber
  <1> HIDE DEF es, es2, nx, d, n
  <1>4. /\ \A j, k \in DOMAIN d : d[j] = d[k] => j = k
        /\ ToSet(d) \cap Numbers(es) = {}
        /\ \A m \in ToSet(d) \cup Numbers(es) :
            m < nx \/ (q \notin Ordered /\ m = Pushed(q))
        /\ 1..(nx - 1) \subseteq ToSet(d) \cup Numbers(es)
        /\ ~have_urls[q] => nx = Pushed(q)
        /\ q \in Ordered => (\A j \in DOMAIN d : d[j] = j) /\ Ascending(es)
    BY DEF ResultsOf, InOrder, es, nx, d
  <1>5. /\ DOMAIN d = 1..Len(d) /\ Len(d) \in Nat
        /\ DOMAIN d2 = 1..(Len(d) + 1) /\ d2[Len(d) + 1] = n
        /\ \A j \in DOMAIN d : d2[j] = d[j]
    BY <1>2
  <1> HIDE DEF d2
  <1>6. \A j \in DOMAIN d2 : j \in DOMAIN d \/ j = Len(d) + 1
    BY <1>5
  <1>7. ToSet(d2) = ToSet(d) \cup {n}
    <2>1. \A m \in ToSet(d2) : m \in ToSet(d) \cup {n}
      BY <1>5, <1>6 DEF ToSet
    <2>2. n \in ToSet(d2)
      <3>1. Len(d) + 1 \in DOMAIN d2
        BY <1>5
      <3>2. QED
        BY <1>5, <3>1 DEF ToSet
    <2>3. \A m \in ToSet(d) : m \in ToSet(d2)
      <3>1. \A j \in DOMAIN d : j \in DOMAIN d2
        BY <1>5
      <3>2. QED
        BY <1>5, <3>1 DEF ToSet
    <2>4. QED
      BY <2>1, <2>2, <2>3
  <1>8. \A j, k \in DOMAIN d2 : d2[j] = d2[k] => j = k
    <2>1. \A j \in DOMAIN d : d[j] # n
      BY <1>1, <1>4 DEF ToSet
    <2>2. QED
      BY <1>4, <1>5, <1>6, <2>1
  <1>9. /\ ToSet(d2) \cap Numbers(es2) = {}
        /\ ToSet(d2) \cup Numbers(es2) = ToSet(d) \cup Numbers(es)
    BY <1>1, <1>4, <1>7
  <1>10. ASSUME q \in Ordered PROVE InOrder(q)'
    <2>1. i = 1 /\ LookedAt(q, urls)
      BY <1>1, <1>10
    <2>2. ToSet(d) = 1..Len(d)
      BY <1>4, <1>5, <1>10 DEF ToSet
    <2>3. n >= Len(d) + 1 /\ n < nx
      BY <1>1, <1>3, <1>4, <1>5, <1>10, <2>2
    <2>4. Len(d) + 1 \in Numbers(es)
      BY <1>2, <1>4, <1>5, <1>1, <1>3, <2>2, <2>3
    <2>5. n = Len(d) + 1
      <3>1. PICK j \in DOMAIN urls : urls[j] = Len(d) + 1
        BY <2>1, <2>4 DEF LookedAt, ToSet, es
      <3>2. urls[1] <= urls[j]
        BY <1>2, <2>1, <3>1 DEF LookedAt
      <3>3. QED
        BY <1>1, <1>3, <1>5, <2>1, <2>3, <3>1, <3>2 DEF n
    <2>6. \A j \in DOMAIN d2 : d2[j] = j
      BY <1>4, <1>5, <1>6, <1>10, <2>5
    <2> DEFINE rest == SubSeq(urls, 2, Len(urls))
               l == Len(urls)
    <2>7. /\ DOMAIN rest = 1..(l - 1)
          /\ \A j \in 1..(l - 1) : j + 1 \in DOMAIN urls /\ rest[j] = urls[j + 1]
      BY <1>2
    <2> HIDE DEF rest
    <2>8. ToSet(rest) = Numbers(es) \ {n}
      <3>1. ASSUME NEW j \in DOMAIN rest PROVE rest[j] \in Numbers(es) \ {n}
        <4>1. j + 1 \in DOMAIN urls /\ rest[j] = urls[j + 1] /\ 1 < j + 1
          BY <1>2, <2>7
        <4>2. urls[1] < urls[j + 1] /\ urls[j + 1] \in Numbers(es)
          BY <1>2, <2>1, <4>1 DEF LookedAt, ToSet, es
        <4>3. QED
          BY <1>2, <2>1, <4>1, <4>2 DEF n
      <3>2. ASSUME NEW m \in Numbers(es) \ {n} PROVE \E j \in DOMAIN rest : rest[j] = m
        <4>1. PICK k \in DOMAIN urls : urls[k] = m
          BY <2>1 DEF LookedAt, ToSet, es
        <4>2. k # 1
          BY <4>1, <2>1 DEF n
        <4>3. k - 1 \in 1..(l - 1) /\ (k - 1) + 1 = k
          BY <1>2, <4>1, <4>2
        <4>4. QED
          BY <2>7, <4>1, <4>3
      <3>3. QED
        BY <3>1, <3>2 DEF ToSet
    <2>9. \A j, k \in DOMAIN rest : j < k => rest[j] < rest[k]
      <3> SUFFICES ASSUME NEW j \in DOMAIN rest, NEW k \in DOMAIN rest, j < k
                   PROVE  rest[j] < rest[k]
        OBVIOUS
      <3>1. j + 1 < k + 1 /\ j + 1 \in DOMAIN urls /\ k + 1 \in DOMAIN urls
        BY <1>2, <2>7
      <3>2. urls[j + 1] < urls[k + 1]
        BY <2>1, <3>1 DEF LookedAt
      <3>3. QED
        BY <2>7, <3>2
    <2>10. todo'[q] = rest
      BY <1>1, <2>1 DEF rest
    <2>11. QED
      BY <1>1, <1>4, <1>10, <2>6, <2>8, <2>9, <2>10 DEF InOrder, es2
  <1>11. phase'[q] # "done" /\ phase'[q] # "pushed"
    BY <1>1
  <1>12. QED
    BY <1>1, <1>4, <1>8, <1>9, <1>10, <1>11 DEF ResultsOf, es2, nx

LEMMA ResultsInit == Init => ResultInv
  <1> SUFFICES ASSUME Init, NEW q \in Queue PROVE ResultsOf(q)
    BY DEF ResultInv
  <1>1. /\ EntriesIn(queues, q) = <<>> /\ delivered[q] = <<>> /\ next[q] = 1
        /\ have_urls[q] /\ phase[q] = "idle"
    BY DEF Init, EntriesIn, Named
  <1>2. Numbers(<<>>) = {} /\ ToSet(<<>>) = {} /\ Ascending(<<>>)
    BY DEF Numbers, ToSet, Ascending
  <1>3. InOrder(q)
    BY <1>1, <1>2 DEF InOrder
  <1>4. QED
    BY <1>1, <1>2, <1>3 DEF ResultsOf

\* The URLs that get_results() looks at are all, in the order of the queue.
LEMMA AllLookedAt ==
    ASSUME SlotInv, NEW q \in Queue, Ascending(EntriesIn(queues, q))
    PROVE  LookedAt(q, [i \in DOMAIN Entries(q) |-> Entries(q)[i].n])
  BY EntriesIs DEF LookedAt, Ascending, ToSet, Numbers

LEMMA ResultsYield ==
    ASSUME SlotInv, PoolInv', NEW q \in Queue, ResultsOf(q),
           phase[q] \in InLoop, NEW urls \in Seq(Url), YieldNext(q, urls),
           q \in Ordered => LookedAt(q, urls),
           UNCHANGED <<pool, next, have_urls>>
    PROVE  ResultsOf(q)'
  <1>1. NoneYielded(q) \/ \E i \in DOMAIN urls : Yielded(q, urls, i)
    BY YieldQueue
  <1>2. CASE NoneYielded(q)
    <2>1. /\ delivered' = delivered /\ Kept(q) /\ phase'[q] = "looping"
      BY <1>2 DEF NoneYielded, Goto, SlotInv, Types
    <2>2. QED
      BY <2>1, ResultsMoved
  <1>3. CASE \E i \in DOMAIN urls : Yielded(q, urls, i)
    BY <1>3, ResultsYielded
  <1>4. QED
    BY <1>1, <1>2, <1>3

\* A step of one processor is nothing to the others.
OnlyOf(q) ==
    \A p \in Queue : p # q =>
        /\ Kept(p)
        /\ delivered'[p] = delivered[p] /\ next'[p] = next[p]
        /\ have_urls'[p] = have_urls[p] /\ phase'[p] = phase[p]
        /\ todo'[p] = todo[p]

LEMMA ResultsOthers ==
    ASSUME SlotInv, PoolInv', ResultInv, NEW q, OnlyOf(q),
           q \in Queue => ResultsOf(q)'
    PROVE  ResultInv'
  <1> SUFFICES ASSUME NEW p \in Queue, p # q PROVE ResultsOf(p)'
    BY DEF ResultInv
  <1>1. QED
    BY ResultsMoved DEF OnlyOf, ResultInv

LEMMA ResultsStep == SlotInv /\ SlotInv' /\ ResultInv /\ [Next]_vars => ResultInv'
  <1> SUFFICES ASSUME SlotInv, SlotInv', ResultInv, [Next]_vars PROVE ResultInv'
    OBVIOUS
  <1>1. PoolInv' /\ Types /\ \A q \in Queue : ResultsOf(q)
    BY DEF SlotInv, ResultInv
  <1>2. ASSUME NEW q \in Queue, Begin(q) PROVE ResultInv'
    <2>1. \A p : Kept(p)
      BY <1>2, AllKept DEF Begin
    <2>2. /\ UNCHANGED <<next, have_urls, todo, delivered>>
          /\ phase[q] = "idle" /\ phase' = [phase EXCEPT ![q] = "looping"]
      BY <1>2 DEF Begin, Goto
    <2>3. OnlyOf(q)
      BY <1>1, <2>1, <2>2 DEF OnlyOf, Types
    <2>4. phase[q] \in InLoop /\ phase'[q] = "looping"
      BY <1>1, <2>2 DEF InLoop, Types
    <2>5. ResultsOf(q)'
      BY <1>1, <2>1, <2>2, <2>4, ResultsMoved
    <2>6. QED
      BY <1>1, <2>3, <2>5, ResultsOthers
  <1>3. ASSUME NEW q \in Queue, TopUp(q) PROVE ResultInv'
    <2>1. /\ \A p : p # q => Kept(p)
          /\ next' = [next EXCEPT ![q] = next'[q]]
          /\ have_urls' = [have_urls EXCEPT ![q] = have_urls'[q]]
      BY <1>3, TopUpQueue DEF Kept
    <2>2. \A p \in Queue : p # q => next'[p] = next[p] /\ have_urls'[p] = have_urls[p]
      <3> DEFINE n == next'[q]
                 h == have_urls'[q]
      <3>1. next' = [next EXCEPT ![q] = n] /\ have_urls' = [have_urls EXCEPT ![q] = h]
        BY <2>1
      <3> HIDE DEF n, h
      <3>2. QED
        BY <1>1, <3>1 DEF Types
    <2>3. OnlyOf(q)
      BY <1>1, <1>3, <2>1, <2>2 DEF OnlyOf, TopUp, Goto, Types
    <2>4. ResultsOf(q)'
      BY <1>1, <1>3, ResultsToppedUp
    <2>5. QED
      BY <1>1, <2>3, <2>4, ResultsOthers
  <1>4. ASSUME NEW q \in Queue, Complete(q) PROVE ResultInv'
    <2>1. /\ UNCHANGED <<queues, next, have_urls, todo, delivered>>
          /\ phase[q] = "looping" /\ phase' = [phase EXCEPT ![q] = "done"]
          /\ Entries(q) = <<>> /\ ~have_urls[q]
      BY <1>4 DEF Complete, Goto, handler
    <2>2. \A p : Kept(p)
      BY <2>1, AllKept
    <2>3. OnlyOf(q)
      BY <1>1, <2>1, <2>2 DEF OnlyOf, Types
    <2>4. phase[q] \in InLoop /\ phase'[q] = "done" /\ EntriesIn(queues, q) = <<>>
      BY <1>1, <2>1, EntriesIs DEF InLoop, Types
    <2>5. phase'[q] \notin InLoop
      BY <2>4 DEF InLoop
    <2>6. ResultsOf(q)'
      BY <1>1, <2>1, <2>2, <2>4, <2>5, ResultsMoved
    <2>7. QED
      BY <1>1, <2>3, <2>6, ResultsOthers
  <1>5. ASSUME NEW q \in Queue, Enough(q) PROVE ResultInv'
    <2>1. /\ UNCHANGED <<queues, next, have_urls, delivered>>
          /\ phase' = [phase EXCEPT ![q] =
                          IF q \in Abandoner THEN "done" ELSE "flushing"]
          /\ todo' = [todo EXCEPT ![q] = <<>>]
      BY <1>5 DEF Enough, Goto, handler
    <2>2. \A p : Kept(p)
      BY <2>1, AllKept
    <2>3. OnlyOf(q)
      BY <1>1, <2>1, <2>2 DEF OnlyOf, Types
    <2>4. \/ phase'[q] = "flushing"
          \/ phase'[q] = "done" /\ q \in Abandoner
      BY <1>1, <2>1 DEF Types
    <2>5. phase'[q] \notin InLoop
      BY <2>4 DEF InLoop
    <2>6. ResultsOf(q)'
      BY <1>1, <2>1, <2>2, <2>4, <2>5, ResultsMoved
    <2>7. QED
      BY <1>1, <2>3, <2>6, ResultsOthers
  <1>6. ASSUME NEW q \in Queue, Asking(q) PROVE ResultInv'
    <2>1. /\ Manage(queues) /\ UNCHANGED <<next, have_urls, todo, delivered>>
          /\ \/ phase[q] \in {"looping", "asking"} /\ Goto(q, "results")
             \/ phase[q] = "halting" /\ Goto(q, "draining")
      BY <1>6 DEF Asking
    <2>2. \A p : Kept(p)
      BY <2>1, ManageKeeps DEF Kept, SlotInv, PoolInv
    <2>3. OnlyOf(q)
      BY <1>1, <2>1, <2>2 DEF OnlyOf, Goto, Types
    <2>4. \/ phase'[q] = "results" /\ phase[q] \in InLoop
          \/ phase'[q] = "draining"
      BY <1>1, <2>1 DEF Goto, InLoop, Types
    <2>5. ResultsOf(q)'
      BY <1>1, <2>1, <2>2, <2>4, ResultsMoved DEF InLoop
    <2>6. QED
      BY <1>1, <2>3, <2>5, ResultsOthers
  <1>7. ASSUME NEW q \in Queue, NEW urls \in Seq(Url), YieldNext(q, urls),
               phase[q] \in InLoop, q \in Ordered => LookedAt(q, urls),
               UNCHANGED <<pool, next, have_urls>>
        PROVE  ResultInv'
    <2>1. ResultsOf(q)'
      BY <1>1, <1>7, ResultsYield
    <2>2. \A p : p # q => Kept(p)
      BY <1>7, YieldQueue
    <2>3. \A p \in Queue : p # q => /\ delivered'[p] = delivered[p]
                                    /\ phase'[p] = phase[p] /\ todo'[p] = todo[p]
      BY <1>1, <1>7 DEF YieldNext, Goto, Types
    <2>4. OnlyOf(q)
      BY <1>7, <2>2, <2>3 DEF OnlyOf
    <2>5. QED
      BY <1>1, <2>1, <2>4, ResultsOthers
  <1>8. ASSUME NEW q \in Queue, Results(q) PROVE ResultInv'
    <2> DEFINE urls == [i \in DOMAIN Entries(q) |-> Entries(q)[i].n]
    <2>1. urls \in Seq(Url)
      BY EntryUrls
    <2>2. q \in Ordered => LookedAt(q, urls)
      BY <1>1, AllLookedAt DEF ResultsOf, InOrder
    <2>3. YieldNext(q, urls) /\ phase[q] \in InLoop /\ UNCHANGED <<pool, next, have_urls>>
      BY <1>8 DEF Results, InLoop
    <2> HIDE DEF urls
    <2>4. QED
      BY <1>7, <2>1, <2>2, <2>3
  <1>9. ASSUME NEW q \in Queue, Continue(q) PROVE ResultInv'
    <2>1. todo[q] \in Seq(Url)
      BY <1>1 DEF Types
    <2>2. /\ YieldNext(q, todo[q]) /\ phase[q] \in {"working", "pushed"}
          /\ UNCHANGED <<pool, next, have_urls>>
      BY <1>9 DEF Continue
    <2>3. q \in Ordered => LookedAt(q, todo[q])
      BY <1>1, <2>2 DEF ResultsOf, InOrder, LookedAt
    <2>4. phase[q] \in InLoop
      BY <2>2 DEF InLoop
    <2>5. QED
      BY <1>7, <2>1, <2>2, <2>3, <2>4
  <1>10. ASSUME NEW q \in Queue, Push(q) PROVE ResultInv'
    <2>1. \A p : p # q => Kept(p)
      BY <1>10, PushQueue
    <2>2. OnlyOf(q)
      BY <1>1, <1>10, <2>1 DEF OnlyOf, Push, Goto, Types
    <2>3. ResultsOf(q)'
      BY <1>1, <1>10, ResultsPushed
    <2>4. QED
      BY <1>1, <2>2, <2>3, ResultsOthers
  <1>11. ASSUME NEW q \in Queue, Halt(q) PROVE ResultInv'
    <2>1. /\ \A p : p # q => Kept(p)
          /\ Numbers(EntriesIn(queues', q)) \subseteq Numbers(EntriesIn(queues, q))
          /\ Ascending(EntriesIn(queues, q)) => Ascending(EntriesIn(queues', q))
      BY <1>11, HaltQueue
    <2>2. /\ UNCHANGED <<next, have_urls, delivered>>
          /\ phase' = [phase EXCEPT ![q] = "halting"]
          /\ todo' = [todo EXCEPT ![q] = <<>>]
      BY <1>11 DEF Halt, Goto
    <2>3. OnlyOf(q)
      BY <1>1, <2>1, <2>2 DEF OnlyOf, Types
    <2>4. phase'[q] = "halting" /\ phase'[q] \notin InLoop
      BY <1>1, <2>2 DEF InLoop, Types
    <2>5. ResultsOf(q)'
      BY <1>1, <2>1, <2>2, <2>4, ResultsFewer
    <2>6. QED
      BY <1>1, <2>3, <2>5, ResultsOthers
  <1>12. ASSUME NEW q \in Queue, Drain(q) PROVE ResultInv'
    <2>1. /\ UNCHANGED <<pool, next, have_urls, delivered, todo>>
          /\ phase' = [phase EXCEPT ![q] = "halting"]
          /\ queues' = With(queues, q, Without(q, Waiting(q)))
      BY <1>12 DEF Drain, Goto
    <2>2. /\ \A p : p # q => Kept(p)
          /\ Numbers(EntriesIn(queues', q)) = Numbers(EntriesIn(queues, q)) \ Waiting(q)
          /\ Ascending(EntriesIn(queues, q)) => Ascending(EntriesIn(queues', q))
      BY <2>1, WithoutQueue
    <2>3. OnlyOf(q)
      BY <1>1, <2>1, <2>2 DEF OnlyOf, Types
    <2>4. phase'[q] = "halting" /\ phase'[q] \notin InLoop
      BY <1>1, <2>1 DEF InLoop, Types
    <2>5. ResultsOf(q)'
      BY <1>1, <2>1, <2>2, <2>4, ResultsFewer
    <2>6. QED
      BY <1>1, <2>3, <2>5, ResultsOthers
  <1>13. ASSUME NEW q \in Queue, Halted(q) PROVE ResultInv'
    <2>1. /\ UNCHANGED <<next, have_urls, delivered, todo>>
          /\ phase' = [phase EXCEPT ![q] = "done"]
          /\ queues' = Only(queues, {i \in DOMAIN queues : queues[i].name # q})
      BY <1>13 DEF Halted, Goto
    <2>2. /\ \A p : Named(queues', p) <=> (Named(queues, p) /\ p # q)
          /\ \A p : p # q => EntriesIn(queues', p) = EntriesIn(queues, p)
          /\ EntriesIn(queues', q) = <<>>
      BY <2>1, DeletedQueue DEF SlotInv, PoolInv
    <2>3. OnlyOf(q)
      BY <1>1, <2>1, <2>2, SameItself DEF OnlyOf, Kept, Types
    <2>4. phase'[q] = "done" /\ phase'[q] \notin InLoop
      BY <1>1, <2>1 DEF InLoop, Types
    <2>5. Numbers(EntriesIn(queues', q)) = {} /\ Ascending(EntriesIn(queues', q))
      BY <2>2 DEF Numbers, Ascending
    <2>6. ResultsOf(q)'
      BY <1>1, <2>1, <2>2, <2>4, <2>5, ResultsFewer
    <2>7. QED
      BY <1>1, <2>3, <2>6, ResultsOthers
  <1>14. ASSUME \A p : Kept(p),
                UNCHANGED <<next, have_urls, todo, delivered, phase>>
         PROVE  ResultInv'
    <2>1. \A q \in Queue : ResultsOf(q)'
      BY <1>1, <1>14, ResultsMoved
    <2>2. QED
      BY <2>1 DEF ResultInv
  <1>15. ASSUME NEW q \in Queue, RequestEnds(q) PROVE ResultInv'
    <2>1. \A p : Kept(p)
      BY <1>15, RequestEndsQueue
    <2>2. QED
      BY <1>14, <1>15, <2>1 DEF RequestEnds, workers
  <1>16. ASSUME CoolOff PROVE ResultInv'
    <2>1. \A p : Kept(p)
      BY <1>16, CoolOffPool
    <2>2. QED
      BY <1>14, <1>16, <2>1 DEF CoolOff, workers
  <1>17. ASSUME ChangeSettings \/ UNCHANGED vars PROVE ResultInv'
    <2>1. UNCHANGED <<queues, next, have_urls, todo, delivered, phase>>
      BY <1>17 DEF ChangeSettings, handler, workers, vars
    <2>2. QED
      BY <1>14, <2>1, AllKept
  <1>18. QED
    BY <1>2, <1>3, <1>4, <1>5, <1>6, <1>8, <1>9, <1>10, <1>11, <1>12, <1>13,
       <1>15, <1>16, <1>17 DEF Next, Work

LEMMA ResultsInvariant == Spec => []ResultInv
  <1>1. Init => ResultInv
    BY ResultsInit
  <1>2. SlotInv /\ SlotInv' /\ ResultInv /\ [Next]_vars => ResultInv'
    BY ResultsStep
  <1>3. QED
    BY <1>1, <1>2, SlotsInvariant, PTL DEF Spec

LEMMA ResultsOnce == SlotInv /\ ResultInv => EachResultOnce
  <1> SUFFICES ASSUME SlotInv, ResultInv, NEW q \in Queue
               PROVE  /\ q \in Ordered => \A i \in DOMAIN delivered[q] : delivered[q][i] = i
                      /\ Len(delivered[q]) = Cardinality(ToSet(delivered[q]))
                      /\ phase[q] = "done" /\ q \in Queues /\ q \notin Abandoner =>
                            1..Urls[q] \subseteq ToSet(delivered[q])
    BY DEF EachResultOnce
  <1>1. ResultsOf(q) /\ delivered[q] \in Seq(Url)
    BY DEF ResultInv, SlotInv, Types
  <1>2. q \in Ordered => \A i \in DOMAIN delivered[q] : delivered[q][i] = i
    BY <1>1 DEF ResultsOf, InOrder
  <1>3. Len(delivered[q]) = Cardinality(ToSet(delivered[q]))
    <2> DEFINE d == delivered[q]
               n == Len(d)
    <2>1. n \in Nat /\ DOMAIN d = 1..n /\ d = [i \in 1..n |-> d[i]]
      BY <1>1
    <2>2. \A i, j \in 1..n : d[i] = d[j] => i = j
      BY <1>1, <2>1 DEF ResultsOf
    <2>3. ToSet(d) = {d[i] : i \in 1..n}
      BY <2>1 DEF ToSet
    <2> HIDE DEF n, d
    <2>4. Cardinality({d[i] : i \in 1..n}) = n
      BY <2>1, <2>2, DistinctElements
    <2>5. QED
      BY <2>3, <2>4 DEF n, d
  <1>4. phase[q] = "done" /\ q \in Queues /\ q \notin Abandoner =>
            1..Urls[q] \subseteq ToSet(delivered[q])
    BY <1>1, EntriesIs DEF ResultsOf
  <1>5. QED
    BY <1>2, <1>3, <1>4

\* EachResultOnce: iterate_proxied_requests() and get_results() give a processor
\* no result twice, those in order without a gap, and all when it is through,
\* whatever its requests, the others' and the proxies do.
THEOREM ResultsDelivered == Spec => []EachResultOnce
  BY SlotsInvariant, ResultsInvariant, ResultsOnce, PTL

\* NothingLeftBehind: a processor that has ended and still has a URL in the queue
\* that the handler would request is one that stops early without calling
\* flush_proxied_requests(), whatever processors there are beside it.
THEOREM QueuesEndEmpty == Spec => []NothingLeftBehind
  <1>1. ResultInv => NothingLeftBehind
    <2> SUFFICES ASSUME ResultInv, NEW q \in Queue,
                        phase[q] = "done", q \notin Abandoner
                 PROVE  Entries(q) = <<>>
      BY DEF NothingLeftBehind
    <2>1. EntriesIn(queues, q) = <<>>
      BY DEF ResultInv, ResultsOf
    <2>2. QED
      BY <2>1, EntriesIs
  <1>2. QED
    BY <1>1, ResultsInvariant, PTL

=============================================================================
