--------------------------- MODULE RegistryProofs ---------------------------
(***************************************************************************)
(* The registry of clients, for any credentials, requests and limits: the  *)
(* shared budgets are exact, requests of a credential share a client, and no *)
(* eviction loses a cooldown or is in vain.                                *)
(*                                                                         *)
(* The slots of the clients are a sum, as the reservations of the bodies are; *)
(* the order of use is filtered, which is shown with a least counterexample *)
(* (LeastOf).                                                              *)
(***************************************************************************)
EXTENDS ClientRegistry, DataProofs

\* The provers, and the time each is given for a leaf.
USE ZenonT(10), SMTT(30)

\* Of some numbers up to a bound one is the least.
LEMMA LeastOf ==
  ASSUME NEW n \in Nat, NEW B \in SUBSET (0..n), B # {}
  PROVE  \E m \in B : \A k \in B : m <= k
<1> DEFINE C == {0..m : m \in B}
<1>1. PICK D : D = 0..n
  OBVIOUS
<1>2. PICK t \in C : \A u \in C : u \subseteq t => u = t
  <2>1. IsFiniteSet(D)
    BY <1>1, FS_Interval
  <2>2. C # {} /\ \A u \in C : u \subseteq D
    <3>1. \A m \in B : 0..m \subseteq D
      BY <1>1
    <3>2. \A u \in C : u \subseteq D
      BY <3>1, Zenon
    <3> QED BY <3>2
  <2> HIDE DEF C
  <2>3. C \in SUBSET (SUBSET D)
    BY <2>2
  <2> QED BY <2>1, <2>2, <2>3, SmallestSet
<1>3. PICK m \in B : t = 0..m
  BY <1>2
<1>4. ASSUME NEW k \in B, ~(m <= k)
      PROVE  FALSE
  <2>1. 0..k \in C /\ 0..k \subseteq 0..m
    BY <1>4
  <2>2. 0..k = 0..m
    BY <1>2, <1>3, <2>1
  <2>3. m \in 0..m /\ m \notin 0..k
    BY <1>4
  <2> QED BY <2>2, <2>3
<1> QED BY <1>4

\* h[i] is the first i members of r without those in V.
Filters(h, r, V, n) ==
  h = [i \in 0..n |-> IF i = 0 THEN << >>
                      ELSE IF r[i] \in V THEN h[i - 1] ELSE Append(h[i - 1], r[i])]

\* Every sequence can be filtered.
LEMMA FilterExists ==
  ASSUME NEW S, NEW r \in Seq(S), NEW V
  PROVE  \E h : Filters(h, r, V, Len(r))
<1> DEFINE n == Len(r)
           B == {m \in 0..n : ~ \E h : Filters(h, r, V, m)}
<1>1. n \in Nat /\ n \in 0..n /\ B \in SUBSET (0..n)
  OBVIOUS
<1> SUFFICES ASSUME B # {} PROVE FALSE
  BY <1>1
<1>2. PICK m \in B : \A k \in B : m <= k
  <2> HIDE DEF B, n
  <2> QED BY <1>1, LeastOf
<1>3. m \in 0..n /\ ~ \E h : Filters(h, r, V, m)
  BY <1>2
<1>4. m # 0
  <2>1. Filters([i \in 0..0 |-> << >>], r, V, 0)
    BY DEF Filters
  <2> QED BY <1>3, <2>1
<1>5. m - 1 \in 0..n /\ m - 1 \notin B
  BY <1>1, <1>2, <1>3, <1>4
<1>6. PICK h : Filters(h, r, V, m - 1)
  BY <1>5
<1> DEFINE last == IF r[m] \in V THEN h[m - 1] ELSE Append(h[m - 1], r[m])
           g == [i \in 0..m |-> IF i = m THEN last ELSE h[i]]
<1>7. \A i \in 0..(m - 1) : h[i] = IF i = 0 THEN << >>
                                  ELSE IF r[i] \in V THEN h[i - 1] ELSE Append(h[i - 1], r[i])
  BY <1>6, Zenon DEF Filters
<1>8. \A i \in 0..m : g[i] = IF i = 0 THEN << >>
                            ELSE IF r[i] \in V THEN g[i - 1] ELSE Append(g[i - 1], r[i])
  <2> TAKE i \in 0..m
  <2>1. CASE i = m
    <3>1. g[i] = last /\ g[i - 1] = h[m - 1]
      <4> HIDE DEF last
      <4> QED BY <1>3, <1>4, <2>1
    <3> QED BY <1>4, <2>1, <3>1
  <2>2. CASE i # m
    <3>1. i \in 0..(m - 1) /\ g[i] = h[i] /\ (i # 0 => g[i - 1] = h[i - 1])
      <4> HIDE DEF last
      <4> QED BY <1>3, <2>2
    <3> HIDE DEF g
    <3> QED BY <1>7, <3>1
  <2> QED BY <2>1, <2>2
<1>9. Filters(g, r, V, m)
  <2>1. g = [i \in 0..m |-> g[i]]
    <3> HIDE DEF last
    <3> QED OBVIOUS
  <2> HIDE DEF g
  <2>2. [i \in 0..m |-> g[i]] =
        [i \in 0..m |-> IF i = 0 THEN << >>
                        ELSE IF r[i] \in V THEN g[i - 1] ELSE Append(g[i - 1], r[i])]
    BY <1>8
  <2>3. g = [i \in 0..m |-> IF i = 0 THEN << >>
                            ELSE IF r[i] \in V THEN g[i - 1] ELSE Append(g[i - 1], r[i])]
    BY <2>1, <2>2, Zenon
  <2> QED BY <2>3 DEF Filters
<1> HIDE DEF g
<1> QED BY <1>3, <1>9

\* s is the first n members of r without those in V, each of them once.
Filtered(s, S, r, V, n) ==
  /\ s \in Seq(S)
  /\ \A k \in 1..Len(s) : \E i \in 1..n : r[i] \notin V /\ s[k] = r[i]
  /\ \A i \in 1..n : r[i] \notin V => \E k \in 1..Len(s) : s[k] = r[i]
  /\ \A k, l \in 1..Len(s) : s[k] = s[l] => k = l
  /\ Len(s) = n - Cardinality({r[i] : i \in 1..n} \cap V)
  /\ IsFiniteSet({r[i] : i \in 1..n})

\* What remains of r without V is in the order of r, has no member of V and every
\* other member of r, and is shorter by as many as were taken out.
LEMMA FilterFacts ==
  ASSUME NEW S, NEW r \in Seq(S), NEW V, NEW h, Filters(h, r, V, Len(r)),
         \A i, j \in 1..Len(r) : r[i] = r[j] => i = j
  PROVE  \A n \in 0..Len(r) : Filtered(h[n], S, r, V, n)
<1> DEFINE Gone(n) == {r[i] : i \in 1..n} \cap V
           Good(n) ==
             /\ h[n] \in Seq(S)
             /\ \A k \in 1..Len(h[n]) : \E i \in 1..n : r[i] \notin V /\ h[n][k] = r[i]
             /\ \A i \in 1..n : r[i] \notin V => \E k \in 1..Len(h[n]) : h[n][k] = r[i]
             /\ \A k, l \in 1..Len(h[n]) : h[n][k] = h[n][l] => k = l
             /\ Len(h[n]) = n - Cardinality(Gone(n))
             /\ IsFiniteSet({r[i] : i \in 1..n})
           B == {n \in 0..Len(r) : ~Good(n)}
<1>1. Len(r) \in Nat /\ B \in SUBSET (0..Len(r))
  <2> HIDE DEF Good
  <2> QED OBVIOUS
<1>2. ASSUME B # {} PROVE FALSE
  <2>1. PICK m \in B : \A k \in B : m <= k
    <3> HIDE DEF B
    <3> QED BY <1>1, <1>2, LeastOf
  <2>2. m \in 0..Len(r) /\ ~Good(m)
    <3> HIDE DEF Good
    <3> QED BY <2>1
  <2>3. h[m] = IF m = 0 THEN << >>
               ELSE IF r[m] \in V THEN h[m - 1] ELSE Append(h[m - 1], r[m])
    BY <2>2, Zenon DEF Filters
  <2>4. CASE m = 0
    <3>1. h[m] = << >> /\ {r[i] : i \in 1..m} = {}
      BY <2>3, <2>4
    <3>2. IsFiniteSet({r[i] : i \in 1..m}) /\ Cardinality(Gone(m)) = 0
      BY <3>1, FS_EmptySet
    <3>3. Good(m)
      <4> HIDE DEF Gone
      <4> QED BY <2>4, <3>1, <3>2
    <3> HIDE DEF Good
    <3> QED BY <2>2, <3>3
  <2>5. CASE m # 0
    <3>1. m - 1 \in 0..Len(r) /\ m \in 1..Len(r) /\ m - 1 \notin B
      <4> HIDE DEF B
      <4> QED BY <1>1, <2>1, <2>2, <2>5
    <3>2. Good(m - 1)
      <4> HIDE DEF Good
      <4> QED BY <3>1
    <3>3. PICK p : p = {r[i] : i \in 1..(m - 1)}
      OBVIOUS
    <3>4. {r[i] : i \in 1..m} = p \cup {r[m]} /\ r[m] \notin p /\ r[m] \in S
      BY <3>1, <3>3
    <3>5. IsFiniteSet(p) /\ IsFiniteSet(p \cup {r[m]}) /\ IsFiniteSet(p \cap V)
      <4>1. IsFiniteSet(p)
        BY <3>2, <3>3, Zenon
      <4> HIDE DEF Good
      <4> QED BY <4>1, FS_AddElement, FS_Intersection
    <3>6. CASE r[m] \in V
      <4>1. h[m] = h[m - 1]
        BY <2>3, <2>5, <3>6
      <4>2. Cardinality((p \cup {r[m]}) \cap V) = Cardinality(p \cap V) + 1
        <5>1. (p \cup {r[m]}) \cap V = (p \cap V) \cup {r[m]} /\ r[m] \notin p \cap V
          BY <3>4, <3>6
        <5> QED BY <3>5, <5>1, FS_AddElement
      <4>3. Cardinality(p \cap V) \in Nat
        BY <3>5, FS_CardinalityType
      <4>4. Len(h[m]) = m - Cardinality(Gone(m))
        <5>1. Len(h[m - 1]) = m - 1 - Cardinality(p \cap V)
          BY <3>2, <3>3
        <5>2. Gone(m) = (p \cup {r[m]}) \cap V
          BY <3>4
        <5> HIDE DEF Gone
        <5> QED BY <3>1, <4>1, <4>2, <4>3, <5>1, <5>2
      <4>5. /\ h[m] \in Seq(S)
            /\ \A k \in 1..Len(h[m]) : \E i \in 1..m : r[i] \notin V /\ h[m][k] = r[i]
            /\ \A k, l \in 1..Len(h[m]) : h[m][k] = h[m][l] => k = l
        BY <3>1, <3>2, <4>1
      <4>6. \A i \in 1..m : r[i] \notin V => \E k \in 1..Len(h[m]) : h[m][k] = r[i]
        <5> TAKE i \in 1..m
        <5> HAVE r[i] \notin V
        <5>1. i \in 1..(m - 1)
          BY <3>1, <3>6
        <5>2. PICK k \in 1..Len(h[m - 1]) : h[m - 1][k] = r[i]
          BY <3>2, <5>1
        <5> QED BY <4>1, <5>2
      <4>7. Good(m)
        BY <3>4, <3>5, <4>4, <4>5, <4>6, Zenon
      <4> HIDE DEF Good
      <4> QED BY <2>2, <4>7
    <3>7. CASE r[m] \notin V
      <4>1. h[m] = Append(h[m - 1], r[m])
        BY <2>3, <2>5, <3>7
      <4>2. /\ h[m] \in Seq(S) /\ Len(h[m]) = Len(h[m - 1]) + 1
            /\ h[m][Len(h[m])] = r[m] /\ Len(h[m - 1]) \in Nat
            /\ \A k \in 1..Len(h[m - 1]) : h[m][k] = h[m - 1][k]
        <5>1. PICK g : g = h[m - 1]
          OBVIOUS
        <5>2. PICK e : e = r[m]
          OBVIOUS
        <5>3. g \in Seq(S) /\ e \in S /\ h[m] = Append(g, e)
          BY <3>2, <3>4, <4>1, <5>1, <5>2
        <5>4. /\ Append(g, e) \in Seq(S) /\ Len(Append(g, e)) = Len(g) + 1
              /\ Append(g, e)[Len(g) + 1] = e /\ Len(g) \in Nat
              /\ \A k \in 1..Len(g) : Append(g, e)[k] = g[k]
          <6> HIDE DEF Good
          <6> QED BY <5>3
        <5> HIDE DEF Good
        <5> QED BY <5>1, <5>2, <5>3, <5>4
      <4>3. Len(h[m]) = m - Cardinality(Gone(m))
        <5>1. Gone(m) = p \cap V /\ Gone(m - 1) = p \cap V
          BY <3>3, <3>4, <3>7
        <5>2. Len(h[m - 1]) = m - 1 - Cardinality(Gone(m - 1))
          BY <3>2
        <5>3. Cardinality(p \cap V) \in Nat
          BY <3>5, FS_CardinalityType
        <5> HIDE DEF Gone, Good
        <5>4. Cardinality(Gone(m)) = Cardinality(Gone(m - 1))
          BY <5>1, Zenon
        <5>5. Cardinality(Gone(m - 1)) \in Nat
          BY <5>1, <5>3, Zenon
        <5> QED BY <3>1, <4>2, <5>2, <5>4, <5>5
      <4>4. \A k \in 1..Len(h[m]) : \E i \in 1..m : r[i] \notin V /\ h[m][k] = r[i]
        <5> TAKE k \in 1..Len(h[m])
        <5>1. CASE k = Len(h[m])
          BY <3>1, <3>7, <4>2, <5>1
        <5>2. CASE k # Len(h[m])
          <6>1. k \in 1..Len(h[m - 1]) /\ h[m][k] = h[m - 1][k]
            BY <4>2, <5>2
          <6>2. PICK i \in 1..(m - 1) : r[i] \notin V /\ h[m - 1][k] = r[i]
            BY <3>2, <6>1
          <6> QED BY <3>1, <6>1, <6>2
        <5> QED BY <5>1, <5>2
      <4>5. \A i \in 1..m : r[i] \notin V => \E k \in 1..Len(h[m]) : h[m][k] = r[i]
        <5> TAKE i \in 1..m
        <5> HAVE r[i] \notin V
        <5>1. CASE i = m
          BY <4>2, <5>1
        <5>2. CASE i # m
          <6>1. i \in 1..(m - 1)
            BY <3>1, <5>2
          <6>2. PICK k \in 1..Len(h[m - 1]) : h[m - 1][k] = r[i]
            BY <3>2, <6>1
          <6> QED BY <4>2, <6>2
        <5> QED BY <5>1, <5>2
      <4>6. \A k, l \in 1..Len(h[m]) : h[m][k] = h[m][l] => k = l
        <5>1. \A k \in 1..Len(h[m - 1]) : h[m][k] # r[m]
          <6> TAKE k \in 1..Len(h[m - 1])
          <6>1. PICK i \in 1..(m - 1) : h[m - 1][k] = r[i]
            BY <3>2
          <6> QED BY <3>1, <4>2, <6>1
        <5>2. \A k \in 1..Len(h[m]) : k \in 1..Len(h[m - 1]) \/ k = Len(h[m])
          BY <4>2
        <5>3. \A k, l \in 1..Len(h[m - 1]) : h[m - 1][k] = h[m - 1][l] => k = l
          BY <3>2
        <5> QED BY <4>2, <5>1, <5>2, <5>3
      <4>7. Good(m)
        BY <3>4, <3>5, <4>2, <4>3, <4>4, <4>5, <4>6, Zenon
      <4> HIDE DEF Good
      <4> QED BY <2>2, <4>7
    <3> QED BY <3>6, <3>7
  <2> QED BY <2>4, <2>5
<1>3. \A n \in 0..Len(r) : Good(n)
  <2> HIDE DEF Good
  <2> QED BY <1>2
<1> QED BY <1>3, Zenon DEF Filtered

\* The clients by use without V: in the order they were in, every one once, and
\* fewer by those of V (evictOldestIdle and sweepClients delete from the maps).
LEMMA RemainingFacts ==
  ASSUME recency \in Seq(States), NEW V,
         \A i, j \in DOMAIN recency : recency[i] = recency[j] => i = j
  PROVE  /\ Remaining(V) \in Seq(States)
         /\ \A i, j \in DOMAIN Remaining(V) : Remaining(V)[i] = Remaining(V)[j] => i = j
         /\ Range(Remaining(V)) = Range(recency) \ V
         /\ Len(Remaining(V)) = Len(recency) - Cardinality(Range(recency) \cap V)
         /\ IsFiniteSet(Range(recency))
<1>1. PICK r : r = recency
  OBVIOUS
<1>2. PICK h : h = CHOOSE g : Filters(g, r, V, Len(r))
  OBVIOUS
<1>3. r \in Seq(States) /\ DOMAIN r = 1..Len(r) /\ Len(r) \in Nat
      /\ \A i, j \in 1..Len(r) : r[i] = r[j] => i = j
  BY <1>1
<1>4. Filters(h, r, V, Len(r))
  <2>1. \E g : Filters(g, r, V, Len(r))
    BY <1>3, FilterExists
  <2> QED BY <1>2, <2>1
<1>5. PICK s : s = h[Len(r)]
  OBVIOUS
<1>6. Remaining(V) = s
  BY <1>1, <1>2, <1>5 DEF Remaining, Filters
<1>7. Filtered(s, States, r, V, Len(r))
  <2>1. Len(r) \in 0..Len(r)
    BY <1>3
  <2> QED BY <1>3, <1>4, <1>5, <2>1, FilterFacts
<1>8. s \in Seq(States) /\ DOMAIN s = 1..Len(s)
  BY <1>7 DEF Filtered
<1>9. Range(r) = {r[i] : i \in 1..Len(r)} /\ Range(s) = {s[i] : i \in 1..Len(s)}
  BY <1>3, <1>8 DEF Range
<1>10. Range(s) = Range(r) \ V
  <2>1. Range(s) \subseteq Range(r) \ V
    <3> SUFFICES ASSUME NEW x \in Range(s) PROVE x \in Range(r) \ V
      OBVIOUS
    <3>1. PICK k \in 1..Len(s) : x = s[k]
      BY <1>9
    <3>2. PICK i \in 1..Len(r) : r[i] \notin V /\ s[k] = r[i]
      BY <1>7, <3>1 DEF Filtered
    <3> QED BY <1>9, <3>1, <3>2
  <2>2. Range(r) \ V \subseteq Range(s)
    <3> SUFFICES ASSUME NEW x \in Range(r) \ V PROVE x \in Range(s)
      OBVIOUS
    <3>1. PICK i \in 1..Len(r) : x = r[i]
      BY <1>9
    <3>2. PICK k \in 1..Len(s) : s[k] = r[i]
      BY <1>7, <3>1 DEF Filtered
    <3> QED BY <1>9, <3>1, <3>2
  <2> QED BY <2>1, <2>2
<1>11. Len(s) = Len(r) - Cardinality(Range(r) \cap V) /\ IsFiniteSet(Range(r))
  BY <1>7, <1>9, Zenon DEF Filtered
<1>12. \A i, j \in DOMAIN s : s[i] = s[j] => i = j
  BY <1>7, <1>8 DEF Filtered
<1> QED BY <1>1, <1>6, <1>8, <1>10, <1>11, <1>12

\* No more clients are among the first n by use than n.
LEMMA AgedCount ==
  ASSUME recency \in Seq(States), NEW n \in 0..Len(recency), NEW V,
         \A s \in V : \E i \in 1..n : recency[i] = s
  PROVE  IsFiniteSet(V) /\ Cardinality(V) <= n /\ Cardinality(V) \in Nat
         /\ V \subseteq Range(recency)
<1>1. PICK r : r = recency
  OBVIOUS
<1> DEFINE T == {r[i] : i \in 1..n}
           f == [i \in 1..n |-> r[i]]
<1>2. IsFiniteSet(1..n) /\ Cardinality(1..n) = n /\ n \in Nat
  BY FS_Interval
<1>3. f \in Surjection(1..n, T)
  BY DEF Surjection
<1>4. IsFiniteSet(T) /\ Cardinality(T) <= n
  <2> HIDE DEF f, T
  <2>1. IsFiniteSet(T) /\ Cardinality(T) <= Cardinality(1..n)
    BY <1>2, <1>3, FS_Surjection
  <2> QED BY <1>2, <2>1
<1>5. V \in SUBSET T
  BY <1>1
<1>6. IsFiniteSet(V) /\ Cardinality(V) <= Cardinality(T)
      /\ Cardinality(V) \in Nat /\ Cardinality(T) \in Nat
  <2> HIDE DEF T
  <2> QED BY <1>4, <1>5, FS_Subset, FS_CardinalityType
<1>7. V \subseteq Range(recency)
  BY DEF Range
<1> HIDE DEF T
<1> QED BY <1>2, <1>4, <1>6, <1>7

\* evictOldestIdle returns a client of C long unused, not in use and not in a
\* cooldown, or none.
LEMMA OldestIdleFacts ==
  ASSUME aged \in Nat, NEW C, NEW gone
  PROVE  \/ OldestIdle(C, gone) = {}
         \/ \E i \in 1..aged : /\ OldestIdle(C, gone) = {recency[i]} /\ Idle(i)
                               /\ recency[i] \in Clients(C) \ gone
<1> DEFINE S == {i \in 1..aged : Idle(i) /\ recency[i] \in Clients(C) \ gone}
<1>1. OldestIdle(C, gone) = IF S = {} THEN {} ELSE {recency[Min(S)]}
  BY DEF OldestIdle
<1>2. ASSUME S # {} PROVE Min(S) \in S
  <2>1. S \in SUBSET (0..aged)
    OBVIOUS
  <2>2. \E m \in S : \A k \in S : m <= k
    <3> HIDE DEF S
    <3> QED BY <1>2, <2>1, LeastOf
  <2> HIDE DEF S
  <2> QED BY <2>2 DEF Min
<1>3. CASE S = {}
  BY <1>1, <1>3
<1>4. CASE S # {}
  <2>1. PICK i : i = Min(S)
    OBVIOUS
  <2>2. i \in 1..aged /\ Idle(i) /\ recency[i] \in Clients(C) \ gone
    BY <1>2, <1>4, <2>1
  <2>3. OldestIdle(C, gone) = {recency[i]}
    BY <1>1, <1>4, <2>1
  <2> QED BY <2>2, <2>3
<1> QED BY <1>3, <1>4

\* The part of the invariant about requests: their places in flight and their uses.
Admitted ==
  /\ phase \in [Requests -> {"out", "route", "using", "ending"}]
  /\ cred \in [Requests -> Creds]
  /\ holds \in [Requests -> States \cup {NoClient}]
  /\ inUse \in [States -> Nat] /\ inFlight \in Nat
  /\ InFlightExact /\ UsesCounted

\* The part about the registered clients and their order.
Ordered ==
  /\ table \in [Keys -> States \cup {NoClient}]
  /\ recency \in Seq(States) /\ aged \in 0..Len(recency)
  /\ RecencyKept /\ ClientsBounded

\* The part about slots.
Slotted ==
  entries \in [States -> Nat] /\ slots \in Nat /\ slots = Total(entries, States)

\* The part about what is registered and what it is needed for.
Registered ==
  /\ noAuth \in {NoAuth, NoClient} /\ cooling \subseteq States /\ snapshot \subseteq States
  /\ done \in BOOLEAN /\ closing \in {"no", "started", "forgotten"}
  /\ sweepLoop \in {"select", "sweeping", "exited"}
  /\ closing = "no" <=> ~done
  /\ OneClientPerCredential /\ CooldownsRemembered /\ NothingAfterClose
  /\ closing # "forgotten" =>
       \A s \in States : entries[s] > 0 => s \in Clients(Keys) \cup {noAuth}

RegistryParts == Admitted /\ Ordered /\ Slotted /\ Registered

\* The invariant has four parts.
LEMMA RegistryInvParts == RegistryInv <=> RegistryParts
<1>1. slots = Total(entries, States) <=> slots = MapThenSumSet(LAMBDA s : entries[s], States)
  BY DEF Total
<1>2. RegistryInv => RegistryParts
  BY <1>1 DEF RegistryInv, RegistryParts, CountsExact, RegistryTypeOK, SlotsExact, Admitted,
              Ordered, Slotted, Registered
<1>3. RegistryParts => RegistryInv
  BY <1>1 DEF RegistryInv, RegistryParts, CountsExact, RegistryTypeOK, SlotsExact, Admitted,
              Ordered, Slotted, Registered
<1> QED BY <1>2, <1>3

\* The requests that have a place in flight.
InFlightNow == {q \in Requests : phase[q] \in {"route", "using", "ending"}}

\* A step that moves no request keeps the counts of requests.
LEMMA AdmittedSame ==
  ASSUME Admitted, UNCHANGED <<phase, cred, holds, inUse, inFlight>>
  PROVE  Admitted'
BY DEF Admitted, InFlightExact, UsesCounted, Users

\* A request that finds a place in flight is counted in.
LEMMA AdmittedArrive ==
  ASSUME Admitted, NEW q \in Requests, NEW c \in Creds, Arrive(q, c)
  PROVE  Admitted'
<1>1. /\ phase' = [phase EXCEPT ![q] = "route"] /\ phase[q] = "out"
      /\ inFlight' = inFlight + 1 /\ inFlight < MaxInFlightRequests
      /\ UNCHANGED <<holds, inUse>> /\ cred' = [cred EXCEPT ![q] = c]
  BY DEF Arrive, Proceed, registry
<1>2. InFlightNow' = InFlightNow \cup {q} /\ q \notin InFlightNow
  BY <1>1 DEF Admitted, InFlightNow
<1>3. IsFiniteSet(InFlightNow) /\ inFlight = Cardinality(InFlightNow)
  BY RegistryAssumption, FS_Subset DEF Admitted, InFlightExact, InFlightNow
<1>4. inFlight' = Cardinality(InFlightNow')
  BY <1>1, <1>2, <1>3, FS_AddElement
<1>5. InFlightExact'
  BY <1>1, <1>4, RegistryAssumption DEF Admitted, InFlightExact, InFlightNow
<1>6. \A s \in States : Users(s)' = Users(s)
  BY <1>1 DEF Admitted, Users
<1>7. UsesCounted'
  BY <1>1, <1>6 DEF Admitted, UsesCounted
<1> QED BY <1>1, <1>5, <1>7 DEF Admitted

\* A request that returns gives its place back, and used no client any more.
LEMMA AdmittedDepart ==
  ASSUME Admitted, NEW q \in Requests, phase[q] \in {"route", "ending"}, Depart(q),
         NEW s \in States \cup {NoClient}, holds' = [holds EXCEPT ![q] = s], UNCHANGED inUse
  PROVE  Admitted'
<1>1. /\ phase' = [phase EXCEPT ![q] = "out"] /\ inFlight' = inFlight - 1
      /\ cred' = [cred EXCEPT ![q] = Anon]
  BY DEF Depart, Proceed
<1>2. InFlightNow' = InFlightNow \ {q} /\ q \in InFlightNow
  BY <1>1 DEF Admitted, InFlightNow
<1>3. /\ IsFiniteSet(InFlightNow) /\ IsFiniteSet(InFlightNow')
      /\ inFlight = Cardinality(InFlightNow)
      /\ inFlight \in Nat /\ inFlight <= MaxInFlightRequests
  BY <1>2, RegistryAssumption, FS_Subset DEF Admitted, InFlightExact, InFlightNow
<1>4. inFlight' = Cardinality(InFlightNow') /\ inFlight' \in Nat
  <2>1. Cardinality(InFlightNow \ {q}) = Cardinality(InFlightNow) - 1
    BY <1>2, <1>3, FS_RemoveElement
  <2>2. Cardinality(InFlightNow \ {q}) \in Nat
    BY <1>2, <1>3, FS_CardinalityType
  <2> QED BY <1>1, <1>2, <1>3, <2>1, <2>2
<1>5. InFlightExact'
  BY <1>1, <1>3, <1>4, RegistryAssumption DEF InFlightExact, InFlightNow
<1>6. \A r \in States : Users(r)' = Users(r)
  BY <1>1 DEF Admitted, Users
<1>7. UsesCounted'
  BY <1>1, <1>6 DEF Admitted, UsesCounted
<1>8. cred' \in [Requests -> Creds]
  BY <1>1 DEF Admitted, Creds
<1> QED BY <1>1, <1>4, <1>5, <1>7, <1>8 DEF Admitted

\* begin counts the use of s that starts.
LEMMA AdmittedBegin ==
  ASSUME Admitted, NEW q \in Requests, phase[q] = "route", NEW s \in States, Begin(q, s),
         UNCHANGED <<cred, inFlight>>
  PROVE  Admitted'
<1>1. /\ phase' = [phase EXCEPT ![q] = "using"] /\ holds' = [holds EXCEPT ![q] = s]
      /\ inUse' = [inUse EXCEPT ![s] = @ + 1]
  BY DEF Begin, Proceed
<1>2. InFlightNow' = InFlightNow
  BY <1>1 DEF Admitted, InFlightNow
<1>3. InFlightExact'
  BY <1>2 DEF Admitted, InFlightExact, InFlightNow
<1>4. /\ Users(s)' = Users(s) \cup {q} /\ q \notin Users(s)
      /\ \A r \in States \ {s} : Users(r)' = Users(r)
  BY <1>1 DEF Admitted, Users
<1>5. IsFiniteSet(Users(s))
  BY RegistryAssumption, FS_Subset DEF Users
<1>6. Cardinality(Users(s)') = Cardinality(Users(s)) + 1
  BY <1>4, <1>5, FS_AddElement
<1>7. \A r \in States : inUse'[r] = Cardinality(Users(r)')
  BY <1>1, <1>4, <1>6 DEF Admitted, UsesCounted
<1>8. UsesCounted'
  BY <1>1, <1>7 DEF Admitted, UsesCounted
<1> QED BY <1>1, <1>3, <1>8 DEF Admitted

\* end counts the use that ends.
LEMMA AdmittedEnd ==
  ASSUME Admitted, NEW q \in Requests, EndCount(q)
  PROVE  Admitted'
<1>1. PICK s : s = holds[q]
  OBVIOUS
<1>2. /\ phase[q] = "using" /\ phase' = [phase EXCEPT ![q] = "ending"] /\ s \in States
      /\ inUse' = [inUse EXCEPT ![s] = @ - 1] /\ UNCHANGED <<holds, cred, inFlight>>
  BY <1>1 DEF Admitted, UsesCounted, EndCount, Proceed
<1>3. InFlightNow' = InFlightNow
  BY <1>2 DEF Admitted, InFlightNow
<1>4. InFlightExact'
  BY <1>2, <1>3 DEF Admitted, InFlightExact, InFlightNow
<1>5. /\ Users(s)' = Users(s) \ {q} /\ q \in Users(s)
      /\ \A r \in States \ {s} : Users(r)' = Users(r)
  BY <1>1, <1>2 DEF Admitted, Users
<1>6. IsFiniteSet(Users(s)) /\ IsFiniteSet(Users(s) \ {q})
  BY RegistryAssumption, FS_Subset DEF Users
<1>7. Cardinality(Users(s)') = Cardinality(Users(s)) - 1 /\ Cardinality(Users(s)') \in Nat
  BY <1>5, <1>6, FS_RemoveElement, FS_CardinalityType
<1>8. /\ \A r \in States : inUse'[r] = Cardinality(Users(r)')
      /\ inUse' \in [States -> Nat]
  BY <1>2, <1>5, <1>7 DEF Admitted, UsesCounted
<1>9. UsesCounted'
  BY <1>2, <1>8 DEF Admitted, UsesCounted
<1> QED BY <1>2, <1>4, <1>8, <1>9 DEF Admitted

\* What evictOldestIdle and sweepClients may drop: clients long unused and idle.
Evictable(V) == \A s \in V : \E i \in 1..aged : recency[i] = s /\ Idle(i)

\* Clients that may be dropped are registered, in nobody's use and in no cooldown,
\* and the order without them is in order.
LEMMA EvictFacts ==
  ASSUME Admitted, Ordered, NEW V, Evictable(V)
  PROVE  /\ V \in SUBSET States /\ IsFiniteSet(V) /\ V \subseteq Clients(Keys)
         /\ V \cap cooling = {} /\ \A s \in V : Users(s) = {}
         /\ Remaining(V) \in Seq(States)
         /\ \A i, j \in DOMAIN Remaining(V) : Remaining(V)[i] = Remaining(V)[j] => i = j
         /\ Range(Remaining(V)) = Range(recency) \ V
         /\ aged - Cardinality(V) \in 0..Len(Remaining(V))
<1>1. recency \in Seq(States) /\ aged \in 0..Len(recency) /\ Len(recency) \in Nat
      /\ (\A i, j \in DOMAIN recency : recency[i] = recency[j] => i = j)
      /\ Range(recency) \subseteq Clients(Keys)
  BY DEF Ordered, RecencyKept
<1>2. \A s \in V : \E i \in 1..aged : recency[i] = s
  BY DEF Evictable
<1>3. IsFiniteSet(V) /\ Cardinality(V) <= aged /\ Cardinality(V) \in Nat
      /\ V \subseteq Range(recency)
  BY <1>1, <1>2, AgedCount
<1>4. V \in SUBSET States /\ V \subseteq Clients(Keys)
  BY <1>1, <1>2, <1>3
<1>5. V \cap cooling = {} /\ \A s \in V : inUse[s] = 0
  BY DEF Evictable, Idle
<1>6. ASSUME NEW s \in V PROVE Users(s) = {}
  <2>1. Cardinality(Users(s)) = 0
    BY <1>4, <1>5 DEF Admitted, UsesCounted
  <2>2. IsFiniteSet(Users(s))
    BY RegistryAssumption, FS_Subset DEF Users
  <2> QED BY <2>1, <2>2, FS_EmptySet
<1>7. /\ Remaining(V) \in Seq(States)
      /\ \A i, j \in DOMAIN Remaining(V) : Remaining(V)[i] = Remaining(V)[j] => i = j
      /\ Range(Remaining(V)) = Range(recency) \ V
      /\ Len(Remaining(V)) = Len(recency) - Cardinality(Range(recency) \cap V)
  BY <1>1, RemainingFacts
<1>8. Cardinality(Range(recency) \cap V) = Cardinality(V)
  <2>1. Range(recency) \cap V = V
    BY <1>3
  <2> QED BY <2>1, Zenon
<1>9. aged - Cardinality(V) \in 0..Len(Remaining(V))
  BY <1>1, <1>3, <1>7, <1>8
<1> QED BY <1>3, <1>4, <1>5, <1>6, <1>7, <1>9

\* The table without V has every other client.
LEMMA WithoutFacts ==
  ASSUME Ordered, NEW V
  PROVE  /\ TableWithout(V) \in [Keys -> States \cup {NoClient}]
         /\ \A c \in Keys : TableWithout(V)[c] = IF table[c] \in V THEN NoClient ELSE table[c]
         /\ {TableWithout(V)[c] : c \in Keys} \ {NoClient} = Clients(Keys) \ V
<1>1. \A c \in Keys : TableWithout(V)[c] = IF table[c] \in V THEN NoClient ELSE table[c]
  BY DEF TableWithout
<1>2. TableWithout(V) \in [Keys -> States \cup {NoClient}]
  BY DEF TableWithout, Ordered
<1>3. {TableWithout(V)[c] : c \in Keys} \ {NoClient} = Clients(Keys) \ V
  BY <1>1 DEF Clients
<1> QED BY <1>1, <1>2, <1>3

\* The registered clients are finitely many.
LEMMA ClientsFinite ==
  ASSUME Ordered, NEW D \in SUBSET Clients(Keys)
  PROVE  D \in SUBSET States /\ IsFiniteSet(D) /\ Cardinality(D) \in Nat
         /\ Cardinality(D) <= MaxClientStates
<1>1. Clients(Keys) \in SUBSET States
  BY DEF Ordered, Clients
<1>2. IsFiniteSet(Clients(Keys)) /\ D \in SUBSET States
  BY <1>1, RegistryAssumption, FS_Subset
<1>3. IsFiniteSet(D) /\ Cardinality(D) <= Cardinality(Clients(Keys))
  BY <1>2, FS_Subset
<1>4. Cardinality(D) \in Nat /\ Cardinality(Clients(Keys)) \in Nat
  BY <1>2, <1>3, FS_CardinalityType
<1> QED BY <1>2, <1>3, <1>4, RegistryAssumption DEF Ordered, ClientsBounded

\* A step that leaves the table and the order alone.
LEMMA OrderedSame ==
  ASSUME Ordered, UNCHANGED <<table, recency, aged>>
  PROVE  Ordered'
BY DEF Ordered, RecencyKept, ClientsBounded, Clients

\* Dropping idle clients from the table and from the order keeps them in step.
LEMMA OrderedEvict ==
  ASSUME Admitted, Ordered, NEW V, Evictable(V),
         table' = TableWithout(V), recency' = Remaining(V), aged' = aged - Cardinality(V)
  PROVE  Ordered' /\ Clients(Keys)' = Clients(Keys) \ V
<1>1. Clients(Keys)' = Clients(Keys) \ V /\ table' \in [Keys -> States \cup {NoClient}]
  BY WithoutFacts DEF Clients
<1>2. recency' \in Seq(States) /\ aged' \in 0..Len(recency')
      /\ (\A i, j \in DOMAIN recency' : recency'[i] = recency'[j] => i = j)
      /\ Range(recency') = Range(recency) \ V
  BY EvictFacts
<1>3. RecencyKept'
  BY <1>1, <1>2 DEF Ordered, RecencyKept
<1>4. ClientsBounded'
  <2>1. Cardinality(Clients(Keys) \ V) <= MaxClientStates
    BY ClientsFinite
  <2>2. Cardinality(Clients(Keys)') = Cardinality(Clients(Keys) \ V)
    BY <1>1, Zenon
  <2> QED BY <2>1, <2>2 DEF ClientsBounded
<1> QED BY <1>1, <1>2, <1>3, <1>4 DEF Ordered

\* A newcomer at the end of an order without repetitions.
LEMMA AppendFacts ==
  ASSUME NEW S, NEW k \in Seq(S), NEW e \in S, e \notin Range(k),
         \A i, j \in DOMAIN k : k[i] = k[j] => i = j
  PROVE  /\ Append(k, e) \in Seq(S) /\ Len(Append(k, e)) = Len(k) + 1
         /\ Range(Append(k, e)) = Range(k) \cup {e}
         /\ \A i, j \in DOMAIN Append(k, e) : Append(k, e)[i] = Append(k, e)[j] => i = j
<1>1. PICK a : a = Append(k, e)
  OBVIOUS
<1>2. a \in Seq(S) /\ Len(a) = Len(k) + 1 /\ Len(k) \in Nat
  BY <1>1
<1>3. DOMAIN a = 1..(Len(k) + 1) /\ DOMAIN k = 1..Len(k)
  BY <1>2
<1>4. a[Len(k) + 1] = e /\ \A i \in 1..Len(k) : a[i] = k[i]
  BY <1>1
<1>5. \A i \in DOMAIN a : i = Len(k) + 1 \/ i \in DOMAIN k
  BY <1>2, <1>3
<1>6. \A i \in DOMAIN k : i \in DOMAIN a /\ a[i] = k[i] /\ a[i] # e
  BY <1>2, <1>3, <1>4 DEF Range
<1>7. Len(k) + 1 \in DOMAIN a
  BY <1>2, <1>3
<1>8. \A i, j \in DOMAIN a : a[i] = a[j] => i = j
  BY <1>4, <1>5, <1>6
<1>9. Range(a) = Range(k) \cup {e}
  BY <1>4, <1>5, <1>6, <1>7 DEF Range
<1> QED BY <1>1, <1>2, <1>8, <1>9

\* touch moves a registered client to the end of the order.
LEMMA OrderedTouch ==
  ASSUME Ordered, NEW s \in Clients(Keys), Touch(s), UNCHANGED table
  PROVE  Ordered'
<1>1. recency \in Seq(States) /\ aged \in 0..Len(recency) /\ Len(recency) \in Nat
      /\ (\A i, j \in DOMAIN recency : recency[i] = recency[j] => i = j)
      /\ Range(recency) \subseteq Clients(Keys) /\ DOMAIN recency = 1..Len(recency)
  BY DEF Ordered, RecencyKept
<1>2. PICK k : k = Remaining({s})
  OBVIOUS
<1>3. /\ k \in Seq(States) /\ DOMAIN k = 1..Len(k) /\ Len(k) \in Nat
      /\ \A i, j \in DOMAIN k : k[i] = k[j] => i = j
      /\ Range(k) = Range(recency) \ {s}
      /\ Len(k) = Len(recency) - Cardinality(Range(recency) \cap {s})
      /\ IsFiniteSet(Range(recency))
  BY <1>1, <1>2, RemainingFacts
<1>4. s \in States
  BY ClientsFinite
<1>5. recency' = Append(k, s)
  BY <1>2 DEF Touch
<1>6. /\ recency' \in Seq(States) /\ Len(recency') = Len(k) + 1
      /\ Range(recency') = Range(k) \cup {s}
      /\ \A i, j \in DOMAIN recency' : recency'[i] = recency'[j] => i = j
  <2>1. s \notin Range(k)
    BY <1>3
  <2>2. k \in Seq(States) /\ \A i, j \in DOMAIN k : k[i] = k[j] => i = j
    BY <1>3
  <2> QED BY <1>4, <1>5, <2>1, <2>2, AppendFacts
<1>7. Range(recency') \subseteq Clients(Keys)
  BY <1>1, <1>3, <1>6
<1>8. aged' \in 0..Len(recency')
  <2>1. CASE s \in Range(recency)
    <3>1. Range(recency) \cap {s} = {s}
      BY <2>1
    <3>2. Cardinality(Range(recency) \cap {s}) = 1
      BY <3>1, FS_Singleton, Zenon
    <3>3. Len(recency') = Len(recency)
      BY <1>1, <1>3, <1>6, <3>2
    <3> QED BY <1>1, <3>3 DEF Touch
  <2>2. CASE s \notin Range(recency)
    <3>1. Range(recency) \cap {s} = {}
      BY <2>2
    <3>2. Cardinality(Range(recency) \cap {s}) = 0
      BY <3>1, FS_EmptySet, Zenon
    <3>3. Len(recency') = Len(recency) + 1
      BY <1>1, <1>3, <1>6, <3>2
    <3> QED BY <1>1, <3>3 DEF Touch
  <2> QED BY <2>1, <2>2
<1>9. Clients(Keys)' = Clients(Keys)
  BY DEF Clients
<1>10. RecencyKept' /\ ClientsBounded'
  BY <1>6, <1>7, <1>9 DEF Ordered, RecencyKept, ClientsBounded
<1> QED BY <1>6, <1>8, <1>10 DEF Ordered

\* client drops the idle clients V and enters s, the last by use, for c.
LEMMA OrderedNew ==
  ASSUME Admitted, Ordered, NEW V, Evictable(V), NEW c \in Keys, table[c] = NoClient,
         NEW s \in States \ Clients(Keys),
         Cardinality(Clients(Keys) \ V) < MaxClientStates,
         table' = [TableWithout(V) EXCEPT ![c] = s],
         recency' = Append(Remaining(V), s), aged' = aged - Cardinality(V)
  PROVE  Ordered' /\ Clients(Keys)' = (Clients(Keys) \ V) \cup {s}
<1>1. s # NoClient
  BY RegistryAssumption
<1>2. /\ TableWithout(V) \in [Keys -> States \cup {NoClient}] /\ TableWithout(V)[c] = NoClient
      /\ {TableWithout(V)[d] : d \in Keys} \ {NoClient} = Clients(Keys) \ V
  BY WithoutFacts
<1>3. table' \in [Keys -> States \cup {NoClient}]
      /\ table'[c] = s /\ \A d \in Keys \ {c} : table'[d] = TableWithout(V)[d]
  BY <1>2
<1>4. {table'[d] : d \in Keys} \ {NoClient}
        = ({TableWithout(V)[d] : d \in Keys} \ {NoClient}) \cup {s}
  BY <1>1, <1>2, <1>3
<1>5. Clients(Keys)' = (Clients(Keys) \ V) \cup {s}
  BY <1>2, <1>4 DEF Clients
<1>6. PICK k : k = Remaining(V)
  OBVIOUS
<1>7. /\ k \in Seq(States) /\ Len(k) \in Nat /\ aged - Cardinality(V) \in 0..Len(k)
      /\ \A i, j \in DOMAIN k : k[i] = k[j] => i = j
      /\ Range(k) = Range(recency) \ V
  BY <1>6, EvictFacts
<1>8. s \notin Range(k) /\ Range(k) \subseteq Clients(Keys) \ V
  BY <1>7 DEF Ordered, RecencyKept
<1>9. /\ recency' \in Seq(States) /\ Len(recency') = Len(k) + 1
      /\ Range(recency') = Range(k) \cup {s}
      /\ \A i, j \in DOMAIN recency' : recency'[i] = recency'[j] => i = j
  BY <1>6, <1>7, <1>8, AppendFacts
<1>10. aged' \in 0..Len(recency')
  BY <1>7, <1>9
<1>11. RecencyKept'
  BY <1>5, <1>8, <1>9 DEF RecencyKept
<1>12. ClientsBounded'
  <2>1. IsFiniteSet(Clients(Keys) \ V) /\ Cardinality(Clients(Keys) \ V) \in Nat
    BY ClientsFinite
  <2>2. Cardinality((Clients(Keys) \ V) \cup {s}) = Cardinality(Clients(Keys) \ V) + 1
    BY <2>1, FS_AddElement
  <2>3. Cardinality(Clients(Keys)') = Cardinality(Clients(Keys) \ V) + 1
    BY <1>5, <2>2, Zenon
  <2> QED BY <2>1, <2>3, RegistryAssumption DEF ClientsBounded
<1> QED BY <1>3, <1>5, <1>9, <1>10, <1>11, <1>12 DEF Ordered

\* finishClose forgets the clients and their order.
LEMMA OrderedForget ==
  ASSUME Ordered, table' = [c \in Keys |-> NoClient], recency' = << >>, aged' = 0
  PROVE  Ordered' /\ Clients(Keys)' = {}
<1>1. Clients(Keys)' = {}
  BY DEF Clients
<1>2. /\ table' \in [Keys -> States \cup {NoClient}] /\ recency' \in Seq(States)
      /\ aged' \in 0..Len(recency') /\ DOMAIN recency' = {}
  OBVIOUS
<1>3. RecencyKept'
  BY <1>2 DEF RecencyKept, Range
<1>4. Cardinality(Clients(Keys)') = 0
  BY <1>1, FS_EmptySet, Zenon
<1>5. ClientsBounded'
  BY <1>4, RegistryAssumption DEF ClientsBounded
<1> QED BY <1>1, <1>2, <1>3, <1>5 DEF Ordered

\* A client passes clientIdleTimeout.
LEMMA OrderedAge ==
  ASSUME Ordered, Age
  PROVE  Ordered'
<1>1. Clients(Keys)' = Clients(Keys) /\ UNCHANGED <<table, recency>>
  BY DEF Age, Clients
<1>2. aged' \in 0..Len(recency')
  BY DEF Age, Ordered
<1> QED BY <1>1, <1>2 DEF Ordered, RecencyKept, ClientsBounded

\* A step that leaves the slots alone.
LEMMA SlottedSame ==
  ASSUME Slotted, UNCHANGED <<entries, slots>>
  PROVE  Slotted'
BY DEF Slotted

\* clear gives back the slots of the clients V, whatever they have.
LEMMA SlottedClear ==
  ASSUME Slotted, NEW V \in SUBSET States, Clear(V)
  PROVE  Slotted'
<1>1. PICK f : f = entries
  OBVIOUS
<1>2. PICK g : g = entries'
  OBVIOUS
<1>3. /\ f \in [States -> Nat] /\ g = [s \in States |-> IF s \in V THEN 0 ELSE f[s]]
      /\ IsFiniteSet(States)
  BY <1>1, <1>2, RegistryAssumption DEF Slotted, Clear
<1>4. Total(g, States) = Total(f, States) - Total(f, V)
  BY <1>3, TotalClear
<1>5. slots' = slots - Total(f, V)
  BY <1>1 DEF Clear, Total
<1>6. g \in [States -> Nat] /\ Total(g, States) \in Nat
  BY <1>3, TotalNat
<1> QED BY <1>1, <1>2, <1>4, <1>5, <1>6 DEF Slotted

\* A client that takes or gives back slots takes them from, or gives them to, the
\* budget.
LEMMA SlottedPut ==
  ASSUME Slotted, NEW s \in States, NEW v \in Nat,
         entries' = [entries EXCEPT ![s] = v], slots' = slots - entries[s] + v
  PROVE  Slotted'
<1>1. PICK f : f = entries
  OBVIOUS
<1>2. PICK g : g = entries'
  OBVIOUS
<1>3. /\ f \in [States -> Nat] /\ g \in [States -> Nat] /\ IsFiniteSet(States)
      /\ g[s] = v /\ \A r \in States \ {s} : f[r] = g[r]
  BY <1>1, <1>2, RegistryAssumption DEF Slotted
<1>4. Total(g, States) = Total(f, States) - f[s] + g[s]
  BY <1>3, TotalPut, SMT
<1>5. Total(g, States) \in Nat
  BY <1>3, TotalNat
<1> QED BY <1>1, <1>2, <1>3, <1>4, <1>5 DEF Slotted

\* What client evicts is idle; when it enters a client there is room; and when it
\* refuses one it has evicted none, since of clients within their limit the first
\* eviction leaves room at the second.
LEMMA VictimFacts ==
  ASSUME Admitted, Ordered, NEW c \in Keys
  PROVE  /\ Evictable(FirstVictim(c)) /\ Evictable(FirstVictim(c) \cup SecondVictim(c))
         /\ ~NoClientRoom(c) =>
              Cardinality(Clients(Keys) \ (FirstVictim(c) \cup SecondVictim(c)))
                < MaxClientStates
         /\ NoBearerRoom(c) \/ NoClientRoom(c) => FirstVictim(c) = {}
<1>1. PICK F : F = FirstVictim(c)
  OBVIOUS
<1>2. PICK G : G = SecondVictim(c)
  OBVIOUS
<1>3. aged \in Nat /\ Clients(Bearers) \subseteq Clients(Keys)
  BY DEF Ordered, Clients, Keys
<1>4. \/ F = {}
      \/ \E i \in 1..aged : F = {recency[i]} /\ Idle(i) /\ recency[i] \in Clients(Keys)
  BY <1>1, <1>3, OldestIdleFacts DEF FirstVictim
<1>5. \/ G = {}
      \/ \E i \in 1..aged : G = {recency[i]} /\ Idle(i) /\ recency[i] \in Clients(Keys)
  BY <1>1, <1>2, <1>3, OldestIdleFacts DEF SecondVictim
<1>6. Evictable(F) /\ Evictable(F \cup G)
  BY <1>4, <1>5 DEF Evictable
<1>7. ASSUME NEW x \in Clients(Keys), NEW H, x \in H
      PROVE  Cardinality(Clients(Keys) \ H) < MaxClientStates
  <2>1. Clients(Keys) \ H \in SUBSET (Clients(Keys) \ {x})
    BY <1>7
  <2>2. /\ IsFiniteSet(Clients(Keys)) /\ Cardinality(Clients(Keys)) \in Nat
        /\ Cardinality(Clients(Keys)) <= MaxClientStates
    BY ClientsFinite
  <2>3. IsFiniteSet(Clients(Keys) \ {x})
        /\ Cardinality(Clients(Keys) \ {x}) = Cardinality(Clients(Keys)) - 1
    BY <1>7, <2>2, FS_RemoveElement
  <2>4. Cardinality(Clients(Keys) \ H) <= Cardinality(Clients(Keys) \ {x})
        /\ Cardinality(Clients(Keys) \ H) \in Nat
    BY <2>1, <2>3, FS_Subset, FS_CardinalityType
  <2> QED BY <2>2, <2>3, <2>4, RegistryAssumption
<1>8. ASSUME ~NoClientRoom(c)
      PROVE  Cardinality(Clients(Keys) \ (F \cup G)) < MaxClientStates
  <2>1. CASE G # {}
    BY <1>5, <1>7, <2>1
  <2>2. CASE G = {}
    <3>1. ~ClientsFull(F)
      BY <1>1, <1>2, <1>8, <2>2 DEF NoClientRoom
    <3>2. Cardinality(Clients(Keys) \ F) \in Nat
      BY ClientsFinite
    <3>3. Cardinality(Clients(Keys) \ F) < MaxClientStates
      BY <3>1, <3>2, RegistryAssumption DEF ClientsFull
    <3>4. F \cup G = F
      BY <2>2
    <3> QED BY <3>3, <3>4
  <2> QED BY <2>1, <2>2
<1>9. ASSUME NoBearerRoom(c) \/ NoClientRoom(c)
      PROVE  F = {}
  <2>1. CASE NoBearerRoom(c)
    BY <1>1, <2>1 DEF NoBearerRoom
  <2>2. CASE NoClientRoom(c)
    <3>1. ClientsFull(F)
      BY <1>1, <2>2 DEF NoClientRoom
    <3>2. Cardinality(Clients(Keys) \ F) \in Nat
      BY ClientsFinite
    <3>3. ~(Cardinality(Clients(Keys) \ F) < MaxClientStates)
      BY <3>1, <3>2, RegistryAssumption DEF ClientsFull
    <3> QED BY <1>4, <1>7, <3>3
  <2> QED BY <1>9, <2>1, <2>2
<1> QED BY <1>1, <1>2, <1>6, <1>8, <1>9

\* The clients that are registered, the one without a credential included.
Known == Clients(Keys) \cup {noAuth}

\* The client registered for a request.
Proper(q) == IF cred[q] = Anon THEN noAuth ELSE table[cred[q]]

\* A request at work uses a registered client, until they are forgotten.
LEMMA UsesKnown ==
  ASSUME Admitted, Ordered, Registered, closing # "forgotten",
         NEW q \in Requests, phase[q] = "using"
  PROVE  holds[q] = Proper(q) /\ holds[q] \in Known /\ holds[q] \in States
<1>1. holds[q] = Proper(q) /\ holds[q] \in States
  BY DEF Admitted, UsesCounted, Registered, OneClientPerCredential, Proper
<1>2. cred[q] \in Keys \/ cred[q] = Anon
  BY DEF Admitted, Creds
<1>3. holds[q] # NoClient
  BY <1>1, RegistryAssumption
<1> QED BY <1>1, <1>2, <1>3 DEF Proper, Known, Clients

\* A step that registers and drops nobody: who begins to use a client, cools down
\* or takes a slot is registered.
LEMMA RegisteredStay ==
  ASSUME Registered, UNCHANGED <<table, noAuth, done, closing>>,
         sweepLoop' \in {"select", "sweeping", "exited"}, snapshot' \subseteq States,
         cooling' \subseteq States,
         closing # "forgotten" =>
           /\ cooling' \subseteq cooling \cup Known
           /\ \A s \in States : entries'[s] > 0 => entries[s] > 0 \/ s \in Known
           /\ \A q \in Requests : phase'[q] = "using" =>
                \/ phase[q] = "using" /\ cred'[q] = cred[q] /\ holds'[q] = holds[q]
                \/ holds'[q] = Proper(q)'
  PROVE  Registered'
<1>1. Clients(Keys)' = Clients(Keys) /\ Known' = Known
  BY DEF Clients, Known
<1>2. OneClientPerCredential'
  BY DEF Registered, OneClientPerCredential, Proper
<1>3. CooldownsRemembered'
  BY <1>1 DEF Registered, CooldownsRemembered, Known
<1>4. NothingAfterClose'
  BY <1>1 DEF Registered, NothingAfterClose
<1>5. closing' # "forgotten" =>
        \A s \in States : entries'[s] > 0 => s \in Clients(Keys)' \cup {noAuth'}
  BY <1>1 DEF Registered, Known
<1> QED BY <1>2, <1>3, <1>4, <1>5 DEF Registered

\* Dropping idle clients takes the client of no request at work, and no cooldown.
LEMMA RegisteredEvict ==
  ASSUME Admitted, Ordered, Registered, NEW V, Evictable(V), table' = TableWithout(V),
         Clients(Keys)' = Clients(Keys) \ V, Clear(V),
         UNCHANGED <<noAuth, cooling, done, closing>>,
         sweepLoop' \in {"select", "sweeping", "exited"}, snapshot' \subseteq States,
         \A q \in Requests : phase'[q] = "using" =>
           phase[q] = "using" /\ cred'[q] = cred[q] /\ holds'[q] = holds[q]
  PROVE  Registered'
<1>1. V \cap cooling = {} /\ \A s \in V : Users(s) = {}
  BY EvictFacts
<1>2. OneClientPerCredential'
  <2> SUFFICES ASSUME closing # "forgotten", NEW q \in Requests, phase'[q] = "using"
               PROVE  holds'[q] = IF cred'[q] = Anon THEN noAuth' ELSE table'[cred'[q]]
    BY DEF OneClientPerCredential
  <2>1. phase[q] = "using" /\ cred'[q] = cred[q] /\ holds'[q] = holds[q]
    OBVIOUS
  <2>2. holds[q] = Proper(q) /\ holds[q] \notin V
    BY <1>1, <2>1, UsesKnown DEF Users
  <2>3. cred[q] \in Keys \/ cred[q] = Anon
    BY DEF Admitted, Creds
  <2>4. cred[q] \in Keys => TableWithout(V)[cred[q]] = IF table[cred[q]] \in V THEN NoClient
                                                  ELSE table[cred[q]]
    BY WithoutFacts
  <2> QED BY <2>1, <2>2, <2>3, <2>4 DEF Proper
<1>3. CooldownsRemembered'
  BY <1>1 DEF Registered, CooldownsRemembered
<1>4. NothingAfterClose'
  BY DEF Registered, NothingAfterClose
<1>5. closing' # "forgotten" =>
        \A s \in States : entries'[s] > 0 => s \in Clients(Keys)' \cup {noAuth'}
  <2>1. \A s \in States : entries'[s] = IF s \in V THEN 0 ELSE entries[s]
    BY DEF Clear
  <2> QED BY <2>1 DEF Registered
<1> QED BY <1>2, <1>3, <1>4, <1>5 DEF Registered

\* The client that is entered is that of nobody else's request.
LEMMA RegisteredNew ==
  ASSUME Admitted, Ordered, Registered, NEW V, Evictable(V),
         NEW q \in Requests, phase[q] = "route", ~done,
         cred[q] \in Keys, table[cred[q]] = NoClient, NEW s \in States,
         table' = [TableWithout(V) EXCEPT ![cred[q]] = s],
         Clients(Keys)' = (Clients(Keys) \ V) \cup {s}, Clear(V), Begin(q, s),
         UNCHANGED <<noAuth, cooling, cred, done, closing, sweepLoop, snapshot>>
  PROVE  Registered'
<1>1. V \cap cooling = {} /\ \A r \in V : Users(r) = {}
  BY EvictFacts
<1>2. closing = "no"
  BY DEF Registered
<1>3. OneClientPerCredential'
  <2> SUFFICES ASSUME NEW p \in Requests, phase'[p] = "using"
               PROVE  holds'[p] = IF cred'[p] = Anon THEN noAuth' ELSE table'[cred'[p]]
    BY DEF OneClientPerCredential
  <2>1. /\ TableWithout(V) \in [Keys -> States \cup {NoClient}]
        /\ \A c \in Keys : TableWithout(V)[c] = IF table[c] \in V THEN NoClient ELSE table[c]
    BY WithoutFacts
  <2>2. CASE p = q
    BY <2>1, <2>2, RegistryAssumption DEF Begin, Admitted
  <2>3. CASE p # q
    <3>1. phase[p] = "using" /\ cred'[p] = cred[p] /\ holds'[p] = holds[p]
      BY <2>3 DEF Begin, Proceed, Admitted
    <3>2. holds[p] = Proper(p) /\ holds[p] \notin V /\ holds[p] \in States
      BY <1>1, <1>2, <3>1, UsesKnown DEF Users
    <3>3. cred[p] \in Keys \/ cred[p] = Anon
      BY DEF Admitted, Creds
    <3>4. CASE cred[p] = Anon
      BY <3>1, <3>2, <3>4 DEF Proper
    <3>5. CASE cred[p] \in Keys
      <4>1. holds[p] = table[cred[p]]
        BY <3>2, <3>5, RegistryAssumption DEF Proper
      <4>2. cred[p] # cred[q]
        BY <3>2, <4>1, RegistryAssumption
      <4> QED BY <2>1, <3>1, <3>2, <3>5, <4>1, <4>2, RegistryAssumption
    <3> QED BY <3>3, <3>4, <3>5
  <2> QED BY <2>2, <2>3
<1>4. CooldownsRemembered'
  BY <1>1 DEF Registered, CooldownsRemembered
<1>5. NothingAfterClose'
  BY <1>2 DEF NothingAfterClose
<1>6. closing' # "forgotten" =>
        \A r \in States : entries'[r] > 0 => r \in Clients(Keys)' \cup {noAuth'}
  <2>1. \A r \in States : entries'[r] = IF r \in V THEN 0 ELSE entries[r]
    BY DEF Clear
  <2> QED BY <2>1 DEF Registered
<1> QED BY <1>3, <1>4, <1>5, <1>6 DEF Registered

\* Admission enters a request and nothing else.
LEMMA ArriveKeeps ==
  ASSUME RegistryParts, NEW q \in Requests, NEW c \in Creds, Arrive(q, c)
  PROVE  RegistryParts'
<1>1. Admitted' /\ Ordered' /\ Slotted'
  BY AdmittedArrive, OrderedSame, SlottedSame DEF RegistryParts, Arrive, registry
<1>2. Registered'
  <2>1. \A p \in Requests : phase'[p] = "using" =>
          phase[p] = "using" /\ cred'[p] = cred[p] /\ holds'[p] = holds[p]
    BY DEF RegistryParts, Admitted, Arrive, Proceed
  <2> QED BY <2>1, RegisteredStay DEF RegistryParts, Registered, Arrive, registry, lifecycle
<1> QED BY <1>1, <1>2 DEF RegistryParts

\* A request that is forwarded, or refused without a look at the clients, only
\* gives its place back.
LEMMA DivertKeeps ==
  ASSUME RegistryParts, NEW q \in Requests, Divert(q) \/ ClientClosed(q)
  PROVE  RegistryParts'
<1>1. /\ phase[q] = "route" /\ Depart(q) /\ UNCHANGED <<registry, holds, lifecycle>>
  BY DEF Divert, ClientClosed
<1>2. holds' = [holds EXCEPT ![q] = holds[q]] /\ holds[q] \in States \cup {NoClient}
  BY <1>1 DEF RegistryParts, Admitted
<1>3. Admitted' /\ Ordered' /\ Slotted'
  BY <1>1, <1>2, AdmittedDepart, OrderedSame, SlottedSame DEF RegistryParts, registry
<1>4. Registered'
  <2>1. \A p \in Requests : phase'[p] = "using" =>
          phase[p] = "using" /\ cred'[p] = cred[p] /\ holds'[p] = holds[p]
    BY <1>1 DEF RegistryParts, Admitted, Depart, Proceed
  <2> QED BY <1>1, <2>1, RegisteredStay DEF RegistryParts, Registered, registry, lifecycle
<1> QED BY <1>3, <1>4 DEF RegistryParts

\* A request begins to use the client that is registered for it.
LEMMA BeginKeeps ==
  ASSUME RegistryParts, NEW q \in Requests, ClientAnon(q) \/ ClientKnown(q)
  PROVE  RegistryParts'
<1>1. PICK s : s = Proper(q)
  OBVIOUS
<1>2. /\ phase[q] = "route" /\ s \in States /\ Begin(q, s)
      /\ UNCHANGED <<table, noAuth, cooling, entries, slots, inFlight, cred, lifecycle>>
      /\ (s \in Clients(Keys) /\ Touch(s)) \/ UNCHANGED <<recency, aged>>
  <2>1. CASE ClientAnon(q)
    <3>1. s = noAuth
      BY <1>1, <2>1 DEF ClientAnon, Proper
    <3>2. s \in States
      BY <2>1, <3>1, RegistryAssumption DEF ClientAnon, RegistryParts, Registered
    <3> QED BY <2>1, <3>1, <3>2 DEF ClientAnon
  <2>2. CASE ClientKnown(q)
    <3>1. s = table[cred[q]] /\ cred[q] \in Keys
      BY <1>1, <2>2, RegistryAssumption DEF ClientKnown, Proper
    <3>2. s \in States /\ s \in Clients(Keys)
      BY <2>2, <3>1 DEF ClientKnown, RegistryParts, Ordered, Clients
    <3> QED BY <2>2, <3>1, <3>2 DEF ClientKnown
  <2> QED BY <2>1, <2>2
<1>3. Admitted' /\ Ordered' /\ Slotted'
  BY <1>2, AdmittedBegin, OrderedSame, OrderedTouch, SlottedSame DEF RegistryParts
<1>4. Registered'
  <2>1. \A p \in Requests : phase'[p] = "using" =>
          \/ phase[p] = "using" /\ cred'[p] = cred[p] /\ holds'[p] = holds[p]
          \/ holds'[p] = Proper(p)'
    BY <1>1, <1>2 DEF RegistryParts, Admitted, Begin, Proceed, Proper
  <2> QED BY <1>2, <2>1, RegisteredStay DEF RegistryParts, Registered, lifecycle
<1> QED BY <1>3, <1>4 DEF RegistryParts

\* client refuses a request: what it evicted before, if anything, was idle.
LEMMA ClientRefusedKeeps ==
  ASSUME RegistryParts, NEW q \in Requests, ClientRefused(q)
  PROVE  RegistryParts'
<1>1. PICK V : V = FirstVictim(cred[q])
  OBVIOUS
<1>2. /\ phase[q] = "route" /\ cred[q] \in Keys
      /\ table' = TableWithout(V) /\ recency' = Remaining(V) /\ aged' = aged - Cardinality(V)
      /\ Clear(V) /\ Depart(q) /\ UNCHANGED <<noAuth, inUse, cooling, holds, lifecycle>>
  BY <1>1 DEF ClientRefused
<1>3. Evictable(V)
  BY <1>1, <1>2, VictimFacts DEF RegistryParts
<1>4. Ordered' /\ Clients(Keys)' = Clients(Keys) \ V
  BY <1>2, <1>3, OrderedEvict DEF RegistryParts
<1>5. V \in SUBSET States
  BY <1>3, EvictFacts DEF RegistryParts
<1>6. Slotted'
  BY <1>2, <1>5, SlottedClear DEF RegistryParts
<1>7. holds' = [holds EXCEPT ![q] = holds[q]] /\ holds[q] \in States \cup {NoClient}
  BY <1>2 DEF RegistryParts, Admitted
<1>8. Admitted'
  BY <1>2, <1>7, AdmittedDepart DEF RegistryParts
<1>9. Registered'
  <2>1. \A p \in Requests : phase'[p] = "using" =>
          phase[p] = "using" /\ cred'[p] = cred[p] /\ holds'[p] = holds[p]
    BY <1>2 DEF RegistryParts, Admitted, Depart, Proceed
  <2> QED BY <1>2, <1>3, <1>4, <2>1, RegisteredEvict DEF RegistryParts, Registered, lifecycle
<1> QED BY <1>4, <1>6, <1>8, <1>9 DEF RegistryParts

\* client enters a new client, for which there is room once the idle ones are gone.
LEMMA ClientNewKeeps ==
  ASSUME RegistryParts, NEW q \in Requests, ClientNew(q)
  PROVE  RegistryParts'
<1>1. PICK V : V = FirstVictim(cred[q]) \cup SecondVictim(cred[q])
  OBVIOUS
<1>2. PICK s : s = CHOOSE r \in Fresh(cred[q]) : TRUE
  OBVIOUS
<1>3. /\ phase[q] = "route" /\ ~done /\ cred[q] \in Keys /\ table[cred[q]] = NoClient
      /\ ~NoClientRoom(cred[q]) /\ Fresh(cred[q]) # {}
      /\ table' = [TableWithout(V) EXCEPT ![cred[q]] = s]
      /\ recency' = Append(Remaining(V), s) /\ aged' = aged - Cardinality(V)
      /\ Clear(V) /\ Begin(q, s) /\ UNCHANGED <<noAuth, cooling, inFlight, cred, lifecycle>>
  BY <1>1, <1>2 DEF ClientNew, Closed
<1>4. s \in States \ Clients(Keys)
  BY <1>2, <1>3 DEF Fresh
<1>5. Evictable(V) /\ Cardinality(Clients(Keys) \ V) < MaxClientStates
  BY <1>1, <1>3, VictimFacts DEF RegistryParts
<1>6. Ordered' /\ Clients(Keys)' = (Clients(Keys) \ V) \cup {s}
  BY <1>3, <1>4, <1>5, OrderedNew DEF RegistryParts
<1>7. V \in SUBSET States
  BY <1>5, EvictFacts DEF RegistryParts
<1>8. Slotted'
  BY <1>3, <1>7, SlottedClear DEF RegistryParts
<1>9. Admitted'
  BY <1>3, <1>4, AdmittedBegin DEF RegistryParts
<1>10. Registered'
  BY <1>3, <1>4, <1>5, <1>6, RegisteredNew DEF RegistryParts, lifecycle
<1> QED BY <1>6, <1>8, <1>9, <1>10 DEF RegistryParts

\* A request at work takes a slot, or a response blocks its client, which is
\* registered until the clients are forgotten.
LEMMA WorkKeeps ==
  ASSUME RegistryParts, NEW q \in Requests, Occupy(q) \/ Block(q)
  PROVE  RegistryParts'
<1>1. PICK s : s = holds[q]
  OBVIOUS
<1>2. /\ phase[q] = "using" /\ s \in States
      /\ UNCHANGED <<table, noAuth, recency, aged, inUse, requests, lifecycle>>
      /\ closing # "forgotten" => s \in Known
  BY <1>1, UsesKnown DEF RegistryParts, Admitted, UsesCounted, Occupy, Block
<1>3. Admitted' /\ Ordered'
  BY <1>2, AdmittedSame, OrderedSame DEF RegistryParts, requests
<1>4. \A p \in Requests : phase'[p] = "using" =>
        phase[p] = "using" /\ cred'[p] = cred[p] /\ holds'[p] = holds[p]
  BY <1>2 DEF requests
<1>5. CASE Occupy(q)
  <2>1. /\ entries' = [entries EXCEPT ![s] = entries[s] + 1] /\ slots' = slots + 1
        /\ UNCHANGED cooling /\ entries \in [States -> Nat] /\ slots \in Nat
    BY <1>1, <1>5 DEF Occupy, RegistryParts, Slotted
  <2>2. entries[s] + 1 \in Nat /\ slots' = slots - entries[s] + (entries[s] + 1)
    BY <1>2, <2>1
  <2>3. Slotted'
    BY <1>2, <2>1, <2>2, SlottedPut DEF RegistryParts
  <2>4. \A r \in States : entries'[r] > 0 => entries[r] > 0 \/ r = s
    BY <1>2, <2>1
  <2>5. Registered'
    BY <1>2, <1>4, <2>1, <2>4, RegisteredStay DEF RegistryParts, Registered, lifecycle
  <2> QED BY <1>3, <2>3, <2>5 DEF RegistryParts
<1>6. CASE Block(q)
  <2>1. cooling' = cooling \cup {s} /\ UNCHANGED <<entries, slots>>
    BY <1>1, <1>6 DEF Block
  <2>2. Slotted'
    BY <2>1, SlottedSame DEF RegistryParts
  <2>3. Registered'
    BY <1>2, <1>4, <2>1, RegisteredStay DEF RegistryParts, Registered, lifecycle
  <2> QED BY <1>3, <2>2, <2>3 DEF RegistryParts
<1> QED BY <1>5, <1>6

\* end counts the use out; the second half touches the client if it is there still.
LEMMA EndKeeps ==
  ASSUME RegistryParts, NEW q \in Requests, EndCount(q) \/ EndTouch(q)
  PROVE  RegistryParts'
<1>1. UNCHANGED <<table, noAuth, cooling, entries, slots, lifecycle>>
  BY DEF EndCount, EndTouch
<1>2. Admitted'
  BY AdmittedEnd, AdmittedDepart DEF RegistryParts, EndTouch
<1>3. Ordered'
  <2>1. \/ UNCHANGED <<recency, aged>>
        \/ holds[q] \in Clients(Keys) /\ Touch(holds[q])
    BY DEF EndCount, EndTouch
  <2> QED BY <1>1, <2>1, OrderedSame, OrderedTouch DEF RegistryParts
<1>4. Slotted'
  BY <1>1, SlottedSame DEF RegistryParts
<1>5. Registered'
  <2>1. \A p \in Requests : phase'[p] = "using" =>
          phase[p] = "using" /\ cred'[p] = cred[p] /\ holds'[p] = holds[p]
    BY DEF RegistryParts, Admitted, EndCount, EndTouch, Depart, Proceed
  <2> QED BY <1>1, <2>1, RegisteredStay DEF RegistryParts, Registered, lifecycle
<1> QED BY <1>2, <1>3, <1>4, <1>5 DEF RegistryParts

\* The first half of sweepClients drops every client that is idle.
LEMMA SweepClientsKeeps ==
  ASSUME RegistryParts, SweepClients
  PROVE  RegistryParts'
<1>1. PICK V : V = {recency[i] : i \in {i \in 1..aged : Idle(i)}}
  OBVIOUS
<1>2. /\ table' = TableWithout(V) /\ recency' = Remaining(V) /\ aged' = aged - Cardinality(V)
      /\ Clear(V) /\ sweepLoop' = "sweeping"
      /\ snapshot' = (Clients(Keys) \ V) \cup ({noAuth} \ {NoClient})
      /\ UNCHANGED <<noAuth, inUse, cooling, requests, done, closing>>
  BY <1>1 DEF SweepClients
<1>3. Evictable(V)
  BY <1>1 DEF Evictable
<1>4. Ordered' /\ Clients(Keys)' = Clients(Keys) \ V
  BY <1>2, <1>3, OrderedEvict DEF RegistryParts
<1>5. V \in SUBSET States
  BY <1>3, EvictFacts DEF RegistryParts
<1>6. Slotted' /\ Admitted'
  BY <1>2, <1>5, SlottedClear, AdmittedSame DEF RegistryParts, requests
<1>7. Clients(Keys) \subseteq States /\ noAuth \in States \cup {NoClient}
  BY ClientsFinite, RegistryAssumption DEF RegistryParts, Registered
<1>8. Registered'
  <2>1. \A p \in Requests : phase'[p] = "using" =>
          phase[p] = "using" /\ cred'[p] = cred[p] /\ holds'[p] = holds[p]
    BY <1>2 DEF requests
  <2>2. snapshot' \subseteq States
    BY <1>2, <1>7
  <2> QED BY <1>2, <1>3, <1>4, <2>1, <2>2, RegisteredEvict DEF RegistryParts
<1> QED BY <1>4, <1>6, <1>8 DEF RegistryParts

\* sweep of a client gives back the slots of what it drops, of a client that was
\* dropped in the meantime none.
LEMMA SweepStateKeeps ==
  ASSUME RegistryParts, NEW s \in States, SweepState(s)
  PROVE  RegistryParts'
<1>1. /\ UNCHANGED <<table, noAuth, recency, aged, inUse, cooling, requests, done, closing,
                     sweepLoop>>
      /\ snapshot' \subseteq States
  BY DEF SweepState, RegistryParts, Registered
<1>2. PICK k \in 0..entries[s] : entries' = [entries EXCEPT ![s] = entries[s] - k]
                                 /\ slots' = slots - k
  BY DEF SweepState
<1>3. /\ entries[s] \in Nat /\ entries[s] - k \in Nat /\ slots \in Nat /\ k \in Nat
      /\ entries \in [States -> Nat]
  BY DEF RegistryParts, Slotted
<1>4. slots' = slots - entries[s] + (entries[s] - k)
  BY <1>2, <1>3
<1>5. Slotted'
  BY <1>2, <1>3, <1>4, SlottedPut DEF RegistryParts
<1>6. Admitted' /\ Ordered'
  BY <1>1, AdmittedSame, OrderedSame DEF RegistryParts, requests
<1>7. Registered'
  <2>1. \A p \in Requests : phase'[p] = "using" =>
          phase[p] = "using" /\ cred'[p] = cred[p] /\ holds'[p] = holds[p]
    BY <1>1 DEF requests
  <2>2. \A r \in States : entries'[r] > 0 => entries[r] > 0
    BY <1>2, <1>3
  <2> QED BY <1>1, <2>1, <2>2, RegisteredStay DEF RegistryParts, Registered
<1> QED BY <1>5, <1>6, <1>7 DEF RegistryParts

\* The steps that only turn the sweeper, move time on or end a cooldown.
LEMMA TimeKeeps ==
  ASSUME RegistryParts, NEW s, SweepEnd \/ SweeperExit \/ Age \/ CoolDown(s)
  PROVE  RegistryParts'
<1>1. /\ UNCHANGED <<table, noAuth, inUse, entries, slots, requests, done, closing, snapshot>>
      /\ UNCHANGED recency
      /\ cooling' \subseteq cooling
      /\ sweepLoop' \in {"select", "exited", sweepLoop}
      /\ UNCHANGED aged \/ Age
  BY DEF SweepEnd, SweeperExit, Age, CoolDown, registry, lifecycle
<1>2. Admitted' /\ Ordered' /\ Slotted'
  BY <1>1, AdmittedSame, OrderedSame, OrderedAge, SlottedSame DEF RegistryParts, requests
<1>3. Registered'
  <2>1. \A p \in Requests : phase'[p] = "using" =>
          phase[p] = "using" /\ cred'[p] = cred[p] /\ holds'[p] = holds[p]
    BY <1>1 DEF requests
  <2>2. sweepLoop' \in {"select", "sweeping", "exited"} /\ cooling' \subseteq States
        /\ snapshot' \subseteq States
    BY <1>1 DEF RegistryParts, Registered
  <2> QED BY <1>1, <2>1, <2>2, RegisteredStay DEF RegistryParts
<1> QED BY <1>2, <1>3 DEF RegistryParts

\* Close cancels the context, then finishClose forgets the clients.
LEMMA ClosingKeeps ==
  ASSUME RegistryParts, Closing
  PROVE  RegistryParts'
<1>1. UNCHANGED <<inUse, cooling, entries, slots, requests, sweepLoop, snapshot>>
  BY DEF Closing, Close, Forget, registry
<1>2. Admitted' /\ Slotted'
  BY <1>1, AdmittedSame, SlottedSame DEF RegistryParts, requests
<1>3. CASE Close
  <2>1. /\ UNCHANGED <<table, noAuth, recency, aged>> /\ closing = "no"
        /\ done' = TRUE /\ closing' = "started"
    BY <1>3 DEF Close, registry
  <2>2. Ordered' /\ Clients(Keys)' = Clients(Keys)
    BY <2>1, OrderedSame DEF RegistryParts, Clients
  <2>3. OneClientPerCredential' /\ CooldownsRemembered' /\ NothingAfterClose'
    BY <1>1, <2>1, <2>2 DEF RegistryParts, Registered, OneClientPerCredential,
                            CooldownsRemembered, NothingAfterClose, requests
  <2>4. Registered'
    BY <1>1, <2>1, <2>2, <2>3 DEF RegistryParts, Registered
  <2> QED BY <1>2, <2>2, <2>4 DEF RegistryParts
<1>4. CASE Forget
  <2>1. /\ table' = [c \in Keys |-> NoClient] /\ noAuth' = NoClient
        /\ recency' = << >> /\ aged' = 0
        /\ closing = "started" /\ closing' = "forgotten" /\ UNCHANGED done
    BY <1>4 DEF Forget
  <2>2. Ordered' /\ Clients(Keys)' = {}
    BY <2>1, OrderedForget DEF RegistryParts
  <2>3. OneClientPerCredential' /\ CooldownsRemembered' /\ NothingAfterClose'
    BY <2>1, <2>2 DEF OneClientPerCredential, CooldownsRemembered, NothingAfterClose
  <2>4. Registered'
    BY <1>1, <2>1, <2>3 DEF RegistryParts, Registered
  <2> QED BY <1>2, <2>2, <2>4 DEF RegistryParts
<1> QED BY <1>3, <1>4 DEF Closing

\* Every step of the registry keeps the invariant.
LEMMA RegistryNextKeeps ==
  ASSUME RegistryParts, [RegistryNext]_registryVars
  PROVE  RegistryParts'
<1>1. CASE UNCHANGED registryVars
  BY <1>1, AdmittedSame, OrderedSame, SlottedSame, RegisteredStay
     DEF RegistryParts, Registered, registryVars, registry, requests, lifecycle
<1>2. ASSUME NEW q \in Requests, Serve(q)
      PROVE  RegistryParts'
  <2>1. CASE \E c \in Creds : Arrive(q, c)
    BY <2>1, ArriveKeeps
  <2>2. CASE Divert(q) \/ ClientClosed(q)
    BY <2>2, DivertKeeps
  <2>3. CASE ClientAnon(q) \/ ClientKnown(q)
    BY <2>3, BeginKeeps
  <2>4. CASE ClientRefused(q)
    BY <2>4, ClientRefusedKeeps
  <2>5. CASE ClientNew(q)
    BY <2>5, ClientNewKeeps
  <2>6. CASE Occupy(q) \/ Block(q)
    BY <2>6, WorkKeeps
  <2>7. CASE EndCount(q) \/ EndTouch(q)
    BY <2>7, EndKeeps
  <2> QED BY <1>2, <2>1, <2>2, <2>3, <2>4, <2>5, <2>6, <2>7 DEF Serve
<1>3. CASE Closing
  BY <1>3, ClosingKeeps
<1>4. CASE Sweeping
  BY <1>4, SweepClientsKeeps, SweepStateKeeps, TimeKeeps DEF Sweeping
<1>5. CASE Age
  BY <1>5, TimeKeeps
<1>6. CASE \E s \in States : CoolDown(s)
  BY <1>6, TimeKeeps
<1> QED BY <1>1, <1>2, <1>3, <1>4, <1>5, <1>6 DEF RegistryNext

\* A new Proxy satisfies the invariant.
LEMMA RegistryStarts == RegistryInit => RegistryParts
<1> SUFFICES ASSUME RegistryInit
             PROVE  RegistryParts
  OBVIOUS
<1>1. Admitted
  <2>1. /\ phase \in [Requests -> {"out", "route", "using", "ending"}]
        /\ cred \in [Requests -> Creds] /\ holds \in [Requests -> States \cup {NoClient}]
        /\ inUse \in [States -> Nat] /\ inFlight = 0
    BY DEF RegistryInit, Creds
  <2>2. InFlightNow = {} /\ \A s \in States : Users(s) = {}
    BY DEF RegistryInit, InFlightNow, Users
  <2>3. Cardinality(InFlightNow) = 0 /\ \A s \in States : Cardinality(Users(s)) = 0
    BY <2>2, FS_EmptySet, Zenon
  <2>4. InFlightExact
    BY <2>1, <2>3, RegistryAssumption DEF InFlightExact, InFlightNow
  <2>5. UsesCounted
    BY <2>3 DEF UsesCounted, RegistryInit
  <2> QED BY <2>1, <2>4, <2>5 DEF Admitted
<1>2. Ordered /\ Clients(Keys) = {}
  <2>1. Clients(Keys) = {}
    BY DEF RegistryInit, Clients
  <2>2. /\ table \in [Keys -> States \cup {NoClient}] /\ recency \in Seq(States)
        /\ aged \in 0..Len(recency) /\ DOMAIN recency = {}
    BY DEF RegistryInit
  <2>3. RecencyKept
    BY <2>2 DEF RecencyKept, Range
  <2>4. Cardinality(Clients(Keys)) = 0
    BY <2>1, FS_EmptySet, Zenon
  <2>5. ClientsBounded
    BY <2>4, RegistryAssumption DEF ClientsBounded
  <2> QED BY <2>1, <2>2, <2>3, <2>5 DEF Ordered
<1>3. Slotted
  <2>1. /\ entries \in [States -> Nat] /\ slots = 0 /\ IsFiniteSet(States)
        /\ \A s \in States : entries[s] = 0
    BY RegistryAssumption DEF RegistryInit
  <2>2. Total(entries, States) = 0
    BY <2>1, TotalZero
  <2> QED BY <2>1, <2>2 DEF Slotted
<1>4. Registered
  <2>1. OneClientPerCredential /\ CooldownsRemembered /\ NothingAfterClose
    BY <1>2 DEF RegistryInit, OneClientPerCredential, CooldownsRemembered, NothingAfterClose
  <2>2. \A s \in States : ~(entries[s] > 0)
    BY DEF RegistryInit
  <2>3. /\ noAuth \in {NoAuth, NoClient}
        /\ cooling \subseteq States /\ snapshot \subseteq States
        /\ done \in BOOLEAN /\ closing \in {"no", "started", "forgotten"}
        /\ sweepLoop \in {"select", "sweeping", "exited"}
        /\ closing = "no" <=> ~done
    BY DEF RegistryInit
  <2> QED BY <2>1, <2>2, <2>3 DEF Registered
<1> QED BY <1>1, <1>2, <1>3, <1>4 DEF RegistryParts

\* The registry keeps its invariant.
THEOREM RegistryInvariance == RegistrySpec => []RegistryInv
<1>1. RegistryInit => RegistryParts
  BY RegistryStarts
<1>2. RegistryParts /\ [RegistryNext]_registryVars => RegistryParts'
  BY RegistryNextKeeps
<1>3. RegistryParts => RegistryInv
  BY RegistryInvParts
<1> QED BY <1>1, <1>2, <1>3, PTL DEF RegistrySpec

\* The places in flight and the slots are counted exactly, whichever way requests
\* return, clients are evicted and the sweeper runs (proxy.go, scheduler.go).
THEOREM RegistryCounts == RegistrySpec => []CountsExact
<1>1. RegistryInv => CountsExact
  BY DEF RegistryInv
<1> QED BY <1>1, RegistryInvariance, PTL

\* Whatever is evicted or swept, requests of one credential share one client.
THEOREM RegistryOneClient == RegistrySpec => []OneClientPerCredential
<1>1. RegistryInv => OneClientPerCredential
  BY DEF RegistryInv
<1> QED BY <1>1, RegistryInvariance, PTL

\* No client is dropped while it remembers a cooldown.
THEOREM RegistryCooldowns == RegistrySpec => []CooldownsRemembered
<1>1. RegistryInv => CooldownsRemembered
  BY DEF RegistryInv
<1> QED BY <1>1, RegistryInvariance, PTL

\* Nothing is entered in the maps that finishClose has set to nil.
THEOREM RegistryNothingAfterClose == RegistrySpec => []NothingAfterClose
<1>1. RegistryInv => NothingAfterClose
  BY DEF RegistryInv
<1> QED BY <1>1, RegistryInvariance, PTL

\* What NoVainEviction says of a step.
NotInVain ==
  \A c \in Keys :
    table[c] # NoClient /\ table'[c] = NoClient =>
      \/ sweepLoop' # sweepLoop \/ closing' # closing
      \/ \E k \in Keys : table[k] = NoClient /\ table'[k] # NoClient

\* A step of a request drops a client only when it enters another: a refused
\* request has evicted none (VictimFacts).
LEMMA StepsNotInVain ==
  ASSUME RegistryParts, [RegistryNext]_registryVars
  PROVE  NotInVain
<1>1. ASSUME UNCHANGED table
      PROVE  NotInVain
  BY <1>1 DEF NotInVain
<1>2. ASSUME NEW q \in Requests, ClientRefused(q)
      PROVE  NotInVain
  <2>1. cred[q] \in Keys /\ table' = TableWithout(FirstVictim(cred[q]))
        /\ (NoBearerRoom(cred[q]) \/ NoClientRoom(cred[q]))
    BY <1>2 DEF ClientRefused
  <2>2. FirstVictim(cred[q]) = {}
    BY <2>1, VictimFacts DEF RegistryParts
  <2>3. table' = table
    BY <2>1, <2>2 DEF TableWithout, RegistryParts, Ordered
  <2> QED BY <1>1, <2>3
<1>3. ASSUME NEW q \in Requests, ClientNew(q)
      PROVE  NotInVain
  <2>1. PICK V : V = FirstVictim(cred[q]) \cup SecondVictim(cred[q])
    OBVIOUS
  <2>2. PICK s : s = CHOOSE r \in Fresh(cred[q]) : TRUE
    OBVIOUS
  <2>3. /\ cred[q] \in Keys /\ table[cred[q]] = NoClient /\ Fresh(cred[q]) # {}
        /\ table' = [TableWithout(V) EXCEPT ![cred[q]] = s]
    BY <1>3, <2>1, <2>2 DEF ClientNew
  <2>4. s \in States
    BY <2>2, <2>3 DEF Fresh
  <2>5. table'[cred[q]] = s
    BY <2>3 DEF TableWithout
  <2> QED BY <2>3, <2>4, <2>5, RegistryAssumption DEF NotInVain
<1>4. ASSUME NEW q \in Requests, Serve(q)
      PROVE  NotInVain
  <2>1. \/ UNCHANGED table \/ ClientRefused(q) \/ ClientNew(q)
    BY <1>4 DEF Serve, Arrive, Divert, ClientClosed, ClientAnon, ClientKnown, Occupy, Block,
                EndCount, EndTouch, registry
  <2> QED BY <1>1, <1>2, <1>3, <2>1
<1>5. ASSUME Closing \/ Sweeping \/ Age \/ (\E s \in States : CoolDown(s))
      PROVE  NotInVain
  <2>1. UNCHANGED table \/ sweepLoop' # sweepLoop \/ closing' # closing
    BY <1>5 DEF Closing, Close, Forget, Sweeping, SweepClients, SweepState, SweepEnd,
                SweeperExit, Age, CoolDown, registry
  <2> QED BY <2>1 DEF NotInVain
<1>6. CASE UNCHANGED registryVars
  BY <1>1, <1>6 DEF registryVars, registry
<1> QED BY <1>4, <1>5, <1>6 DEF RegistryNext

\* An idle client is evicted only to admit another, though client checks two limits
\* one after the other (scheduler.go).
THEOREM RegistryNoVainEviction == RegistrySpec => NoVainEviction
<1>1. RegistryInit => RegistryParts
  BY RegistryStarts
<1>2. RegistryParts /\ [RegistryNext]_registryVars => RegistryParts'
  BY RegistryNextKeeps
<1>3. RegistryParts /\ [RegistryNext]_registryVars => [NotInVain]_registryVars
  BY StepsNotInVain
<1>4. RegistrySpec => [][NotInVain]_registryVars
  BY <1>1, <1>2, <1>3, PTL DEF RegistrySpec
<1> QED BY <1>4 DEF NoVainEviction, NotInVain

=============================================================================
