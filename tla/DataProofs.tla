----------------------------- MODULE DataProofs -----------------------------
(***************************************************************************)
(* Lemmas about the data of the other modules.                             *)
(*                                                                         *)
(* What the queue operations of LockOps do to a queue that holds nobody twice, *)
(* and what a sum over a finite set is: an operator defined by a fold, as the *)
(* budgets of BodyReplay and of ClientRegistry are.  What needs an induction *)
(* over data is shown with a smallest counterexample (SmallestSet).        *)
(***************************************************************************)
EXTENDS LockOps, FiniteSetsExt, FiniteSetTheorems, WellFoundedInduction, TLAPS

\* The provers, and the time each is given for a leaf.
USE ZenonT(10), SMTT(30)

-----------------------------------------------------------------------------
(* Queues                                                                  *)

\* Appending a newcomer keeps the queue free of repetitions.
LEMMA AppendQueue ==
  ASSUME NEW S, NEW s \in Seq(S), NEW p \in S,
         IsInjective(s), p \notin Range(s)
  PROVE  /\ Append(s, p) \in Seq(S)
         /\ Len(Append(s, p)) = Len(s) + 1
         /\ IsInjective(Append(s, p))
         /\ \A q : q \in Range(Append(s, p)) <=> q \in Range(s) \/ q = p
  <1> DEFINE t == Append(s, p)
  <1>1. /\ t \in Seq(S)
        /\ Len(t) = Len(s) + 1
        /\ \A i \in 1..Len(s) : t[i] = s[i]
        /\ t[Len(s) + 1] = p
    OBVIOUS
  <1>2. /\ DOMAIN s = 1..Len(s)
        /\ DOMAIN t = 1..Len(t)
        /\ Len(s) \in Nat
    BY <1>1
  <1>3. IsInjective(t)
    BY <1>1, <1>2 DEF IsInjective, Range
  <1>4. \A q : q \in Range(t) <=> q \in Range(s) \/ q = p
    BY <1>1, <1>2 DEF Range
  <1> QED
    BY <1>1, <1>3, <1>4

\* Taking the head off the queue removes that process and no other.
LEMMA TailQueue ==
  ASSUME NEW S, NEW s \in Seq(S), IsInjective(s), s # << >>
  PROVE  /\ Head(s) \in S
         /\ Head(s) \in Range(s)
         /\ Tail(s) \in Seq(S)
         /\ Len(Tail(s)) = Len(s) - 1
         /\ IsInjective(Tail(s))
         /\ \A q : q \in Range(Tail(s)) <=> q \in Range(s) /\ q # Head(s)
  <1> DEFINE t == Tail(s)
  <1>1. /\ Head(s) \in S
        /\ t \in Seq(S)
        /\ Len(t) = Len(s) - 1
        /\ \A i \in 1..Len(t) : t[i] = s[i + 1]
    OBVIOUS
  <1>2. /\ DOMAIN s = 1..Len(s)
        /\ DOMAIN t = 1..Len(t)
        /\ Len(s) \in Nat \ {0}
    BY <1>1
  <1>3. Head(s) = s[1]
    OBVIOUS
  <1>4. IsInjective(t)
    BY <1>1, <1>2 DEF IsInjective
  <1>5. Head(s) \in Range(s)
    BY <1>2, <1>3 DEF Range
  <1>6. ASSUME NEW q
        PROVE  q \in Range(t) <=> q \in Range(s) /\ q # Head(s)
    <2>1. ASSUME q \in Range(t)
          PROVE  q \in Range(s) /\ q # Head(s)
      BY <2>1, <1>1, <1>2, <1>3 DEF Range, IsInjective
    <2>2. ASSUME q \in Range(s), q # Head(s)
          PROVE  q \in Range(t)
      <3>1. PICK i \in 1..Len(s) : s[i] = q
        BY <2>2 DEF Range
      <3>2. i - 1 \in 1..Len(t) /\ t[i - 1] = q
        BY <3>1, <2>2, <1>1, <1>2, <1>3
      <3> QED
        BY <3>2, <1>2 DEF Range
    <2> QED
      BY <2>1, <2>2
  <1> QED
    BY <1>1, <1>4, <1>5, <1>6

\* A process that leaves the queue takes out its own entry and no other.
LEMMA WithoutQueue ==
  ASSUME NEW S, NEW s \in Seq(S), NEW p, IsInjective(s), p \in Range(s)
  PROVE  /\ Without(s, p) \in Seq(S)
         /\ Len(Without(s, p)) = Len(s) - 1
         /\ IsInjective(Without(s, p))
         /\ \A q : q \in Range(Without(s, p)) <=> q \in Range(s) /\ q # p
  <1> DEFINE k == Position(s, p)
             a == SubSeq(s, 1, k - 1)
             b == SubSeq(s, k + 1, Len(s))
             t == Without(s, p)
  <1>1. k \in 1..Len(s) /\ s[k] = p
    BY DEF Position, Range
  <1>2. DOMAIN s = 1..Len(s) /\ Len(s) \in Nat
    OBVIOUS
  <1>3. /\ a \in Seq(S)
        /\ Len(a) = k - 1
        /\ \A i \in 1..k - 1 : a[i] = s[i]
    <2>1. \A i \in 1..k - 1 : s[i] \in S
      BY <1>1, <1>2
    <2>2. /\ SubSeq(s, 1, k - 1) \in Seq(S)
          /\ Len(SubSeq(s, 1, k - 1)) = IF 1 <= k - 1 THEN k - 1 - 1 + 1 ELSE 0
          /\ \A i \in 1..(k - 1) - 1 + 1 : SubSeq(s, 1, k - 1)[i] = s[1 + i - 1]
      BY <2>1, <1>1, <1>2
    <2> QED
      BY <2>2, <1>1, <1>2
  <1>4. /\ b \in Seq(S)
        /\ Len(b) = Len(s) - k
        /\ \A i \in 1..Len(s) - k : b[i] = s[k + i]
    <2>1. \A i \in k + 1..Len(s) : s[i] \in S
      BY <1>1, <1>2
    <2>2. /\ SubSeq(s, k + 1, Len(s)) \in Seq(S)
          /\ Len(SubSeq(s, k + 1, Len(s))) = IF k + 1 <= Len(s) THEN Len(s) - (k + 1) + 1 ELSE 0
          /\ \A i \in 1..Len(s) - (k + 1) + 1 : SubSeq(s, k + 1, Len(s))[i] = s[(k + 1) + i - 1]
      BY <2>1, <1>1, <1>2
    <2> QED
      BY <2>2, <1>1, <1>2
  <1> HIDE DEF k, a, b
  <1>5. /\ t \in Seq(S)
        /\ Len(t) = Len(s) - 1
        /\ \A i \in 1..Len(s) - 1 : t[i] = IF i < k THEN s[i] ELSE s[i + 1]
    <2>1. t = a \o b
      BY DEF Without, a, b, k
    <2>2. /\ a \o b \in Seq(S)
          /\ Len(a \o b) = Len(a) + Len(b)
          /\ \A i \in 1..Len(a) + Len(b) : (a \o b)[i] = IF i <= Len(a) THEN a[i] ELSE b[i - Len(a)]
      <3>1. a \in Seq(S) /\ b \in Seq(S)
        BY <1>3, <1>4
      <3> QED BY <3>1
    <2>3. ASSUME NEW i \in 1..Len(s) - 1
          PROVE  (a \o b)[i] = IF i < k THEN s[i] ELSE s[i + 1]
      <3>1. CASE i < k
        BY <3>1, <2>2, <1>1, <1>2, <1>3, <1>4
      <3>2. CASE ~(i < k)
        <4>1. i - Len(a) \in 1..Len(s) - k /\ k + (i - Len(a)) = i + 1
          BY <3>2, <1>1, <1>2, <1>3
        <4>2. b[i - Len(a)] = s[k + (i - Len(a))]
          BY <4>1, <1>4
        <4>3. i \in 1..Len(a) + Len(b) /\ ~(i <= Len(a))
          BY <3>2, <1>1, <1>2, <1>3, <1>4
        <4>4. (a \o b)[i] = b[i - Len(a)]
          BY <4>3, <2>2
        <4>5. (a \o b)[i] = s[i + 1]
          BY <4>1, <4>2, <4>4
        <4> QED
          BY <3>2, <4>5
      <3> QED
        BY <3>1, <3>2
    <2> QED
      BY <2>1, <2>2, <2>3, <1>1, <1>2, <1>3, <1>4
  <1> HIDE DEF t
  <1>6. DOMAIN t = 1..Len(t)
    BY <1>5
  <1>7. IsInjective(t)
    <2> SUFFICES ASSUME NEW i \in 1..Len(t), NEW j \in 1..Len(t), t[i] = t[j]
                 PROVE  i = j
      BY <1>6 DEF IsInjective
    <2> DEFINE f(n) == IF n < k THEN n ELSE n + 1
    <2>1. /\ f(i) \in 1..Len(s) /\ t[i] = s[f(i)]
          /\ f(j) \in 1..Len(s) /\ t[j] = s[f(j)]
      BY <1>1, <1>2, <1>5
    <2>2. f(i) = f(j)
      BY <2>1, <1>2 DEF IsInjective
    <2> QED
      BY <2>2, <1>1
  <1>8. ASSUME NEW q
        PROVE  q \in Range(t) <=> q \in Range(s) /\ q # p
    <2>1. ASSUME q \in Range(t)
          PROVE  q \in Range(s) /\ q # p
      <3>1. PICK i \in 1..Len(t) : t[i] = q
        BY <2>1, <1>6 DEF Range
      <3> DEFINE j == IF i < k THEN i ELSE i + 1
      <3>2. j \in 1..Len(s) /\ j # k /\ s[j] = q
        BY <3>1, <1>1, <1>2, <1>5
      <3> QED
        BY <3>2, <1>1, <1>2 DEF Range, IsInjective
    <2>2. ASSUME q \in Range(s), q # p
          PROVE  q \in Range(t)
      <3>1. PICK i \in 1..Len(s) : s[i] = q
        BY <2>2 DEF Range
      <3>2. CASE i < k
        <4>1. i \in 1..Len(t) /\ t[i] = q
          BY <3>1, <3>2, <1>1, <1>2, <1>5
        <4> QED
          BY <4>1, <1>6 DEF Range
      <3>3. CASE i > k
        <4>1. i - 1 \in 1..Len(t) /\ t[i - 1] = q
          BY <3>1, <3>3, <1>1, <1>2, <1>5
        <4> QED
          BY <4>1, <1>6 DEF Range
      <3> QED
        BY <3>1, <3>2, <3>3, <2>2, <1>1, <1>2
    <2> QED
      BY <2>1, <2>2
  <1> QED
    BY <1>5, <1>7, <1>8 DEF t

-----------------------------------------------------------------------------
(* What each operation makes of a lock of the processes S.                 *)

\* A free lock is a lock, and nobody is in it.
LEMMA FreeLock ==
  ASSUME NEW S, None \notin S
  PROVE  LockOK(Free, S) /\ \A q \in S : ~Inside(Free, q)
<1>1. IsInjective(<< >>) /\ Range(<< >>) = {} /\ << >> \in Seq(S)
  BY DEF IsInjective, Range
<1> QED BY <1>1 DEF LockOK, Free, Inside, Queued

\* Taking a free lock.
LEMMA GrabLock ==
  ASSUME NEW S, None \notin S, NEW l, NEW p \in S, LockOK(l, S), l.owner = None
  PROVE  /\ LockOK(Grab(l, p), S)
         /\ Grab(l, p).owner = p
         /\ Grab(l, p).queue = << >>
         /\ \A q \in S : Inside(Grab(l, p), q) <=> q = p
<1>1. Range(<< >>) = {}
  BY DEF Range
<1> QED BY <1>1 DEF LockOK, Grab, Inside, Queued

\* Queueing at an owned lock.
LEMMA JoinLock ==
  ASSUME NEW S, None \notin S, NEW l, NEW p \in S,
         LockOK(l, S), l.owner # None, ~Inside(l, p)
  PROVE  /\ LockOK(Join(l, p), S)
         /\ Join(l, p).owner = l.owner
         /\ Len(Join(l, p).queue) = Len(l.queue) + 1
         /\ \A q \in S : Inside(Join(l, p), q) <=> Inside(l, q) \/ q = p
<1>1. p \notin Range(l.queue) /\ l.owner # p
  BY DEF Inside, Queued
<1>2. /\ Append(l.queue, p) \in Seq(S)
      /\ Len(Append(l.queue, p)) = Len(l.queue) + 1
      /\ IsInjective(Append(l.queue, p))
      /\ \A q : q \in Range(Append(l.queue, p)) <=> q \in Range(l.queue) \/ q = p
  BY <1>1, AppendQueue DEF LockOK
<1> QED BY <1>1, <1>2 DEF LockOK, Join, Inside, Queued

\* Leaving the queue.
LEMMA LeaveLock ==
  ASSUME NEW S, None \notin S, NEW l, NEW p \in S, LockOK(l, S), p \in Queued(l)
  PROVE  /\ LockOK(Leave(l, p), S)
         /\ Leave(l, p).owner = l.owner
         /\ Len(Leave(l, p).queue) = Len(l.queue) - 1
         /\ \A q \in S : Inside(Leave(l, p), q) <=> Inside(l, q) /\ q # p
<1>1. p \in Range(l.queue) /\ l.owner # p
  BY DEF LockOK, Queued
<1>2. /\ Without(l.queue, p) \in Seq(S)
      /\ Len(Without(l.queue, p)) = Len(l.queue) - 1
      /\ IsInjective(Without(l.queue, p))
      /\ \A q : q \in Range(Without(l.queue, p)) <=> q \in Range(l.queue) /\ q # p
  BY <1>1, WithoutQueue DEF LockOK
<1>3. l.owner # None
  <2>1. Range(<< >>) = {}
    BY DEF Range
  <2> QED BY <2>1, <1>1 DEF LockOK
<1> QED BY <1>1, <1>2, <1>3 DEF LockOK, Leave, Inside, Queued

\* The owner p lets go.
LEMMA PassLock ==
  ASSUME NEW S, None \notin S, NEW l, NEW p \in S, LockOK(l, S), l.owner = p
  PROVE  /\ LockOK(Pass(l), S)
         /\ Len(Pass(l).queue) <= Len(l.queue)
         /\ \A q \in S : Inside(Pass(l), q) <=> Inside(l, q) /\ q # p
<1>1. CASE l.queue = << >>
  <2>1. Range(<< >>) = {}
    BY DEF Range
  <2> QED BY <1>1, <2>1, FreeLock DEF Pass, Free, Inside, Queued
<1>2. CASE l.queue # << >>
  <2>1. /\ Head(l.queue) \in S /\ Head(l.queue) \in Range(l.queue)
        /\ Tail(l.queue) \in Seq(S)
        /\ Len(Tail(l.queue)) = Len(l.queue) - 1
        /\ IsInjective(Tail(l.queue))
        /\ \A q : q \in Range(Tail(l.queue)) <=> q \in Range(l.queue) /\ q # Head(l.queue)
    BY <1>2, TailQueue DEF LockOK
  <2>2. Pass(l) = [owner |-> Head(l.queue), queue |-> Tail(l.queue)]
    BY <1>2 DEF Pass
  <2>3. Len(l.queue) \in Nat
    BY DEF LockOK
  <2> QED BY <2>1, <2>2, <2>3 DEF LockOK, Inside, Queued
<1> QED BY <1>1, <1>2

-----------------------------------------------------------------------------
(* Sums over finite sets                                                   *)

Pick(s) == CHOOSE x \in s : TRUE

Total(f, S) == MapThenSumSet(LAMBDA x : f[x], S)

\* g is the running sum of f over the subsets of S.
SumsUp(g, f, S) ==
  g = [s \in SUBSET S |-> IF s = {} THEN 0 ELSE f[Pick(s)] + g[s \ {Pick(s)}]]

\* Among sets of subsets of a finite set some are smallest.
LEMMA SmallestSet ==
  ASSUME NEW S, IsFiniteSet(S), NEW B \in SUBSET (SUBSET S), B # {}
  PROVE  \E t \in B : \A u \in B : u \subseteq t => u = t
<1>1. IsWellFoundedOn(StrictSubsetOrdering(S), SUBSET S)
  BY FS_StrictSubsetOrderingWellFounded, FS_FiniteSubsetsOfFinite
<1>2. PICK t \in B : \A u \in B : <<u, t>> \notin StrictSubsetOrdering(S)
  BY <1>1, WFMin
<1>3. ASSUME NEW u \in B, u \subseteq t, u # t
      PROVE  FALSE
  <2>1. u \in SUBSET S /\ t \in SUBSET S
    BY <1>3
  <2>2. <<u, t>> \in StrictSubsetOrdering(S)
    BY <1>3, <2>1 DEF StrictSubsetOrdering
  <2> QED BY <1>2, <1>3, <2>2
<1> QED BY <1>2, <1>3

\* A set that is not empty has the member that Pick picks.
LEMMA PickIn ==
  ASSUME NEW s, s # {}
  PROVE  Pick(s) \in s
BY DEF Pick

\* Running sums over two sets agree on the subsets of both.
LEMMA SumsAgree ==
  ASSUME NEW f, NEW g, NEW h, NEW S, NEW T, IsFiniteSet(S),
         SumsUp(g, f, S), SumsUp(h, f, T)
  PROVE  \A s \in (SUBSET S) \cap (SUBSET T) : g[s] = h[s]
<1> DEFINE B == {s \in (SUBSET S) \cap (SUBSET T) : g[s] # h[s]}
<1> SUFFICES ASSUME B # {} PROVE FALSE
  OBVIOUS
<1>1. B \in SUBSET (SUBSET S)
  OBVIOUS
<1>2. PICK t \in B : \A u \in B : u \subseteq t => u = t
  <2> HIDE DEF B
  <2> QED BY <1>1, SmallestSet
<1>3. /\ g[t] = IF t = {} THEN 0 ELSE f[Pick(t)] + g[t \ {Pick(t)}]
      /\ h[t] = IF t = {} THEN 0 ELSE f[Pick(t)] + h[t \ {Pick(t)}]
  <2>1. t \in SUBSET S /\ t \in SUBSET T
    BY <1>2
  <2> QED BY <2>1, Zenon DEF SumsUp
<1>4. t # {}
  BY <1>2, <1>3
<1>5. t \ {Pick(t)} \notin B
  BY <1>2, <1>4, PickIn
<1>6. g[t \ {Pick(t)}] = h[t \ {Pick(t)}]
  BY <1>5
<1> QED BY <1>2, <1>3, <1>6

\* Running sums exist over every finite set.
LEMMA SumsExist ==
  ASSUME NEW f, NEW S, IsFiniteSet(S)
  PROVE  \E g : SumsUp(g, f, S)
<1> DEFINE B == {s \in SUBSET S : ~ \E g : SumsUp(g, f, s)}
<1> SUFFICES ASSUME B # {} PROVE FALSE
  OBVIOUS
<1>1. B \in SUBSET (SUBSET S)
  OBVIOUS
<1>2. PICK t \in B : \A u \in B : u \subseteq t => u = t
  <2> HIDE DEF B
  <2> QED BY <1>1, SmallestSet
<1> DEFINE G(u) == CHOOSE g : SumsUp(g, f, u)
           Step(u) == IF u = {} THEN 0 ELSE f[Pick(u)] + G(u \ {Pick(u)})[u \ {Pick(u)}]
           H == [u \in SUBSET t |-> Step(u)]
<1>3. \A u \in SUBSET t : u # t => SumsUp(G(u), f, u) /\ IsFiniteSet(u)
  <2> TAKE u \in SUBSET t
  <2> HAVE u # t
  <2>1. u \in SUBSET S /\ u \notin B
    BY <1>2
  <2>2. \E g : SumsUp(g, f, u)
    BY <2>1
  <2>3. IsFiniteSet(u)
    BY <2>1, FS_Subset
  <2> HIDE DEF B
  <2> QED BY <2>2, <2>3
<1>4. ASSUME NEW u \in SUBSET t, u # t
      PROVE  H[u] = G(u)[u]
  <2>1. CASE u = {}
    <3>1. SumsUp(G(u), f, u)
      BY <1>3, <1>4
    <3>2. G(u)[u] = 0
      <4> HIDE DEF G
      <4> QED BY <2>1, <3>1 DEF SumsUp
    <3> QED BY <2>1, <3>2
  <2>2. CASE u # {}
    <3> DEFINE v == u \ {Pick(u)}
    <3>1. Pick(u) \in u /\ v \in SUBSET t /\ v # t /\ v \in SUBSET u
      BY <1>4, <2>2, PickIn
    <3>2. SumsUp(G(u), f, u) /\ IsFiniteSet(u) /\ SumsUp(G(v), f, v)
      BY <1>3, <1>4, <3>1
    <3>3. G(u)[u] = f[Pick(u)] + G(u)[v]
      <4> HIDE DEF G
      <4> QED BY <2>2, <3>2 DEF SumsUp
    <3>4. G(u)[v] = G(v)[v]
      <4>1. v \in (SUBSET u) \cap (SUBSET v)
        BY <3>1
      <4> HIDE DEF G, v
      <4> QED BY <3>2, <4>1, SumsAgree
    <3>5. H[u] = f[Pick(u)] + G(v)[v]
      <4> HIDE DEF G
      <4> QED BY <2>2, <1>4
    <3> QED BY <3>3, <3>4, <3>5
  <2> QED BY <2>1, <2>2
<1>5. ASSUME NEW u \in SUBSET t
      PROVE  H[u] = IF u = {} THEN 0 ELSE f[Pick(u)] + H[u \ {Pick(u)}]
  <2>1. CASE u = {}
    BY <2>1
  <2>2. CASE u # {}
    <3> DEFINE v == u \ {Pick(u)}
    <3>1. Pick(u) \in u /\ v \in SUBSET t /\ v # t
      BY <2>2, PickIn
    <3>2. H[v] = G(v)[v]
      BY <1>4, <3>1
    <3>3. H[u] = f[Pick(u)] + G(v)[v]
      <4> HIDE DEF G
      <4> QED BY <2>2
    <3> QED BY <2>2, <3>2, <3>3
  <2> QED BY <2>1, <2>2
<1>6. H = [u \in SUBSET t |-> IF u = {} THEN 0 ELSE f[Pick(u)] + H[u \ {Pick(u)}]]
  <2> DEFINE K == [u \in SUBSET t |-> IF u = {} THEN 0 ELSE f[Pick(u)] + H[u \ {Pick(u)}]]
  <2>1. \A u \in SUBSET t : H[u] = K[u]
    <3> TAKE u \in SUBSET t
    <3>1. H[u] = IF u = {} THEN 0 ELSE f[Pick(u)] + H[u \ {Pick(u)}]
      BY <1>5
    <3> HIDE DEF H
    <3> QED BY <3>1
  <2>2. H = [u \in SUBSET t |-> H[u]] /\ K = [u \in SUBSET t |-> K[u]]
    <3>1. H = [u \in SUBSET t |-> H[u]]
      <4> HIDE DEF Step
      <4> QED OBVIOUS
    <3>2. K = [u \in SUBSET t |-> K[u]]
      <4> HIDE DEF H
      <4> QED OBVIOUS
    <3> QED BY <3>1, <3>2
  <2> HIDE DEF H, K
  <2>3. [u \in SUBSET t |-> H[u]] = [u \in SUBSET t |-> K[u]]
    BY <2>1
  <2>4. H = K
    BY <2>2, <2>3
  <2> QED BY <2>4 DEF K
<1>7. SumsUp(H, f, t)
  <2> HIDE DEF H
  <2> QED BY <1>6 DEF SumsUp
<1>8. t \notin B
  <2> HIDE DEF H
  <2> QED BY <1>7
<1> QED BY <1>2, <1>8

\* The sum over no members is 0; any other is what Pick picks and the rest.
LEMMA TotalStep ==
  ASSUME NEW f, NEW S, IsFiniteSet(S)
  PROVE  Total(f, S) = IF S = {} THEN 0 ELSE f[Pick(S)] + Total(f, S \ {Pick(S)})
<1> DEFINE G(u) == CHOOSE g : SumsUp(g, f, u)
<1>1. \A u : Total(f, u) = G(u)[u]
  BY DEF Total, MapThenSumSet, MapThenFoldSet, SumsUp, Pick
<1>2. \A u \in SUBSET S : SumsUp(G(u), f, u)
  <2> TAKE u \in SUBSET S
  <2>1. \E g : SumsUp(g, f, u)
    BY FS_Subset, SumsExist
  <2> QED BY <2>1
<1>3. G(S)[S] = IF S = {} THEN 0 ELSE f[Pick(S)] + G(S)[S \ {Pick(S)}]
  <2>1. SumsUp(G(S), f, S)
    BY <1>2
  <2> HIDE DEF G
  <2> QED BY <2>1, Zenon DEF SumsUp
<1>4. G(S)[S \ {Pick(S)}] = G(S \ {Pick(S)})[S \ {Pick(S)}]
  <2> DEFINE v == S \ {Pick(S)}
  <2>1. v \in (SUBSET S) \cap (SUBSET v)
    OBVIOUS
  <2>2. SumsUp(G(S), f, S) /\ SumsUp(G(v), f, v)
    BY <1>2, <2>1
  <2> HIDE DEF G, v
  <2>3. G(S)[v] = G(v)[v]
    BY <2>1, <2>2, SumsAgree
  <2> QED BY <2>3 DEF v
<1> HIDE DEF G
<1> QED BY <1>1, <1>3, <1>4

\* A sum of natural numbers is one.
LEMMA TotalNat ==
  ASSUME NEW S, IsFiniteSet(S), NEW f, \A x \in S : f[x] \in Nat
  PROVE  Total(f, S) \in Nat
<1> DEFINE B == {s \in SUBSET S : Total(f, s) \notin Nat}
<1> SUFFICES ASSUME B # {} PROVE FALSE
  OBVIOUS
<1>1. PICK t \in B : \A u \in B : u \subseteq t => u = t
  <2>1. B \in SUBSET (SUBSET S)
    OBVIOUS
  <2> HIDE DEF B
  <2> QED BY <2>1, SmallestSet
<1>2. Total(f, t) = IF t = {} THEN 0 ELSE f[Pick(t)] + Total(f, t \ {Pick(t)})
  BY <1>1, FS_Subset, TotalStep
<1>3. t # {}
  BY <1>1, <1>2
<1>4. Pick(t) \in t /\ t \ {Pick(t)} \notin B
  BY <1>1, <1>3, PickIn
<1>5. f[Pick(t)] \in Nat /\ Total(f, t \ {Pick(t)}) \in Nat
  BY <1>1, <1>4
<1> QED BY <1>1, <1>2, <1>3, <1>5

\* A sum of zeros is 0.
LEMMA TotalZero ==
  ASSUME NEW S, IsFiniteSet(S), NEW f, \A x \in S : f[x] = 0
  PROVE  Total(f, S) = 0
<1> DEFINE B == {s \in SUBSET S : Total(f, s) # 0}
<1> SUFFICES ASSUME B # {} PROVE FALSE
  OBVIOUS
<1>1. PICK t \in B : \A u \in B : u \subseteq t => u = t
  <2>1. B \in SUBSET (SUBSET S)
    OBVIOUS
  <2> HIDE DEF B
  <2> QED BY <2>1, SmallestSet
<1>2. Total(f, t) = IF t = {} THEN 0 ELSE f[Pick(t)] + Total(f, t \ {Pick(t)})
  BY <1>1, FS_Subset, TotalStep
<1>3. t # {}
  BY <1>1, <1>2
<1>4. Pick(t) \in t /\ t \ {Pick(t)} \notin B
  BY <1>1, <1>3, PickIn
<1>5. f[Pick(t)] = 0 /\ Total(f, t \ {Pick(t)}) = 0
  BY <1>1, <1>4
<1> QED BY <1>1, <1>2, <1>3, <1>5

\* Functions that agree on a set have the same sum over it.
LEMMA TotalSame ==
  ASSUME NEW S, IsFiniteSet(S), NEW f, NEW g, \A x \in S : f[x] = g[x]
  PROVE  Total(f, S) = Total(g, S)
<1> DEFINE B == {s \in SUBSET S : Total(f, s) # Total(g, s)}
<1> SUFFICES ASSUME B # {} PROVE FALSE
  OBVIOUS
<1>1. PICK t \in B : \A u \in B : u \subseteq t => u = t
  <2>1. B \in SUBSET (SUBSET S)
    OBVIOUS
  <2> HIDE DEF B
  <2> QED BY <2>1, SmallestSet
<1>2. /\ Total(f, t) = IF t = {} THEN 0 ELSE f[Pick(t)] + Total(f, t \ {Pick(t)})
      /\ Total(g, t) = IF t = {} THEN 0 ELSE g[Pick(t)] + Total(g, t \ {Pick(t)})
  BY <1>1, FS_Subset, TotalStep
<1>3. t # {}
  BY <1>1, <1>2
<1>4. Pick(t) \in t /\ t \ {Pick(t)} \notin B
  BY <1>1, <1>3, PickIn
<1>5. f[Pick(t)] = g[Pick(t)] /\ Total(f, t \ {Pick(t)}) = Total(g, t \ {Pick(t)})
  BY <1>1, <1>4
<1> QED BY <1>1, <1>2, <1>3, <1>5

\* Any member may be taken out of a sum first.
LEMMA TotalTake ==
  ASSUME NEW S, IsFiniteSet(S), NEW f, \A x \in S : f[x] \in Nat, NEW x \in S
  PROVE  Total(f, S) = f[x] + Total(f, S \ {x})
<1> DEFINE B == {s \in SUBSET S : \E y \in s : Total(f, s) # f[y] + Total(f, s \ {y})}
<1> SUFFICES ASSUME B # {} PROVE FALSE
  OBVIOUS
<1>1. PICK t \in B : \A u \in B : u \subseteq t => u = t
  <2>1. B \in SUBSET (SUBSET S)
    OBVIOUS
  <2> HIDE DEF B
  <2> QED BY <2>1, SmallestSet
<1>2. PICK y \in t : Total(f, t) # f[y] + Total(f, t \ {y})
  BY <1>1
<1>3. PICK p : p = Pick(t)
  OBVIOUS
<1>4. p \in t /\ Total(f, t) = f[p] + Total(f, t \ {p})
  BY <1>1, <1>2, <1>3, FS_Subset, TotalStep, PickIn
<1>5. p # y
  BY <1>2, <1>4
<1>6. \A u \in SUBSET t : \A z \in u : u # t => Total(f, u) = f[z] + Total(f, u \ {z})
  BY <1>1
<1>7. Total(f, t \ {p}) = f[y] + Total(f, (t \ {p}) \ {y})
  BY <1>2, <1>4, <1>5, <1>6
<1>8. Total(f, t \ {y}) = f[p] + Total(f, (t \ {y}) \ {p})
  BY <1>2, <1>4, <1>5, <1>6
<1>9. (t \ {y}) \ {p} = (t \ {p}) \ {y}
  OBVIOUS
<1>10. f[p] \in Nat /\ f[y] \in Nat /\ Total(f, (t \ {p}) \ {y}) \in Nat
  <2>1. (t \ {p}) \ {y} \in SUBSET S
    BY <1>1
  <2> QED BY <1>1, <1>2, <1>4, <2>1, FS_Subset, TotalNat
<1>11. Total(f, t) = f[y] + Total(f, t \ {y})
  <2> HIDE DEF B
  <2> QED BY <1>4, <1>7, <1>8, <1>9, <1>10
<1> QED BY <1>2, <1>11

\* Changing what one member counts for changes the sum by as much.
LEMMA TotalPut ==
  ASSUME NEW S, IsFiniteSet(S), NEW f \in [S -> Nat], NEW g \in [S -> Nat],
         NEW x \in S, \A y \in S \ {x} : f[y] = g[y]
  PROVE  Total(g, S) = Total(f, S) - f[x] + g[x]
<1>1. Total(f, S) = f[x] + Total(f, S \ {x}) /\ Total(g, S) = g[x] + Total(g, S \ {x})
  BY TotalTake
<1>2. Total(f, S \ {x}) = Total(g, S \ {x}) /\ Total(f, S \ {x}) \in Nat
  BY FS_Subset, TotalSame, TotalNat
<1> QED BY <1>1, <1>2

\* Clearing the members of V takes their sum out.
LEMMA TotalClear ==
  ASSUME NEW S, IsFiniteSet(S), NEW f \in [S -> Nat], NEW V \in SUBSET S
  PROVE  Total([x \in S |-> IF x \in V THEN 0 ELSE f[x]], S) = Total(f, S) - Total(f, V)
<1>1. PICK g : g = [x \in S |-> IF x \in V THEN 0 ELSE f[x]]
  OBVIOUS
<1> DEFINE B == {s \in SUBSET S : Total(f, s) # Total(g, s) + Total(f, s \cap V)}
<1>2. B = {}
  <2> SUFFICES ASSUME B # {} PROVE FALSE
    OBVIOUS
  <2>1. PICK t \in B : \A u \in B : u \subseteq t => u = t
    <3>1. B \in SUBSET (SUBSET S)
      OBVIOUS
    <3> HIDE DEF B
    <3> QED BY <3>1, SmallestSet
  <2>2. t \in SUBSET S /\ IsFiniteSet(t) /\ IsFiniteSet(t \cap V)
    BY <2>1, FS_Subset
  <2>3. CASE t = {}
    <3>1. Total(f, t) = 0 /\ Total(g, t) = 0 /\ t \cap V = t
      BY <2>2, <2>3, TotalStep
    <3>2. Total(f, t) = Total(g, t) + Total(f, t \cap V)
      <4> HIDE DEF B
      <4>1. Total(f, t \cap V) = 0
        BY <3>1, Zenon
      <4> QED BY <3>1, <4>1
    <3> QED BY <2>1, <3>2
  <2>4. CASE t # {}
    <3>1. PICK p \in t : TRUE
      BY <2>4
    <3> DEFINE u == t \ {p}
    <3>2. Total(f, u) = Total(g, u) + Total(f, u \cap V)
      BY <2>1, <3>1
    <3>3. /\ \A x \in t : f[x] \in Nat /\ g[x] \in Nat
          /\ f[p] \in Nat /\ g[p] = IF p \in V THEN 0 ELSE f[p]
      BY <1>1, <2>2, <3>1
    <3>4. Total(f, t) = f[p] + Total(f, u) /\ Total(g, t) = g[p] + Total(g, u)
      BY <2>2, <3>1, <3>3, TotalTake
    <3>5. Total(f, t \cap V) = IF p \in V THEN f[p] + Total(f, u \cap V) ELSE Total(f, u \cap V)
      <4>1. CASE p \in V
        <5>1. p \in t \cap V /\ (t \cap V) \ {p} = u \cap V
          BY <3>1, <4>1
        <5>2. \A x \in t \cap V : f[x] \in Nat
          BY <3>3
        <5>3. Total(f, t \cap V) = f[p] + Total(f, (t \cap V) \ {p})
          BY <2>2, <5>1, <5>2, TotalTake
        <5> QED BY <4>1, <5>1, <5>3
      <4>2. CASE p \notin V
        <5>1. t \cap V = u \cap V
          BY <4>2
        <5> QED BY <4>2, <5>1
      <4> QED BY <4>1, <4>2
    <3>6. Total(g, u) \in Nat /\ Total(f, u \cap V) \in Nat
      <4>1. u \in SUBSET t /\ u \cap V \in SUBSET t
        OBVIOUS
      <4>2. IsFiniteSet(u) /\ IsFiniteSet(u \cap V)
        BY <2>2, <4>1, FS_Subset
      <4> QED BY <3>3, <4>1, <4>2, TotalNat
    <3>7. Total(f, t) = Total(g, t) + Total(f, t \cap V)
      <4> HIDE DEF B, u
      <4> QED BY <3>2, <3>3, <3>4, <3>5, <3>6
    <3> QED BY <2>1, <3>7
  <2> QED BY <2>3, <2>4
<1>3. Total(f, S) = Total(g, S) + Total(f, S \cap V) /\ S \cap V = V
  BY <1>2
<1>4. Total(g, S) \in Nat /\ Total(f, V) \in Nat
  <2>1. \A x \in S : g[x] \in Nat
    BY <1>1
  <2> QED BY <2>1, FS_Subset, TotalNat
<1> HIDE DEF B
<1> QED BY <1>1, <1>3, <1>4

=============================================================================
