-------------------------- MODULE BucketTableProofs --------------------------
(***************************************************************************)
(* The buckets of a credential, for any requests, routes and slots: what   *)
(* the invariant TableInv is made of, that every step keeps it, what       *)
(* follows from it, and that no step but time shortens a cooldown.         *)
(***************************************************************************)
EXTENDS BucketTable, DataProofs

\* The provers, and the time each is given for a leaf.
USE ZenonT(10), SMTT(30)

-----------------------------------------------------------------------------
(* The parts of the invariant, by the state they are about                 *)

SlotsPart == SlotsExact /\ IsFiniteSet(Held(buckets)) /\ IsFiniteSet(Held(aliases))
ActivePart == ActiveExact /\ \A b \in Buckets : IsFiniteSet(Users(b))

\* The invariant is its types and its parts.
LEMMA Parts == TableInv <=> TypeOK /\ SlotsPart /\ ActivePart /\ GatesOK /\ Seated /\ ActsThroughOwnBucket
BY Zenon DEF TableInv, CountsExact, CountsFinite, SlotsPart, ActivePart

\* So it holds after a step that leaves all of them true.
LEMMA PartsNext ==
  ASSUME TypeOK', SlotsPart', ActivePart', GatesOK', Seated', ActsThroughOwnBucket'
  PROVE  TableInv'
BY Zenon DEF TableInv, CountsExact, CountsFinite, SlotsPart, ActivePart

\* The initial state satisfies the invariant.
LEMMA TableInit == Init => TableInv
<1> SUFFICES ASSUME Init PROVE TableInv
  OBVIOUS
<1>1. Held(buckets) = {} /\ Held(aliases) = {}
  BY DEF Init, Held
<1>2. \A b \in Buckets : Users(b) = {}
  BY DEF Init, Users, Counted, Acting
<1>3. SlotsPart /\ ActivePart
  <2>1. IsFiniteSet({}) /\ Cardinality({}) = 0
    BY FS_EmptySet
  <2>2. used = 0 /\ \A b \in Buckets : active[b] = 0
    BY DEF Init
  <2>3. SlotsPart
    <3>1. Cardinality(Held(buckets)) = 0 /\ Cardinality(Held(aliases)) = 0
      BY <1>1, <2>1, Zenon
    <3>2. SlotsExact
      BY <3>1, <2>2 DEF SlotsExact
    <3> QED BY <3>2, <1>1, <2>1, Zenon DEF SlotsPart
  <2>4. ActivePart
    BY <1>2, <2>1, <2>2, Zenon DEF ActivePart, ActiveExact
  <2> QED BY <2>3, <2>4
<1>4. LockOK(Free, Requests) /\ \A q \in Requests : ~Inside(Free, q)
  BY FreeLock, TableAssumption
<1>5. GatesOK
  BY <1>4 DEF Init, GatesOK, Free, LockOK
<1>6. Seated
  BY <1>4 DEF Init, Seated, InGate, Counted, Acting
<1>7. ActsThroughOwnBucket
  BY DEF Init, ActsThroughOwnBucket, Acting
<1>8. TypeOK
  <2>1. Free.owner = None /\ Free.queue = << >> /\ Len(<< >>) = 0 /\ << >> \in Seq(Requests)
    BY DEF Free
  <2>2. pc \in [Requests -> Places]
    BY DEF Init, Places
  <2>3. \A b \in Buckets : /\ gate[b].owner \in Requests \cup {None}
                            /\ gate[b].queue \in Seq(Requests)
                            /\ Len(gate[b].queue) <= MaxWaiters
    <3>1. 0 <= MaxWaiters
      BY TableAssumption
    <3>2. \A b \in Buckets : gate[b].owner = None /\ gate[b].queue = << >>
      BY <2>1 DEF Init
    <3> QED BY <3>1, <3>2, <2>1, Zenon
  <2>4. buckets \in [Keys -> Buckets \cup {None}] /\ aliases \in [Routes -> Canonicals \cup {None}]
    BY DEF Init
  <2>5. used \in 0..Slots /\ active \in [Buckets -> Nat] /\ left \in [Buckets -> 0..MaxBlock]
    BY TableAssumption DEF Init
  <2>6. /\ cur \in [Requests -> Buckets \cup {None}] /\ tgt \in [Requests -> Buckets \cup {None}]
        /\ stale \in SUBSET Buckets
    BY DEF Init
  <2> QED BY <2>2, <2>3, <2>4, <2>5, <2>6, Zenon DEF TypeOK
<1> QED BY <1>3, <1>5, <1>6, <1>7, <1>8, Parts

-----------------------------------------------------------------------------
(* What a step that leaves some of the state alone keeps                   *)

\* The slots in use depend on the table alone.
LEMMA KeepSlots ==
  ASSUME TableInv, UNCHANGED tableVars
  PROVE  SlotsPart'
BY Parts DEF SlotsPart, SlotsExact, Held, tableVars

\* The active count changes only when a request starts or stops being counted.
LEMMA KeepActive ==
  ASSUME TableInv, UNCHANGED active,
         \A b \in Buckets : Users(b)' = Users(b)
  PROVE  ActivePart'
BY Parts DEF ActivePart, ActiveExact

\* Moving between two places that are both counted, or both not, at one bucket.
LEMMA SameUsers ==
  ASSUME TableInv, NEW q \in Requests, NEW to \in Places, Goto(q, to),
         pc[q] \in Counted <=> to \in Counted, UNCHANGED cur
  PROVE  \A b \in Buckets : Users(b)' = Users(b)
<1>1. pc \in [Requests -> Places]
  BY Parts DEF TypeOK
<1>2. ASSUME NEW p \in Requests
      PROVE  pc'[p] \in Counted <=> pc[p] \in Counted
  BY <1>1 DEF Goto
<1> QED BY <1>2 DEF Users

\* Who is past acquire owns the gate of its bucket, so two of them are at two
\* different buckets.
LEMMA OwnersApart ==
  ASSUME Seated, NEW p \in Requests, NEW q \in Requests,
         pc[p] \in InGate \ {"acquiring"}, pc[q] \in InGate \ {"acquiring"}, cur[p] = cur[q]
  PROVE  p = q
BY DEF Seated

\* A request in acquireBucket or after has a bucket.
LEMMA AtBucket ==
  ASSUME TableInv, NEW q \in Requests, pc[q] # "out"
  PROVE  \E b \in Buckets : b = cur[q]
<1>1. cur[q] # None
  BY Parts, Zenon DEF Seated
<1>2. cur[q] \in Buckets \cup {None}
  BY Parts DEF TypeOK
<1> QED BY <1>1, <1>2

\* The owner of a gate moves on without giving it up and without touching the
\* table or a bucket: Granted, WaitDone, Dispatch, GiveUp and the cases of
\* Recheck and learnBucket that change nothing.
LEMMA MoveOn ==
  ASSUME TableInv, NEW q \in Requests, NEW to \in Counted \ {"acquiring"}, Goto(q, to),
         pc[q] \in Counted, gate[cur[q]].owner = q,
         to \in Acting => cur[q] = Resolve(RouteOf[q]),
         UNCHANGED <<tableVars, bucketVars, cur, tgt>>,
         tgt[q] = None
  PROVE  TableInv'
<1> USE DEF Goto
<1>1. to \in Places /\ to # "out"
  BY DEF Counted, Acting, Places
<1>2. TypeOK'
  BY <1>1, Parts DEF TypeOK, tableVars, bucketVars
<1>3. SlotsPart'
  BY KeepSlots
<1>4. ActivePart'
  BY <1>1, KeepActive, SameUsers DEF bucketVars
<1>5. GatesOK'
  BY Parts DEF GatesOK, bucketVars
<1>6. Seated'
  <2>1. pc \in [Requests -> Places] /\ pc[q] # "out"
    BY Parts DEF TypeOK, Counted, Acting
  <2>2. Seated
    BY Parts
  <2> QED BY <1>1, <2>1, <2>2 DEF Seated, InGate, bucketVars
<1>7. ActsThroughOwnBucket'
  BY Parts DEF TypeOK, ActsThroughOwnBucket, Resolve, KeyOf, tableVars, bucketVars
<1> QED BY <1>2, <1>3, <1>4, <1>5, <1>6, <1>7, PartsNext

-----------------------------------------------------------------------------
(* bucket(routeHash)                                                       *)

\* The key of a route is a key of the table: its own, or a canonical one.
LEMMA KeyType ==
  ASSUME TypeOK, NEW r \in Routes
  PROVE  KeyOf(r) \in Keys /\ (KeyOf(r) = r \/ KeyOf(r) \in Canonicals)
BY DEF TypeOK, KeyOf, Keys

\* Creating a bucket takes a free key, one slot and an object nobody refers to:
\* no other route's bucket, no gate that matters and no count changes.
LEMMA CreateKeeps ==
  ASSUME TableInv, NEW r \in Routes, NEW b \in Buckets, Create(r, b)
  PROVE  /\ SlotsPart'
         /\ buckets' \in [Keys -> Buckets \cup {None}] /\ used' \in 0..Slots
         /\ active' \in [Buckets -> Nat] /\ stale' \in SUBSET Buckets
         /\ left' \in [Buckets -> 0..MaxBlock]
         /\ Resolve(r)' = b
         /\ \A s \in Routes : Resolve(s) # None => Resolve(s)' = Resolve(s)
         /\ \A x \in Buckets : active'[x] = Cardinality(Users(x))
         /\ \A x \in Buckets, q \in Requests : Inside(gate'[x], q) <=> Inside(gate[x], q)
         /\ \A x \in Buckets : gate'[x].owner = gate[x].owner /\ Len(gate'[x].queue) <= MaxWaiters
         /\ GatesOK'
<1> DEFINE k == KeyOf(r)
<1>1. TypeOK /\ SlotsPart /\ ActivePart /\ GatesOK /\ Seated
  BY Parts
<1>2. /\ k \in Keys /\ buckets[k] = None /\ used + 1 <= Slots
      /\ buckets' = [buckets EXCEPT ![k] = b] /\ used' = used + 1 /\ aliases' = aliases
      /\ b # None
  BY <1>1, KeyType, TableAssumption DEF Create, Resolve
<1>3. /\ buckets' \in [Keys -> Buckets \cup {None}] /\ used' \in 0..Slots
      /\ active' \in [Buckets -> Nat] /\ stale' \in SUBSET Buckets
      /\ left' \in [Buckets -> 0..MaxBlock]
  BY <1>1, <1>2, TableAssumption DEF TypeOK, Create
<1>4. SlotsPart'
  <2>1. Held(buckets') = Held(buckets) \cup {k} /\ k \notin Held(buckets) /\ Held(aliases)' = Held(aliases)
    BY <1>1, <1>2 DEF TypeOK, Held
  <2>2. IsFiniteSet(Held(buckets')) /\ Cardinality(Held(buckets')) = Cardinality(Held(buckets)) + 1
    BY <2>1, <1>1, FS_AddElement DEF SlotsPart
  <2>3. Cardinality(Held(buckets)) \in Nat /\ Cardinality(Held(aliases)) \in Nat
    BY <1>1, FS_CardinalityType DEF SlotsPart
  <2> QED BY <2>1, <2>2, <2>3, <1>1, <1>2 DEF SlotsPart, SlotsExact
<1>5. Resolve(r)' = b /\ \A s \in Routes : Resolve(s) # None => Resolve(s)' = Resolve(s)
  <2>1. KeyOf(r)' = k /\ \A s \in Routes : KeyOf(s)' = KeyOf(s) /\ KeyOf(s) \in Keys
    BY <1>1, <1>2, KeyType DEF KeyOf
  <2> HIDE DEF k
  <2> QED BY <1>1, <1>2, <2>1 DEF TypeOK, Resolve
<1>6. \A q \in Requests : cur[q] # b
  BY DEF Create, Fresh
<1>7. \A x \in Buckets : active'[x] = Cardinality(Users(x))
  <2>1. Users(b) = {}
    BY <1>6 DEF Users
  <2>2. active'[b] = 0 /\ \A x \in Buckets : x # b => active'[x] = active[x]
    BY <1>1 DEF TypeOK, Create
  <2> QED BY <2>1, <2>2, <1>1, FS_EmptySet DEF ActivePart, ActiveExact
<1>8. LockOK(Free, Requests) /\ (\A q \in Requests : ~Inside(Free, q)) /\ Free.owner = None /\ Free.queue = << >>
  BY FreeLock, TableAssumption DEF Free
<1>9. /\ gate' = [gate EXCEPT ![b] = Free]
      /\ \A q \in Requests : ~Inside(gate[b], q)
  BY <1>1, <1>6 DEF Create, Seated
<1>10. gate[b].owner = None
  BY <1>1, <1>9 DEF GatesOK, LockOK, Inside
<1>11. /\ gate'[b] = Free
       /\ \A x \in Buckets : x # b => gate'[x] = gate[x]
  BY <1>1, <1>9 DEF GatesOK
<1>12. \A x \in Buckets, q \in Requests : Inside(gate'[x], q) <=> Inside(gate[x], q)
  BY <1>8, <1>9, <1>11
<1>13. \A x \in Buckets : gate'[x].owner = gate[x].owner /\ Len(gate'[x].queue) <= MaxWaiters
  <2>1. Len(<< >>) = 0 /\ 0 <= MaxWaiters
    BY TableAssumption
  <2>2. \A x \in Buckets : Len(gate[x].queue) <= MaxWaiters
    BY <1>1 DEF TypeOK
  <2> QED BY <1>8, <1>10, <1>11, <2>1, <2>2, Zenon
<1>14. GatesOK'
  <2>1. Free \in [owner : Requests \cup {None}, queue : Seq(Requests)]
    BY DEF Free
  <2> QED BY <1>1, <1>8, <1>9, <2>1 DEF GatesOK
<1> HIDE DEF k
<1> QED BY <1>3, <1>4, <1>5, <1>7, <1>12, <1>13, <1>14

\* What bucket(routeHash) may change, whether it finds the bucket or creates it.
LEMMA BucketKeeps ==
  ASSUME TableInv, NEW r \in Routes, NEW b \in Buckets, Bucket(r, b)
  PROVE  /\ SlotsPart' /\ GatesOK'
         /\ buckets' \in [Keys -> Buckets \cup {None}] /\ aliases' = aliases /\ used' \in 0..Slots
         /\ active' \in [Buckets -> Nat] /\ stale' \in SUBSET Buckets
         /\ left' \in [Buckets -> 0..MaxBlock]
         /\ Resolve(r)' = b
         /\ \A s \in Routes : Resolve(s) # None => Resolve(s)' = Resolve(s)
         /\ \A x \in Buckets : active'[x] = Cardinality(Users(x))
         /\ \A x \in Buckets, q \in Requests : Inside(gate'[x], q) <=> Inside(gate[x], q)
         /\ \A x \in Buckets : gate'[x].owner = gate[x].owner /\ Len(gate'[x].queue) <= MaxWaiters
<1>1. CASE Found(r, b)
  <2>1. UNCHANGED <<buckets, aliases, used, gate, active, stale, left>> /\ b = Resolve(r)
    BY <1>1 DEF Found, tableVars, bucketVars
  <2>2. SlotsPart'
    BY <2>1, KeepSlots DEF tableVars
  <2>3. TypeOK /\ ActivePart /\ GatesOK
    BY Parts
  <2>4. GatesOK'
    BY <2>1, <2>3 DEF GatesOK
  <2>5. \A s \in Routes : Resolve(s)' = Resolve(s)
    BY <2>1 DEF Resolve, KeyOf
  <2> QED BY <2>1, <2>2, <2>3, <2>4, <2>5 DEF TypeOK, ActivePart, ActiveExact
<1>2. CASE Create(r, b)
  <2>1. aliases' = aliases
    BY <1>2 DEF Create
  <2> QED BY <1>2, <2>1, CreateKeeps
<1> QED BY <1>1, <1>2 DEF Bucket

\* A gate record of a lock is a record of a lock.
LEMMA GatesType ==
  ASSUME GatesOK, NEW b \in Buckets
  PROVE  gate[b].owner \in Requests \cup {None} /\ gate[b].queue \in Seq(Requests)
BY DEF GatesOK

\* After a lookup, where requests sit and what they act through is as before.
LEMMA BucketInv ==
  ASSUME TableInv, NEW q \in Requests, NEW b \in Buckets, Bucket(RouteOf[q], b),
         pc' \in [Requests -> Places],
         cur' \in [Requests -> Buckets \cup {None}], tgt' \in [Requests -> Buckets \cup {None}],
         \A x \in Buckets : Users(x)' = Users(x),
         \A p \in Requests :
           /\ cur'[p] = None <=> pc'[p] = "out"
           /\ tgt'[p] # None => pc'[p] \in {"letting", "passing"}
           /\ \A x \in Buckets : cur'[p] = x /\ pc'[p] \in InGate <=> cur[p] = x /\ pc[p] \in InGate
           /\ pc'[p] \in InGate \ {"acquiring"} => pc[p] \in InGate \ {"acquiring"} /\ cur'[p] = cur[p]
           /\ pc'[p] \in Acting => \/ pc[p] \in Acting /\ cur'[p] = cur[p]
                                   \/ p = q /\ cur'[q] = b /\ cur[q] = b /\ gate[b].owner = q
  PROVE  TableInv'
<1>1. TypeOK /\ ActivePart /\ GatesOK /\ Seated /\ ActsThroughOwnBucket
  BY Parts
<1>2. RouteOf[q] \in Routes
  BY TableAssumption
<1> DEFINE r == RouteOf[q]
<1> HIDE DEF r
<1>3. /\ SlotsPart' /\ GatesOK'
      /\ buckets' \in [Keys -> Buckets \cup {None}] /\ aliases' = aliases /\ used' \in 0..Slots
      /\ active' \in [Buckets -> Nat] /\ stale' \in SUBSET Buckets
      /\ left' \in [Buckets -> 0..MaxBlock]
      /\ Resolve(r)' = b
      /\ \A s \in Routes : Resolve(s) # None => Resolve(s)' = Resolve(s)
      /\ \A x \in Buckets : active'[x] = Cardinality(Users(x))
      /\ \A x \in Buckets, p \in Requests : Inside(gate'[x], p) <=> Inside(gate[x], p)
      /\ \A x \in Buckets : gate'[x].owner = gate[x].owner /\ Len(gate'[x].queue) <= MaxWaiters
  BY <1>2, BucketKeeps DEF r
<1>4. TypeOK'
  <2>1. aliases' \in [Routes -> Canonicals \cup {None}]
    BY <1>1, <1>3 DEF TypeOK
  <2>2. \A x \in Buckets : gate'[x].owner \in Requests \cup {None} /\ gate'[x].queue \in Seq(Requests)
    BY <1>3 DEF GatesOK
  <2> QED BY <1>3, <2>1, <2>2, Zenon DEF TypeOK
<1>5. ActivePart'
  BY <1>1, <1>3 DEF ActivePart, ActiveExact
<1>6. Seated'
  <2>1. \A p \in Requests : pc'[p] \in InGate \ {"acquiring"} => cur[p] \in Buckets /\ gate[cur[p]].owner = p
    BY <1>1 DEF Seated, TypeOK, InGate, Counted, Acting
  <2> QED BY <1>1, <1>3, <2>1 DEF Seated
<1>7. ActsThroughOwnBucket'
  <2> SUFFICES ASSUME NEW p \in Requests, pc'[p] \in Acting
               PROVE  cur'[p] = Resolve(RouteOf[p])' /\ gate'[cur'[p]].owner = p
    BY DEF ActsThroughOwnBucket
  <2>1. CASE pc[p] \in Acting /\ cur'[p] = cur[p]
    <3>1. cur[p] = Resolve(RouteOf[p]) /\ gate[cur[p]].owner = p
      BY <2>1, <1>1 DEF ActsThroughOwnBucket
    <3>2. cur[p] \in Buckets
      BY <2>1, <1>1 DEF Seated, TypeOK, Acting
    <3>3. RouteOf[p] \in Routes /\ Resolve(RouteOf[p]) # None
      BY <3>1, <3>2, TableAssumption
    <3> QED BY <2>1, <3>1, <3>2, <3>3, <1>3
  <2>2. CASE p = q /\ cur'[q] = b /\ cur[q] = b /\ gate[b].owner = q
    BY <2>2, <1>3 DEF r
  <2> QED BY <2>1, <2>2
<1> QED BY <1>3, <1>4, <1>5, <1>6, <1>7, PartsNext

-----------------------------------------------------------------------------
(* acquireBucket: looking the bucket up, and again once its gate is owned  *)

\* A request looks its bucket up.
LEMMA TableLookup ==
  ASSUME TableInv, NEW q \in Requests, Lookup(q)
  PROVE  TableInv'
<1>1. PICK b \in Buckets : Bucket(RouteOf[q], b) /\ cur' = [cur EXCEPT ![q] = b]
  BY DEF Lookup
<1>2. pc[q] = "out" /\ pc' = [pc EXCEPT ![q] = "found"] /\ tgt' = tgt
  BY DEF Lookup, Goto
<1>3. TypeOK /\ Seated
  BY Parts
<1>4. /\ pc' \in [Requests -> Places]
      /\ cur' \in [Requests -> Buckets \cup {None}]
      /\ tgt' \in [Requests -> Buckets \cup {None}]
  BY <1>1, <1>2, <1>3 DEF TypeOK, Places
<1>5. \A p \in Requests : p # q => pc'[p] = pc[p] /\ cur'[p] = cur[p] /\ tgt'[p] = tgt[p]
  BY <1>1, <1>2, <1>3 DEF TypeOK
<1>6. pc'[q] = "found" /\ cur'[q] = b /\ tgt'[q] = tgt[q] /\ b # None
  BY <1>1, <1>2, <1>3, TableAssumption DEF TypeOK
<1>7. \A x \in Buckets : Users(x)' = Users(x)
  BY <1>2, <1>5, <1>6 DEF Users, Counted, Acting
<1>8. ASSUME NEW p \in Requests
      PROVE  /\ cur'[p] = None <=> pc'[p] = "out"
             /\ tgt'[p] # None => pc'[p] \in {"letting", "passing"}
             /\ \A x \in Buckets : cur'[p] = x /\ pc'[p] \in InGate <=> cur[p] = x /\ pc[p] \in InGate
             /\ pc'[p] \in InGate \ {"acquiring"} => pc[p] \in InGate \ {"acquiring"} /\ cur'[p] = cur[p]
             /\ pc'[p] \in Acting => pc[p] \in Acting /\ cur'[p] = cur[p]
  <2>1. CASE p = q
    BY <2>1, <1>2, <1>3, <1>6 DEF Seated, InGate, Counted, Acting
  <2>2. CASE p # q
    BY <2>2, <1>3, <1>5 DEF Seated
  <2> QED BY <2>1, <2>2
<1> QED BY <1>1, <1>4, <1>7, <1>8, BucketInv

\* A request that owns its gate resolves its route again, and holds the bucket
\* or moves to another.
LEMMA TableRecheck ==
  ASSUME TableInv, NEW q \in Requests, Recheck(q)
  PROVE  TableInv'
<1>1. PICK b \in Buckets :
        /\ Bucket(RouteOf[q], b)
        /\ \/ b = cur[q] /\ Goto(q, "holding") /\ tgt' = tgt
           \/ b # cur[q] /\ Goto(q, "letting") /\ tgt' = [tgt EXCEPT ![q] = b]
  BY DEF Recheck
<1>2. pc[q] = "owning" /\ cur' = cur
  BY DEF Recheck
<1>3. TypeOK /\ Seated
  BY Parts
<1>4. /\ pc' \in [Requests -> Places]
      /\ cur' \in [Requests -> Buckets \cup {None}]
      /\ tgt' \in [Requests -> Buckets \cup {None}]
  <2>1. "holding" \in Places /\ "letting" \in Places
    BY DEF Places
  <2>2. tgt' \in [Requests -> Buckets \cup {None}]
    BY <1>1, <1>3 DEF TypeOK
  <2>3. pc' \in [Requests -> Places]
    BY <1>1, <1>3, <2>1 DEF TypeOK, Goto
  <2> QED BY <2>2, <2>3, <1>2, <1>3 DEF TypeOK
<1>5. \A p \in Requests : p # q => pc'[p] = pc[p] /\ tgt'[p] = tgt[p]
  BY <1>1, <1>3 DEF TypeOK, Goto
<1>6. \/ pc'[q] = "holding" /\ tgt'[q] = tgt[q] /\ b = cur[q]
      \/ pc'[q] = "letting"
  BY <1>1, <1>3 DEF TypeOK, Goto
<1>7. \A x \in Buckets : Users(x)' = Users(x)
  BY <1>2, <1>5, <1>6 DEF Users, Counted, Acting
<1>8. gate[cur[q]].owner = q
  BY <1>2, <1>3 DEF Seated, InGate, Counted
<1>9. ASSUME NEW p \in Requests
      PROVE  /\ cur'[p] = None <=> pc'[p] = "out"
             /\ tgt'[p] # None => pc'[p] \in {"letting", "passing"}
             /\ \A x \in Buckets : cur'[p] = x /\ pc'[p] \in InGate <=> cur[p] = x /\ pc[p] \in InGate
             /\ pc'[p] \in InGate \ {"acquiring"} => pc[p] \in InGate \ {"acquiring"} /\ cur'[p] = cur[p]
             /\ pc'[p] \in Acting => \/ pc[p] \in Acting /\ cur'[p] = cur[p]
                                     \/ p = q /\ cur'[q] = b /\ cur[q] = b /\ gate[b].owner = q
  <2>1. CASE p = q
    BY <2>1, <1>2, <1>3, <1>6, <1>8 DEF Seated, InGate, Counted, Acting
  <2>2. CASE p # q
    BY <2>2, <1>2, <1>3, <1>5 DEF Seated
  <2> QED BY <2>1, <2>2
<1> QED BY <1>1, <1>4, <1>7, <1>9, BucketInv

\* The owner of a gate moves on within its bucket and nothing else changes.
LEMMA TableMoveOn ==
  ASSUME TableInv, NEW q \in Requests,
         \/ Granted(q) \/ RecheckNoSlot(q) \/ WaitDone(q) \/ Dispatch(q) \/ GiveUp(q)
         \/ LearnNothing(q) \/ \E d \in Discord : LearnNoSlot(q, d)
  PROVE  TableInv'
<1>1. PICK to \in Counted \ {"acquiring"} :
        /\ Goto(q, to)
        /\ \/ pc[q] = "acquiring" /\ gate[cur[q]].owner = q /\ to = "owning"
           \/ pc[q] = "owning" /\ to = "letting"
           \/ pc[q] \in Acting
        /\ UNCHANGED <<tableVars, bucketVars, cur, tgt>>
  BY DEF Granted, RecheckNoSlot, NoSlot, WaitDone, Dispatch, GiveUp, LearnNothing, LearnNoSlot, Counted, Acting
<1>2. Seated /\ ActsThroughOwnBucket
  BY Parts
<1>3. pc[q] \in Counted /\ gate[cur[q]].owner = q /\ tgt[q] = None
  BY <1>1, <1>2 DEF Seated, InGate, Counted, Acting
<1>4. to \in Acting => cur[q] = Resolve(RouteOf[q])
  BY <1>1, <1>2 DEF ActsThroughOwnBucket, Acting
<1> QED BY <1>1, <1>3, <1>4, MoveOn

-----------------------------------------------------------------------------
(* The gate of a bucket                                                    *)

\* q's gate becomes l, in which nobody but q has another place than before.
GateStep(q, b, l) ==
  /\ cur[q] = b
  /\ l \in [owner : Requests \cup {None}, queue : Seq(Requests)]
  /\ LockOK(l, Requests) /\ Len(l.queue) <= MaxWaiters
  /\ gate' = [gate EXCEPT ![b] = l]
  /\ \A p \in Requests \ {q} :
       /\ Inside(l, p) <=> Inside(gate[b], p)
       /\ gate[b].owner = p => l.owner = p
       /\ pc'[p] = pc[p] /\ cur'[p] = cur[p] /\ tgt'[p] = tgt[p]
  /\ Inside(l, q) <=> pc'[q] = "acquiring"
  /\ pc'[q] \in {"out", "found", "acquiring"}
  /\ pc'[q] = "acquiring" => cur'[q] = b
  /\ cur'[q] = None <=> pc'[q] = "out"
  /\ tgt'[q] = None
  /\ UNCHANGED tableVars

\* A request that enters or leaves the gate of its bucket disturbs nobody else
\* there, and the table and the other gates not at all.
LEMMA GateChange ==
  ASSUME TableInv, NEW q \in Requests, NEW b \in Buckets, NEW l, GateStep(q, b, l)
  PROVE  /\ SlotsPart' /\ GatesOK' /\ Seated' /\ ActsThroughOwnBucket'
         /\ \A x \in Buckets :
              /\ gate'[x].owner \in Requests \cup {None}
              /\ gate'[x].queue \in Seq(Requests)
              /\ Len(gate'[x].queue) <= MaxWaiters
<1> USE DEF GateStep
<1>1. TypeOK /\ GatesOK /\ Seated /\ ActsThroughOwnBucket
  BY Parts
<1>2. gate'[b] = l /\ \A x \in Buckets \ {b} : gate'[x] = gate[x]
  BY <1>1 DEF GatesOK
<1>3. GatesOK'
  <2>1. gate' \in [Buckets -> [owner : Requests \cup {None}, queue : Seq(Requests)]]
    BY <1>1 DEF GatesOK
  <2> QED BY <1>1, <1>2, <2>1 DEF GatesOK
<1>4. ASSUME NEW x \in Buckets
      PROVE  /\ gate'[x].owner \in Requests \cup {None}
             /\ gate'[x].queue \in Seq(Requests)
             /\ Len(gate'[x].queue) <= MaxWaiters
  <2>1. Len(gate[x].queue) <= MaxWaiters
    BY <1>1 DEF TypeOK
  <2> QED BY <1>2, <1>3, <2>1 DEF GatesOK
<1>5. \A p \in Requests : pc[p] \in InGate => cur[p] \in Buckets
  BY <1>1 DEF TypeOK, Seated, InGate, Counted, Acting
<1>6. Seated'
  <2> SUFFICES ASSUME NEW p \in Requests
               PROVE  /\ cur'[p] = None <=> pc'[p] = "out"
                      /\ tgt'[p] # None => pc'[p] \in {"letting", "passing"}
                      /\ \A x \in Buckets : Inside(gate'[x], p) <=> cur'[p] = x /\ pc'[p] \in InGate
                      /\ pc'[p] \in InGate \ {"acquiring"} => gate'[cur'[p]].owner = p
    BY DEF Seated
  <2>1. CASE p = q
    <3>1. pc'[q] \in InGate <=> pc'[q] = "acquiring"
      BY DEF InGate, Counted, Acting
    <3>2. \A x \in Buckets : Inside(gate'[x], q) <=> cur'[q] = x /\ pc'[q] \in InGate
      BY <3>1, <1>1, <1>2 DEF Seated
    <3> QED BY <2>1, <3>1, <3>2
  <2>2. CASE p # q
    <3>1. pc'[p] = pc[p] /\ cur'[p] = cur[p] /\ tgt'[p] = tgt[p]
      BY <2>2
    <3>2. \A x \in Buckets : Inside(gate'[x], p) <=> Inside(gate[x], p)
      BY <2>2, <1>2
    <3>3. \A x \in Buckets : gate[x].owner = p => gate'[x].owner = p
      BY <2>2, <1>2
    <3> QED BY <3>1, <3>2, <3>3, <1>1, <1>5 DEF Seated
  <2> QED BY <2>1, <2>2
<1>7. ActsThroughOwnBucket'
  <2> SUFFICES ASSUME NEW p \in Requests, pc'[p] \in Acting
               PROVE  cur'[p] = Resolve(RouteOf[p])' /\ gate'[cur'[p]].owner = p
    BY DEF ActsThroughOwnBucket
  <2>1. p # q
    BY DEF Acting
  <2>2. cur[p] = Resolve(RouteOf[p]) /\ gate[cur[p]].owner = p /\ cur[p] \in Buckets
    BY <2>1, <1>1, <1>5 DEF ActsThroughOwnBucket, InGate, Counted
  <2>3. Resolve(RouteOf[p])' = Resolve(RouteOf[p])
    BY DEF Resolve, KeyOf, tableVars
  <2> QED BY <2>1, <2>2, <2>3, <1>2
<1> QED BY <1>3, <1>4, <1>6, <1>7, KeepSlots

\* One more request is counted at b.
LEMMA UserJoins ==
  ASSUME TableInv, NEW q \in Requests, NEW b \in Buckets,
         q \notin Users(b), Users(b)' = Users(b) \cup {q},
         \A x \in Buckets \ {b} : Users(x)' = Users(x),
         active' = [active EXCEPT ![b] = @ + 1]
  PROVE  ActivePart' /\ active' \in [Buckets -> Nat]
<1>1. TypeOK /\ ActivePart
  BY Parts
<1>2. IsFiniteSet(Users(b)') /\ Cardinality(Users(b)') = Cardinality(Users(b)) + 1
  BY <1>1, FS_AddElement DEF ActivePart
<1>3. active'[b] = active[b] + 1 /\ \A x \in Buckets \ {b} : active'[x] = active[x]
  BY <1>1 DEF TypeOK
<1>4. active' \in [Buckets -> Nat]
  BY <1>1 DEF TypeOK
<1>5. active'[b] = Cardinality(Users(b)')
  BY <1>1, <1>2, <1>3 DEF ActivePart, ActiveExact
<1>6. ASSUME NEW x \in Buckets
      PROVE  active'[x] = Cardinality(Users(x)') /\ IsFiniteSet(Users(x)')
  <2>1. CASE x = b
    BY <2>1, <1>2, <1>5
  <2>2. CASE x # b
    BY <2>2, <1>1, <1>3 DEF ActivePart, ActiveExact
  <2> QED BY <2>1, <2>2
<1> QED BY <1>4, <1>6 DEF ActivePart, ActiveExact

\* One request fewer is counted at b; the count was not zero.
LEMMA UserLeaves ==
  ASSUME TableInv, NEW q \in Requests, NEW b \in Buckets,
         q \in Users(b), Users(b)' = Users(b) \ {q},
         \A x \in Buckets \ {b} : Users(x)' = Users(x),
         active' = [active EXCEPT ![b] = @ - 1]
  PROVE  ActivePart' /\ active' \in [Buckets -> Nat]
<1>1. TypeOK /\ ActivePart
  BY Parts
<1>2. IsFiniteSet(Users(b)') /\ Cardinality(Users(b)') = Cardinality(Users(b)) - 1
  BY <1>1, FS_RemoveElement DEF ActivePart
<1>3. Cardinality(Users(b)') \in Nat
  BY <1>2, FS_CardinalityType
<1>4. active'[b] = active[b] - 1 /\ \A x \in Buckets \ {b} : active'[x] = active[x]
  BY <1>1 DEF TypeOK
<1>5. active[b] - 1 = Cardinality(Users(b)')
  BY <1>1, <1>2 DEF ActivePart, ActiveExact
<1>6. active' \in [Buckets -> Nat]
  BY <1>1, <1>3, <1>5 DEF TypeOK
<1> QED BY <1>1, <1>2, <1>4, <1>5, <1>6 DEF ActivePart, ActiveExact

\* acquire, with the gate free or a place left in its queue.
LEMMA TableEnter ==
  ASSUME TableInv, NEW q \in Requests, Enter(q)
  PROVE  TableInv'
<1>1. TypeOK /\ ActivePart /\ GatesOK /\ Seated
  BY Parts
<1>2. PICK b \in Buckets : b = cur[q]
  BY AtBucket DEF Enter
<1>3. /\ pc[q] = "found" /\ pc' = [pc EXCEPT ![q] = "acquiring"] /\ cur' = cur /\ tgt' = tgt
      /\ active' = [active EXCEPT ![b] = @ + 1] /\ stale' = stale \ {b} /\ left' = left
      /\ UNCHANGED tableVars
  BY <1>2 DEF Enter, Goto
<1>4. tgt[q] = None /\ ~Inside(gate[b], q) /\ q \notin Users(b)
  BY <1>1, <1>2, <1>3 DEF TypeOK, Seated, InGate, Counted, Acting, Users
<1> DEFINE g == gate[b]
           l == IF g.owner = None THEN Grab(g, q) ELSE Join(g, q)
<1>5. gate' = [gate EXCEPT ![b] = l] /\ (g.owner = None \/ Len(g.queue) < MaxWaiters)
  BY <1>1, <1>2, <1>4 DEF Enter, GatesOK
<1>6. LockOK(g, Requests) /\ Len(g.queue) \in Nat /\ Len(g.queue) <= MaxWaiters
  BY <1>1, <1>4 DEF GatesOK, LockOK, TypeOK
<1>7. /\ LockOK(l, Requests) /\ Len(l.queue) <= MaxWaiters
      /\ \A p \in Requests : Inside(l, p) <=> Inside(g, p) \/ p = q
      /\ g.owner # None => l.owner = g.owner
      /\ l \in [owner : Requests \cup {None}, queue : Seq(Requests)]
  <2>1. CASE g.owner = None
    <3>1. /\ LockOK(Grab(g, q), Requests) /\ Grab(g, q).queue = << >>
          /\ \A p \in Requests : Inside(Grab(g, q), p) <=> p = q
      BY <2>1, <1>6, GrabLock, TableAssumption
    <3>2. g.queue = << >> /\ Range(<< >>) = {}
      BY <2>1, <1>6 DEF LockOK, Range
    <3>3. \A p \in Requests : ~Inside(g, p)
      BY <2>1, <3>2, TableAssumption DEF Inside, Queued
    <3>4. Len(Grab(g, q).queue) <= MaxWaiters
      BY <3>1, <3>2, <1>6
    <3>5. Grab(g, q) \in [owner : Requests \cup {None}, queue : Seq(Requests)]
      BY <1>6 DEF Grab, LockOK
    <3> QED BY <2>1, <3>1, <3>3, <3>4, <3>5
  <2>2. CASE g.owner # None
    <3>1. /\ LockOK(Join(g, q), Requests) /\ Join(g, q).owner = g.owner
          /\ Len(Join(g, q).queue) = Len(g.queue) + 1
          /\ \A p \in Requests : Inside(Join(g, q), p) <=> Inside(g, p) \/ p = q
      BY <2>2, <1>4, <1>6, JoinLock, TableAssumption
    <3>2. Len(Join(g, q).queue) <= MaxWaiters
      BY <2>2, <3>1, <1>5, <1>6, TableAssumption
    <3>3. Join(g, q) \in [owner : Requests \cup {None}, queue : Seq(Requests)]
      BY <3>1 DEF Join, LockOK
    <3> QED BY <2>2, <3>1, <3>2, <3>3
  <2> QED BY <2>1, <2>2
<1> HIDE DEF g, l
<1>8. /\ pc'[q] = "acquiring"
      /\ \A p \in Requests \ {q} : pc'[p] = pc[p] /\ cur'[p] = cur[p] /\ tgt'[p] = tgt[p]
  BY <1>1, <1>3 DEF TypeOK
<1>9. /\ SlotsPart' /\ GatesOK' /\ Seated' /\ ActsThroughOwnBucket'
      /\ \A x \in Buckets :
           /\ gate'[x].owner \in Requests \cup {None}
           /\ gate'[x].queue \in Seq(Requests)
           /\ Len(gate'[x].queue) <= MaxWaiters
  <2>1. \A p \in Requests \ {q} :
           /\ Inside(l, p) <=> Inside(gate[b], p)
           /\ gate[b].owner = p => l.owner = p
           /\ pc'[p] = pc[p] /\ cur'[p] = cur[p] /\ tgt'[p] = tgt[p]
    BY <1>7, <1>8, TableAssumption DEF g
  <2>2. /\ cur[q] = b /\ cur'[q] = b /\ b # None /\ tgt'[q] = None
        /\ Inside(l, q) /\ pc'[q] = "acquiring"
    BY <1>2, <1>3, <1>4, <1>7, <1>8, TableAssumption
  <2>3. GateStep(q, b, l)
    BY <1>3, <1>5, <1>7, <2>1, <2>2 DEF GateStep
  <2> QED BY <2>3, GateChange
<1>10. ActivePart' /\ active' \in [Buckets -> Nat]
  <2>1. Users(b)' = Users(b) \cup {q} /\ \A x \in Buckets \ {b} : Users(x)' = Users(x)
    BY <1>2, <1>3, <1>8 DEF Users, Counted
  <2> QED BY <2>1, <1>3, <1>4, UserJoins
<1>11. TypeOK'
  <2>1. pc' \in [Requests -> Places]
    BY <1>1, <1>3 DEF TypeOK, Places
  <2>2. stale' \in SUBSET Buckets
    BY <1>1, <1>3 DEF TypeOK
  <2> QED BY <1>1, <1>3, <1>9, <1>10, <2>1, <2>2, Zenon DEF TypeOK, tableVars
<1> QED BY <1>9, <1>10, <1>11, PartsNext

\* acquire, with the queue full: the request is gone.
LEMMA TableEnterFull ==
  ASSUME TableInv, NEW q \in Requests, EnterFull(q)
  PROVE  TableInv'
<1>1. TypeOK /\ GatesOK /\ Seated /\ ActsThroughOwnBucket
  BY Parts
<1>2. /\ pc[q] = "found" /\ pc' = [pc EXCEPT ![q] = "out"] /\ cur' = [cur EXCEPT ![q] = None]
      /\ UNCHANGED <<tableVars, gate, active, left, tgt>> /\ stale' \subseteq stale
  BY DEF EnterFull, Goto
<1>3. /\ pc'[q] = "out" /\ cur'[q] = None /\ tgt[q] = None
      /\ \A p \in Requests \ {q} : pc'[p] = pc[p] /\ cur'[p] = cur[p]
  <2>1. tgt[q] = None
    BY <1>1, <1>2 DEF Seated
  <2> QED BY <2>1, <1>1, <1>2 DEF TypeOK
<1>4. TypeOK'
  <2>1. /\ pc' \in [Requests -> Places]
        /\ cur' \in [Requests -> Buckets \cup {None}]
    BY <1>1, <1>2 DEF TypeOK, Places
  <2> QED BY <1>1, <1>2, <2>1 DEF TypeOK, tableVars
<1>5. SlotsPart'
  BY <1>2, KeepSlots
<1>6. ActivePart'
  <2>1. \A x \in Buckets : Users(x)' = Users(x)
    BY <1>2, <1>3 DEF Users, Counted, Acting
  <2> QED BY <2>1, <1>2, KeepActive
<1>7. GatesOK'
  BY <1>1, <1>2 DEF GatesOK
<1>8. Seated'
  <2>1. \A x \in Buckets : ~Inside(gate[x], q)
    BY <1>1, <1>2 DEF Seated, InGate, Counted, Acting
  <2>2. "out" \notin InGate
    BY DEF InGate, Counted, Acting
  <2> QED BY <2>1, <2>2, <1>1, <1>2, <1>3 DEF Seated
<1>9. ActsThroughOwnBucket'
  <2>1. \A p \in Requests : pc'[p] \in Acting => p # q
    BY <1>3 DEF Acting
  <2> QED BY <2>1, <1>1, <1>2, <1>3 DEF ActsThroughOwnBucket, Resolve, KeyOf, tableVars
<1> QED BY <1>4, <1>5, <1>6, <1>7, <1>8, <1>9, PartsNext

\* What leaving a lock, as its owner or from its queue, does to it.
LEMMA QuitLock ==
  ASSUME NEW S, None \notin S, NEW g, NEW q \in S, LockOK(g, S), Inside(g, q), NEW n \in Nat,
         Len(g.queue) <= n
  PROVE  LET l == IF g.owner = q THEN Pass(g) ELSE Leave(g, q) IN
         /\ LockOK(l, S) /\ Len(l.queue) <= n
         /\ l \in [owner : S \cup {None}, queue : Seq(S)]
         /\ \A p \in S : Inside(l, p) <=> Inside(g, p) /\ p # q
         /\ g.owner # q => l.owner = g.owner
<1>1. Len(g.queue) \in Nat
  BY DEF LockOK
<1>2. CASE g.owner = q
  <2>1. /\ LockOK(Pass(g), S) /\ Len(Pass(g).queue) <= Len(g.queue)
        /\ \A p \in S : Inside(Pass(g), p) <=> Inside(g, p) /\ p # q
    BY <1>2, PassLock
  <2>2. Len(Pass(g).queue) \in Nat
    BY <2>1 DEF LockOK
  <2>3. Pass(g) \in [owner : S \cup {None}, queue : Seq(S)]
    <3>1. Pass(g) = [owner |-> Pass(g).owner, queue |-> Pass(g).queue]
      BY DEF Pass, Free
    <3> QED BY <3>1, <2>1 DEF LockOK
  <2> QED BY <1>1, <1>2, <2>1, <2>2, <2>3
<1>3. CASE g.owner # q
  <2>1. q \in Queued(g)
    BY <1>3 DEF Inside
  <2>2. /\ LockOK(Leave(g, q), S) /\ Leave(g, q).owner = g.owner
        /\ Len(Leave(g, q).queue) = Len(g.queue) - 1
        /\ \A p \in S : Inside(Leave(g, q), p) <=> Inside(g, p) /\ p # q
    BY <2>1, LeaveLock
  <2>3. Leave(g, q) \in [owner : S \cup {None}, queue : Seq(S)]
    BY <2>2 DEF Leave, LockOK
  <2>4. Len(Leave(g, q).queue) <= n
    BY <2>2, <1>1
  <2> QED BY <1>3, <2>2, <2>3, <2>4
<1> QED BY <1>2, <1>3

\* The context ends while the request is queued, or once the gate is its own.
LEMMA TableCancelled ==
  ASSUME TableInv, NEW q \in Requests, Cancelled(q)
  PROVE  TableInv'
<1>1. TypeOK /\ ActivePart /\ GatesOK /\ Seated
  BY Parts
<1>2. PICK b \in Buckets : b = cur[q]
  BY AtBucket DEF Cancelled
<1> DEFINE g == gate[b]
           l == IF g.owner = q THEN Pass(g) ELSE Leave(g, q)
<1>3. /\ pc[q] = "acquiring" /\ pc' = [pc EXCEPT ![q] = "out"]
      /\ cur' = [cur EXCEPT ![q] = None] /\ tgt' = tgt
      /\ active' = [active EXCEPT ![b] = @ - 1] /\ stale' = stale /\ left' = left
      /\ UNCHANGED tableVars
  BY <1>2 DEF Cancelled, Goto
<1>4. gate' = [gate EXCEPT ![b] = l]
  BY <1>1, <1>2 DEF Cancelled, GatesOK
<1>5. tgt[q] = None /\ Inside(g, q) /\ q \in Users(b)
  BY <1>1, <1>2, <1>3 DEF Seated, InGate, Counted, Acting, Users
<1>6. LockOK(g, Requests) /\ Len(g.queue) <= MaxWaiters
  BY <1>1 DEF GatesOK, TypeOK
<1> HIDE DEF g
<1>7. /\ LockOK(l, Requests) /\ Len(l.queue) <= MaxWaiters
      /\ l \in [owner : Requests \cup {None}, queue : Seq(Requests)]
      /\ \A p \in Requests : Inside(l, p) <=> Inside(g, p) /\ p # q
      /\ g.owner # q => l.owner = g.owner
  <2>1. None \notin Requests /\ MaxWaiters \in Nat
    BY TableAssumption
  <2> QED BY <1>5, <1>6, <2>1, QuitLock
<1> HIDE DEF l
<1>8. /\ pc'[q] = "out" /\ cur'[q] = None /\ tgt'[q] = None
      /\ \A p \in Requests \ {q} : pc'[p] = pc[p] /\ cur'[p] = cur[p] /\ tgt'[p] = tgt[p]
  BY <1>1, <1>3, <1>5 DEF TypeOK
<1>9. /\ SlotsPart' /\ GatesOK' /\ Seated' /\ ActsThroughOwnBucket'
      /\ \A x \in Buckets :
           /\ gate'[x].owner \in Requests \cup {None}
           /\ gate'[x].queue \in Seq(Requests)
           /\ Len(gate'[x].queue) <= MaxWaiters
  <2>1. \A p \in Requests \ {q} :
           /\ Inside(l, p) <=> Inside(gate[b], p)
           /\ gate[b].owner = p => l.owner = p
           /\ pc'[p] = pc[p] /\ cur'[p] = cur[p] /\ tgt'[p] = tgt[p]
    BY <1>7, <1>8 DEF g
  <2>2. /\ cur[q] = b /\ (Inside(l, q) <=> pc'[q] = "acquiring")
        /\ pc'[q] \in {"out", "found", "acquiring"} /\ (pc'[q] = "acquiring" => cur'[q] = b)
        /\ (cur'[q] = None <=> pc'[q] = "out") /\ tgt'[q] = None
    BY <1>2, <1>7, <1>8
  <2>3. UNCHANGED tableVars
    BY <1>3
  <2>4. GateStep(q, b, l)
    BY <1>4, <1>7, <2>1, <2>2, <2>3 DEF GateStep
  <2> QED BY <2>4, GateChange
<1>10. ActivePart' /\ active' \in [Buckets -> Nat]
  <2>1. Users(b)' = Users(b) \ {q} /\ \A x \in Buckets \ {b} : Users(x)' = Users(x)
    BY <1>2, <1>3, <1>8 DEF Users, Counted, Acting
  <2> QED BY <2>1, <1>3, <1>5, UserLeaves
<1>11. TypeOK'
  <2>1. pc' \in [Requests -> Places] /\ cur' \in [Requests -> Buckets \cup {None}]
    BY <1>1, <1>3 DEF TypeOK, Places
  <2> QED BY <1>1, <1>3, <1>9, <1>10, <2>1, Zenon DEF TypeOK, tableVars
<1> QED BY <1>9, <1>10, <1>11, PartsNext

\* The first half of release: the request is no longer counted.
LEMMA TableLetGo ==
  ASSUME TableInv, NEW q \in Requests, LetGo(q)
  PROVE  TableInv'
<1>1. TypeOK /\ ActivePart /\ GatesOK /\ Seated /\ ActsThroughOwnBucket
  BY Parts
<1>2. PICK b \in Buckets : b = cur[q]
  BY AtBucket DEF LetGo
<1>3. /\ pc[q] = "letting" /\ pc' = [pc EXCEPT ![q] = "passing"]
      /\ active' = [active EXCEPT ![b] = @ - 1] /\ stale' = stale \ {b}
      /\ UNCHANGED <<tableVars, gate, left, cur, tgt>>
  BY <1>2 DEF LetGo, Goto
<1>4. /\ pc'[q] = "passing"
      /\ \A p \in Requests \ {q} : pc'[p] = pc[p]
  BY <1>1, <1>3 DEF TypeOK
<1>5. ActivePart' /\ active' \in [Buckets -> Nat]
  <2>1. q \in Users(b)
    BY <1>2, <1>3 DEF Users, Counted
  <2>2. Users(b)' = Users(b) \ {q} /\ \A x \in Buckets \ {b} : Users(x)' = Users(x)
    BY <1>2, <1>3, <1>4 DEF Users, Counted, Acting
  <2> QED BY <2>1, <2>2, <1>3, UserLeaves
<1>6. TypeOK'
  <2>1. pc' \in [Requests -> Places]
    BY <1>1, <1>3 DEF TypeOK, Places
  <2>2. stale' \in SUBSET Buckets
    BY <1>1, <1>3 DEF TypeOK
  <2> QED BY <1>1, <1>3, <1>5, <2>1, <2>2, Zenon DEF TypeOK, tableVars
<1>7. GatesOK'
  BY <1>1, <1>3 DEF GatesOK
<1>8. Seated'
  <2>1. \A p \in Requests : pc'[p] \in InGate <=> pc[p] \in InGate
    BY <1>3, <1>4 DEF InGate, Counted
  <2>2. \A p \in Requests : pc'[p] \in {"letting", "passing"} <=> pc[p] \in {"letting", "passing"}
    BY <1>3, <1>4
  <2>3. \A p \in Requests : (pc'[p] = "out" <=> pc[p] = "out") /\ (pc'[p] = "acquiring" <=> pc[p] = "acquiring")
    BY <1>3, <1>4
  <2> QED BY <2>1, <2>2, <2>3, <1>1, <1>3 DEF Seated
<1>9. ActsThroughOwnBucket'
  <2>1. \A p \in Requests : pc'[p] \in Acting => p # q
    BY <1>4 DEF Acting
  <2> QED BY <2>1, <1>1, <1>3, <1>4 DEF ActsThroughOwnBucket, Resolve, KeyOf, tableVars
<1>10. SlotsPart'
  BY <1>3, KeepSlots
<1> QED BY <1>5, <1>6, <1>7, <1>8, <1>9, <1>10, PartsNext

\* The second half of release: the gate goes to its next waiter, and the request
\* is gone or turns to the bucket it moves to.
LEMMA TablePassGate ==
  ASSUME TableInv, NEW q \in Requests, PassGate(q)
  PROVE  TableInv'
<1>1. TypeOK /\ ActivePart /\ GatesOK /\ Seated
  BY Parts
<1>2. PICK b \in Buckets : b = cur[q]
  BY AtBucket DEF PassGate
<1> DEFINE g == gate[b]
           l == IF g.owner = q THEN Pass(g) ELSE Leave(g, q)
           to == IF tgt[q] = None THEN "out" ELSE "found"
<1>3. /\ pc[q] = "passing" /\ pc' = [pc EXCEPT ![q] = to]
      /\ cur' = [cur EXCEPT ![q] = tgt[q]] /\ tgt' = [tgt EXCEPT ![q] = None]
      /\ UNCHANGED <<tableVars, active, stale, left>>
  BY DEF PassGate, Goto
<1>4. Inside(g, q) /\ g.owner = q
  BY <1>1, <1>2, <1>3 DEF Seated, InGate
<1>5. gate' = [gate EXCEPT ![b] = l]
  BY <1>1, <1>2, <1>4 DEF PassGate, GatesOK
<1>6. LockOK(g, Requests) /\ Len(g.queue) <= MaxWaiters
  BY <1>1 DEF GatesOK, TypeOK
<1> HIDE DEF g
<1>7. /\ LockOK(l, Requests) /\ Len(l.queue) <= MaxWaiters
      /\ l \in [owner : Requests \cup {None}, queue : Seq(Requests)]
      /\ \A p \in Requests : Inside(l, p) <=> Inside(g, p) /\ p # q
      /\ g.owner # q => l.owner = g.owner
  <2>1. None \notin Requests /\ MaxWaiters \in Nat
    BY TableAssumption
  <2> QED BY <1>4, <1>6, <2>1, QuitLock
<1> HIDE DEF l
<1>8. /\ pc'[q] = to /\ cur'[q] = tgt[q] /\ tgt'[q] = None
      /\ \A p \in Requests \ {q} : pc'[p] = pc[p] /\ cur'[p] = cur[p] /\ tgt'[p] = tgt[p]
  BY <1>1, <1>3 DEF TypeOK
<1>9. /\ SlotsPart' /\ GatesOK' /\ Seated' /\ ActsThroughOwnBucket'
      /\ \A x \in Buckets :
           /\ gate'[x].owner \in Requests \cup {None}
           /\ gate'[x].queue \in Seq(Requests)
           /\ Len(gate'[x].queue) <= MaxWaiters
  <2>1. \A p \in Requests \ {q} :
           /\ Inside(l, p) <=> Inside(gate[b], p)
           /\ gate[b].owner = p => l.owner = p
           /\ pc'[p] = pc[p] /\ cur'[p] = cur[p] /\ tgt'[p] = tgt[p]
    BY <1>7, <1>8 DEF g
  <2>2. /\ cur[q] = b /\ (Inside(l, q) <=> pc'[q] = "acquiring")
        /\ pc'[q] \in {"out", "found", "acquiring"} /\ (pc'[q] = "acquiring" => cur'[q] = b)
        /\ (cur'[q] = None <=> pc'[q] = "out") /\ tgt'[q] = None
    BY <1>2, <1>7, <1>8
  <2>3. UNCHANGED tableVars
    BY <1>3
  <2>4. GateStep(q, b, l)
    BY <1>5, <1>7, <2>1, <2>2, <2>3 DEF GateStep
  <2> QED BY <2>4, GateChange
<1>10. ActivePart'
  <2>1. \A x \in Buckets : Users(x)' = Users(x)
    BY <1>3, <1>8 DEF Users, Counted, Acting
  <2> QED BY <2>1, <1>3, KeepActive
<1>11. TypeOK'
  <2>1. to \in Places
    BY DEF Places
  <2> HIDE DEF to
  <2>2. /\ pc' \in [Requests -> Places]
        /\ cur' \in [Requests -> Buckets \cup {None}]
        /\ tgt' \in [Requests -> Buckets \cup {None}]
    BY <1>1, <1>3, <2>1 DEF TypeOK
  <2> QED BY <1>1, <1>3, <1>9, <2>2, Zenon DEF TypeOK, tableVars
<1> QED BY <1>9, <1>10, <1>11, PartsNext

-----------------------------------------------------------------------------
(* The attempt, and time                                                   *)

\* Later picks the larger of two times.
LEMMA LaterType ==
  ASSUME NEW n \in Nat, NEW i \in 0..n, NEW j \in 0..n
  PROVE  Later(i, j) \in 0..n /\ Later(i, j) >= i /\ Later(i, j) >= j
BY DEF Later

\* Steps that touch only cooldowns and the age of a bucket.
LEMMA KeepLeft ==
  ASSUME TableInv, UNCHANGED <<tableVars, gate, active, pc, cur, tgt>>,
         left' \in [Buckets -> 0..MaxBlock], stale' \in SUBSET Buckets
  PROVE  TableInv'
<1>1. TypeOK /\ GatesOK /\ Seated /\ ActsThroughOwnBucket
  BY Parts
<1>2. TypeOK'
  BY <1>1, Zenon DEF TypeOK, tableVars
<1>3. GatesOK' /\ Seated'
  BY <1>1 DEF GatesOK, Seated
<1>4. ActsThroughOwnBucket'
  BY <1>1 DEF ActsThroughOwnBucket, Resolve, KeyOf, tableVars
<1>5. SlotsPart'
  BY KeepSlots
<1>6. ActivePart'
  BY KeepActive DEF Users
<1> QED BY <1>2, <1>3, <1>4, <1>5, <1>6, PartsNext

\* The cooldown of a response is applied to the bucket.
LEMMA TableObserve ==
  ASSUME TableInv, NEW q \in Requests, NEW n \in 0..MaxBlock, Observe(q, n)
  PROVE  TableInv'
<1>1. TypeOK /\ GatesOK /\ Seated /\ ActsThroughOwnBucket
  BY Parts
<1>2. PICK b \in Buckets : b = cur[q]
  BY AtBucket DEF Observe
<1>3. /\ pc[q] = "inflight" /\ pc' = [pc EXCEPT ![q] = "observed"]
      /\ left' = [left EXCEPT ![b] = Later(@, n)]
      /\ UNCHANGED <<tableVars, gate, active, stale, cur, tgt>>
  BY <1>2 DEF Observe, Goto
<1>4. pc'[q] = "observed" /\ \A p \in Requests \ {q} : pc'[p] = pc[p]
  BY <1>1, <1>3 DEF TypeOK
<1>5. left' \in [Buckets -> 0..MaxBlock]
  <2>1. left \in [Buckets -> 0..MaxBlock]
    BY <1>1 DEF TypeOK
  <2>2. Later(left[b], n) \in 0..MaxBlock
    BY <2>1, LaterType, TableAssumption
  <2> QED BY <2>1, <2>2, <1>3
<1>6. TypeOK'
  <2>1. pc' \in [Requests -> Places]
    BY <1>1, <1>3 DEF TypeOK, Places
  <2> QED BY <1>1, <1>3, <1>5, <2>1, Zenon DEF TypeOK, tableVars
<1>7. ActivePart'
  <2>1. \A x \in Buckets : Users(x)' = Users(x)
    BY <1>3, <1>4 DEF Users, Counted, Acting
  <2> QED BY <2>1, <1>3, KeepActive
<1>8. GatesOK'
  BY <1>1, <1>3 DEF GatesOK
<1>9. Seated'
  <2>1. \A p \in Requests : pc'[p] \in InGate <=> pc[p] \in InGate
    BY <1>3, <1>4 DEF InGate, Counted, Acting
  <2>2. \A p \in Requests : pc'[p] \in {"letting", "passing"} <=> pc[p] \in {"letting", "passing"}
    BY <1>3, <1>4
  <2>3. \A p \in Requests : (pc'[p] = "out" <=> pc[p] = "out") /\ (pc'[p] = "acquiring" <=> pc[p] = "acquiring")
    BY <1>3, <1>4
  <2> QED BY <2>1, <2>2, <2>3, <1>1, <1>3 DEF Seated
<1>10. ActsThroughOwnBucket'
  <2>1. \A p \in Requests : pc'[p] \in Acting <=> pc[p] \in Acting
    BY <1>3, <1>4 DEF Acting
  <2> QED BY <2>1, <1>1, <1>3 DEF ActsThroughOwnBucket, Resolve, KeyOf, tableVars
<1>11. SlotsPart'
  BY <1>3, KeepSlots
<1> QED BY <1>6, <1>7, <1>8, <1>9, <1>10, <1>11, PartsNext

\* Nobody else acts for the route of a request that acts.
LEMMA RouteAlone ==
  ASSUME Seated, ActsThroughOwnBucket, NEW p \in Requests, NEW q \in Requests,
         pc[p] \in Acting, pc[q] \in Acting, RouteOf[p] = RouteOf[q]
  PROVE  p = q
BY DEF ActsThroughOwnBucket

\* Counting a set with one element more.
LEMMA AddOne ==
  ASSUME NEW S, IsFiniteSet(S), NEW x
  PROVE  /\ IsFiniteSet(S \cup {x}) /\ Cardinality(S) \in Nat /\ Cardinality(S \cup {x}) \in Nat
         /\ Cardinality(S \cup {x}) = Cardinality(S) + One(x \notin S)
<1>1. IsFiniteSet(S \cup {x}) /\ Cardinality(S) \in Nat /\ Cardinality(S \cup {x}) \in Nat
  BY FS_AddElement, FS_CardinalityType
<1>2. CASE x \in S
  <2>1. S \cup {x} = S
    BY <1>2
  <2>2. Cardinality(S \cup {x}) = Cardinality(S)
    BY <2>1, Zenon
  <2> QED BY <2>2, <1>1, <1>2 DEF One
<1>3. CASE x \notin S
  <2>1. Cardinality(S \cup {x}) = Cardinality(S) + 1
    BY <1>3, FS_AddElement
  <2> QED BY <2>1, <1>1, <1>3 DEF One
<1> QED BY <1>2, <1>3

\* Counting a set with one element less.
LEMMA DropOne ==
  ASSUME NEW S, IsFiniteSet(S), NEW x
  PROVE  /\ IsFiniteSet(S \ {x}) /\ Cardinality(S) \in Nat /\ Cardinality(S \ {x}) \in Nat
         /\ Cardinality(S \ {x}) = Cardinality(S) - One(x \in S)
<1>1. IsFiniteSet(S \ {x}) /\ Cardinality(S) \in Nat /\ Cardinality(S \ {x}) \in Nat
  BY FS_RemoveElement, FS_CardinalityType
<1>2. CASE x \notin S
  <2>1. S \ {x} = S
    BY <1>2
  <2>2. Cardinality(S \ {x}) = Cardinality(S)
    BY <2>1, Zenon
  <2> QED BY <2>2, <1>1, <1>2 DEF One
<1>3. CASE x \in S
  <2>1. Cardinality(S \ {x}) = Cardinality(S) - 1
    BY <1>3, FS_RemoveElement
  <2> QED BY <2>1, <1>1, <1>3 DEF One
<1> QED BY <1>2, <1>3

\* What learnBucket makes of the table: the canonical key and the alias are held,
\* the route's own key is not if it held the current bucket.
LearnStep(q, r, c, b, t) ==
  /\ r = RouteOf[q] /\ c \in Keys /\ r \in Keys /\ c # r
  /\ b = cur[q] /\ b = Resolve(r) /\ t = IF buckets[c] = None THEN b ELSE buckets[c]
  /\ pc[q] = "observed" /\ pc' = [pc EXCEPT ![q] = "letting"]
  /\ buckets' = [buckets EXCEPT ![c] = t, ![r] = IF @ = b THEN None ELSE @]
  /\ aliases' = [aliases EXCEPT ![r] = c]
  /\ left' = [left EXCEPT ![t] = Later(@, left[b])]
  /\ used' = used + NetSlots(r, c, b)
  /\ NetSlots(r, c, b) <= 0 \/ used + NetSlots(r, c, b) <= Slots
  /\ UNCHANGED <<gate, active, stale, cur, tgt>>

\* Every step that learns is one.
LEMMA LearnTable ==
  ASSUME TableInv, NEW q \in Requests, NEW d \in Discord, Learn(q, d)
  PROVE  \E r \in Routes, c \in Canonicals, b \in Buckets, t \in Buckets : LearnStep(q, r, c, b, t)
<1>1. TypeOK /\ Seated /\ ActsThroughOwnBucket
  BY Parts
<1> DEFINE r == RouteOf[q]
           c == Canonical(d, r)
           b == cur[q]
           t == IF buckets[c] = None THEN b ELSE buckets[c]
<1>2. /\ pc[q] = "observed" /\ pc' = [pc EXCEPT ![q] = "letting"]
      /\ buckets' = [buckets EXCEPT ![c] = t, ![r] = IF @ = b THEN None ELSE @]
      /\ aliases' = [aliases EXCEPT ![r] = c]
      /\ left' = [left EXCEPT ![t] = Later(@, left[b])]
      /\ used' = used + NetSlots(r, c, b)
      /\ NetSlots(r, c, b) <= 0 \/ used + NetSlots(r, c, b) <= Slots
      /\ UNCHANGED <<gate, active, stale, cur, tgt>>
  BY Zenon DEF Learn, Goto
<1>3. r \in Routes /\ c \in Canonicals
  BY TableAssumption DEF Canonical, Canonicals
<1>4. c \in Keys /\ r \in Keys /\ c # r
  BY <1>3, TableAssumption DEF Keys
<1>5. b = Resolve(r) /\ b \in Buckets
  BY <1>1, <1>2, TableAssumption DEF ActsThroughOwnBucket, Acting, Seated, TypeOK
<1>6. t \in Buckets
  BY <1>1, <1>4, <1>5 DEF TypeOK
<1>7. t = IF buckets[c] = None THEN b ELSE buckets[c]
  OBVIOUS
<1>8. LearnStep(q, r, c, b, t)
  <2> HIDE DEF t, c
  <2> QED BY <1>2, <1>4, <1>5, <1>7, Zenon DEF LearnStep
<1> HIDE DEF r, c, b, t
<1> QED BY <1>3, <1>5, <1>6, <1>8

\* A route learns its Discord bucket.  No other request acting at the moment is
\* moved: one of the same route would own the same gate, and the canonical key
\* changes its bucket only if no route resolved to it.
LEMMA TableLearn ==
  ASSUME TableInv, NEW q \in Requests, NEW d \in Discord, Learn(q, d)
  PROVE  TableInv'
<1>1. TypeOK /\ SlotsPart /\ GatesOK /\ Seated /\ ActsThroughOwnBucket
  BY Parts
<1>2. PICK r \in Routes, c \in Canonicals, b \in Buckets, t \in Buckets : LearnStep(q, r, c, b, t)
  BY LearnTable
<1>3. /\ r = RouteOf[q] /\ c \in Keys /\ r \in Keys /\ c # r
      /\ b = cur[q] /\ b = Resolve(r) /\ t = IF buckets[c] = None THEN b ELSE buckets[c]
      /\ pc[q] = "observed" /\ pc' = [pc EXCEPT ![q] = "letting"]
      /\ buckets' = [buckets EXCEPT ![c] = t, ![r] = IF @ = b THEN None ELSE @]
      /\ aliases' = [aliases EXCEPT ![r] = c]
      /\ left' = [left EXCEPT ![t] = Later(@, left[b])]
      /\ used' = used + NetSlots(r, c, b)
      /\ NetSlots(r, c, b) <= 0 \/ used + NetSlots(r, c, b) <= Slots
      /\ UNCHANGED <<gate, active, stale, cur, tgt>>
  BY <1>2, Zenon DEF LearnStep
<1>4. pc'[q] = "letting" /\ \A p \in Requests \ {q} : pc'[p] = pc[p]
  BY <1>1, <1>3 DEF TypeOK
<1>5. b # None /\ t # None /\ c # None
  BY <1>3, TableAssumption
<1>6. /\ buckets' \in [Keys -> Buckets \cup {None}]
      /\ buckets'[c] = t /\ buckets'[r] = IF buckets[r] = b THEN None ELSE buckets[r]
      /\ \A k \in Keys \ {r, c} : buckets'[k] = buckets[k]
  BY <1>1, <1>3 DEF TypeOK
<1>7. /\ aliases' \in [Routes -> Canonicals \cup {None}]
      /\ aliases'[r] = c /\ \A s \in Routes \ {r} : aliases'[s] = aliases[s]
  BY <1>1, <1>3 DEF TypeOK
<1>8. SlotsPart'
  <2> DEFINE A == Held(buckets) \cup {c}
  <2>1. /\ Held(buckets) \in SUBSET Keys /\ (\A k \in Keys : k \in Held(buckets) <=> buckets[k] # None)
        /\ Held(buckets') \in SUBSET Keys /\ (\A k \in Keys : k \in Held(buckets') <=> buckets'[k] # None)
        /\ Held(aliases) \in SUBSET Routes /\ (\A s \in Routes : s \in Held(aliases) <=> aliases[s] # None)
        /\ Held(aliases') \in SUBSET Routes /\ (\A s \in Routes : s \in Held(aliases') <=> aliases'[s] # None)
    BY <1>1, <1>6, <1>7 DEF Held, TypeOK
  <2>2. Held(aliases') = Held(aliases) \cup {r}
    <3>1. \A s \in Routes : s \in Held(aliases') <=> s \in Held(aliases) \/ s = r
      BY <2>1, <1>5, <1>7
    <3> QED BY <3>1, <2>1
  <2>3. Held(buckets') = IF buckets[r] = b THEN A \ {r} ELSE A
    <3>1. ASSUME NEW k \in Keys
          PROVE  k \in Held(buckets') <=> k \in A /\ ~(k = r /\ buckets[r] = b)
      <4>1. CASE k = c
        BY <4>1, <2>1, <1>3, <1>5, <1>6
      <4>2. CASE k = r
        BY <4>2, <2>1, <1>3, <1>5, <1>6
      <4>3. CASE k \notin {c, r}
        BY <4>3, <2>1, <1>6
      <4> QED BY <4>1, <4>2, <4>3
    <3>2. A \in SUBSET Keys
      BY <2>1, <1>3
    <3> HIDE DEF A
    <3>3. \A k : k \in Held(buckets') <=> k \in A /\ ~(k = r /\ buckets[r] = b)
      BY <3>1, <3>2, <2>1
    <3>4. CASE buckets[r] = b
      BY <3>3, <3>4
    <3>5. CASE buckets[r] # b
      BY <3>3, <3>5
    <3> QED BY <3>4, <3>5
  <2>4. /\ IsFiniteSet(Held(aliases'))
        /\ Cardinality(Held(aliases')) = Cardinality(Held(aliases)) + One(aliases[r] = None)
    <3>1. r \notin Held(aliases) <=> aliases[r] = None
      BY <2>1
    <3>2. IsFiniteSet(Held(aliases))
      BY <1>1 DEF SlotsPart
    <3> QED BY <3>1, <3>2, <2>2, AddOne DEF One
  <2>5. IsFiniteSet(A) /\ Cardinality(A) = Cardinality(Held(buckets)) + One(buckets[c] = None) /\ Cardinality(A) \in Nat
    <3>1. c \notin Held(buckets) <=> buckets[c] = None
      BY <2>1, <1>3
    <3>2. IsFiniteSet(Held(buckets))
      BY <1>1 DEF SlotsPart
    <3> QED BY <3>1, <3>2, AddOne DEF One
  <2>6. /\ IsFiniteSet(Held(buckets'))
        /\ Cardinality(Held(buckets')) = Cardinality(A) - One(buckets[r] = b)
    <3>1. buckets[r] = b => r \in A
      BY <2>1, <1>3, <1>5
    <3> HIDE DEF A
    <3>2. CASE buckets[r] = b
      BY <3>1, <3>2, <2>3, <2>5, DropOne, TableAssumption DEF One
    <3>3. CASE buckets[r] # b
      BY <3>3, <2>3, <2>5 DEF One
    <3> QED BY <3>2, <3>3
  <2>7. Cardinality(Held(aliases)) \in Nat /\ Cardinality(Held(buckets)) \in Nat
    BY <1>1, FS_CardinalityType DEF SlotsPart
  <2>8. One(buckets[r] = b) \in {0, 1} /\ One(aliases[r] = None) \in {0, 1} /\ One(buckets[c] = None) \in {0, 1}
    BY DEF One
  <2>9. used' = Cardinality(Held(buckets')) + Cardinality(Held(aliases'))
    <3> HIDE DEF A
    <3> QED BY <2>4, <2>5, <2>6, <2>7, <2>8, <1>1, <1>3, TableAssumption DEF SlotsPart, SlotsExact, NetSlots
  <2> QED BY <2>4, <2>6, <2>9 DEF SlotsPart, SlotsExact
<1>9. TypeOK'
  <2>1. pc' \in [Requests -> Places]
    BY <1>1, <1>3 DEF TypeOK, Places
  <2>2. left' \in [Buckets -> 0..MaxBlock]
    <3>1. left \in [Buckets -> 0..MaxBlock]
      BY <1>1 DEF TypeOK
    <3>2. Later(left[t], left[b]) \in 0..MaxBlock
      BY <3>1, <1>3, LaterType, TableAssumption
    <3> QED BY <3>1, <3>2, <1>3
  <2>3. used' \in 0..Slots
    <3>1. used' \in Nat
      <4>1. Cardinality(Held(buckets')) \in Nat /\ Cardinality(Held(aliases')) \in Nat
        BY <1>8, FS_CardinalityType DEF SlotsPart
      <4> QED BY <4>1, <1>8 DEF SlotsPart, SlotsExact
    <3>2. NetSlots(r, c, b) \in Int
      BY DEF NetSlots, One
    <3> QED BY <3>1, <3>2, <1>1, <1>3, TableAssumption DEF TypeOK
  <2> QED BY <1>1, <1>3, <1>6, <1>7, <2>1, <2>2, <2>3, Zenon DEF TypeOK
<1>10. ActivePart'
  <2>1. \A x \in Buckets : Users(x)' = Users(x)
    BY <1>3, <1>4 DEF Users, Counted, Acting
  <2> QED BY <2>1, <1>3, KeepActive
<1>11. GatesOK'
  BY <1>1, <1>3 DEF GatesOK
<1>12. Seated'
  <2>1. \A p \in Requests : pc'[p] \in InGate <=> pc[p] \in InGate
    BY <1>3, <1>4 DEF InGate, Counted, Acting
  <2>2. \A p \in Requests : pc[p] \in {"letting", "passing"} => pc'[p] \in {"letting", "passing"}
    BY <1>3, <1>4
  <2>3. \A p \in Requests : (pc'[p] = "out" <=> pc[p] = "out") /\ (pc'[p] = "acquiring" <=> pc[p] = "acquiring")
    BY <1>3, <1>4
  <2> QED BY <2>1, <2>2, <2>3, <1>1, <1>3 DEF Seated
<1>13. ActsThroughOwnBucket'
  <2> SUFFICES ASSUME NEW p \in Requests, pc'[p] \in Acting
               PROVE  cur'[p] = Resolve(RouteOf[p])' /\ gate'[cur'[p]].owner = p
    BY DEF ActsThroughOwnBucket
  <2>1. p # q /\ pc[p] \in Acting
    BY <1>4 DEF Acting
  <2>2. PICK s \in Routes : s = RouteOf[p]
    BY TableAssumption
  <2>3. s # r
    BY <2>1, <2>2, <1>1, <1>2, <1>3, RouteAlone DEF Acting
  <2>4. cur[p] = Resolve(s) /\ gate[cur[p]].owner = p /\ Resolve(s) # None
    BY <2>1, <2>2, <1>1 DEF ActsThroughOwnBucket, Seated, Acting
  <2>5. KeyOf(s)' = KeyOf(s) /\ KeyOf(s) \in Keys /\ KeyOf(s) # r
    <3>1. KeyOf(s) \in Keys /\ (KeyOf(s) = s \/ KeyOf(s) \in Canonicals)
      BY <1>1, KeyType
    <3>2. KeyOf(s) # r
      BY <3>1, <2>3, <1>3, TableAssumption
    <3> QED BY <3>1, <3>2, <2>3, <1>7, TableAssumption DEF KeyOf
  <2>6. Resolve(s)' = Resolve(s)
    <3>1. CASE KeyOf(s) = c
      BY <3>1, <2>4, <2>5, <1>3, <1>6 DEF Resolve
    <3>2. CASE KeyOf(s) # c
      BY <3>2, <2>5, <1>6 DEF Resolve
    <3> QED BY <3>1, <3>2
  <2> QED BY <2>2, <2>4, <2>6, <1>3
<1> QED BY <1>8, <1>9, <1>10, <1>11, <1>12, <1>13, PartsNext

-----------------------------------------------------------------------------
(* sweep and clear                                                         *)

\* What the sweeper drops: idle buckets, and the aliases that led to them or to
\* nothing.
Gone == {k \in Held(buckets) : Idle(buckets[k])}
Lost == {r \in Held(aliases) : aliases[r] \in Gone \/ buckets[aliases[r]] = None}

\* Counting a set without some of its elements.
LEMMA DropSome ==
  ASSUME NEW S, IsFiniteSet(S), NEW T \in SUBSET S
  PROVE  /\ IsFiniteSet(T) /\ IsFiniteSet(S \ T)
         /\ Cardinality(S) \in Nat /\ Cardinality(T) \in Nat /\ Cardinality(S \ T) \in Nat
         /\ Cardinality(S \ T) = Cardinality(S) - Cardinality(T)
<1>1. IsFiniteSet(T) /\ IsFiniteSet(S \ T)
  BY FS_Subset, FS_Difference
<1>2. Cardinality(S \ T) = Cardinality(S) - Cardinality(S \cap T)
  BY FS_Difference
<1>3. S \cap T = T
  OBVIOUS
<1>4. Cardinality(S \cap T) = Cardinality(T)
  BY <1>3, Zenon
<1> QED BY <1>1, <1>2, <1>4, FS_CardinalityType

\* A bucket somebody acts through is not idle: the request is counted in active.
LEMMA ActingIsActive ==
  ASSUME TableInv, NEW q \in Requests, pc[q] \in Acting
  PROVE  ~Idle(cur[q])
<1>1. PICK b \in Buckets : b = cur[q]
  BY AtBucket DEF Acting
<1>2. q \in Users(b) /\ IsFiniteSet(Users(b)) /\ active[b] = Cardinality(Users(b))
  BY <1>1, Parts DEF Users, Counted, ActivePart, ActiveExact
<1>3. Cardinality(Users(b)) # 0
  BY <1>2, FS_EmptySet
<1> QED BY <1>1, <1>2, <1>3 DEF Idle

\* The sweeper gives back one slot for each entry it drops, and drops none that
\* a request acts through.
LEMMA TableSweep ==
  ASSUME TableInv, Sweep
  PROVE  TableInv'
<1>1. TypeOK /\ SlotsPart /\ GatesOK /\ Seated /\ ActsThroughOwnBucket
  BY Parts
<1>2. /\ buckets' = [k \in Keys |-> IF k \in Gone THEN None ELSE buckets[k]]
      /\ aliases' = [r \in Routes |-> IF r \in Lost THEN None ELSE aliases[r]]
      /\ used' = used - Cardinality(Gone) - Cardinality(Lost)
      /\ UNCHANGED <<bucketVars, pc, cur, tgt>>
  BY DEF Sweep, Gone, Lost
<1>3. Gone \in SUBSET Held(buckets) /\ Lost \in SUBSET Held(aliases)
  BY DEF Gone, Lost
<1>4. /\ buckets' \in [Keys -> Buckets \cup {None}]
      /\ \A k \in Keys : buckets'[k] = IF k \in Gone THEN None ELSE buckets[k]
      /\ aliases' \in [Routes -> Canonicals \cup {None}]
      /\ \A r \in Routes : aliases'[r] = IF r \in Lost THEN None ELSE aliases[r]
  BY <1>1, <1>2 DEF TypeOK
<1>5. SlotsPart'
  <2>1. Held(buckets') = Held(buckets) \ Gone
    <3>1. \A k \in Keys : k \in Held(buckets') <=> k \in Held(buckets) \ Gone
      BY <1>1, <1>4 DEF Held, TypeOK
    <3>2. Held(buckets') \in SUBSET Keys /\ Held(buckets) \in SUBSET Keys
      BY <1>1, <1>4 DEF Held, TypeOK
    <3> QED BY <3>1, <3>2
  <2>2. Held(aliases') = Held(aliases) \ Lost
    <3>1. \A r \in Routes : r \in Held(aliases') <=> r \in Held(aliases) \ Lost
      BY <1>1, <1>4 DEF Held, TypeOK
    <3>2. Held(aliases') \in SUBSET Routes /\ Held(aliases) \in SUBSET Routes
      BY <1>1, <1>4 DEF Held, TypeOK
    <3> QED BY <3>1, <3>2
  <2>3. /\ IsFiniteSet(Held(buckets')) /\ Cardinality(Held(buckets')) = Cardinality(Held(buckets)) - Cardinality(Gone)
        /\ Cardinality(Gone) \in Nat /\ Cardinality(Held(buckets)) \in Nat
    <3>1. IsFiniteSet(Held(buckets))
      BY <1>1 DEF SlotsPart
    <3> QED BY <3>1, <2>1, <1>3, DropSome
  <2>4. /\ IsFiniteSet(Held(aliases')) /\ Cardinality(Held(aliases')) = Cardinality(Held(aliases)) - Cardinality(Lost)
        /\ Cardinality(Lost) \in Nat /\ Cardinality(Held(aliases)) \in Nat
    <3>1. IsFiniteSet(Held(aliases))
      BY <1>1 DEF SlotsPart
    <3> QED BY <3>1, <2>2, <1>3, DropSome
  <2>5. used' = Cardinality(Held(buckets')) + Cardinality(Held(aliases'))
    BY <1>1, <1>2, <2>3, <2>4 DEF SlotsPart, SlotsExact
  <2> QED BY <2>3, <2>4, <2>5 DEF SlotsPart, SlotsExact
<1>6. TypeOK'
  <2>1. used' \in 0..Slots
    <3>1. Cardinality(Held(buckets')) \in Nat /\ Cardinality(Held(aliases')) \in Nat
      BY <1>5, FS_CardinalityType DEF SlotsPart
    <3>2. Cardinality(Gone) \in Nat /\ Cardinality(Lost) \in Nat
      BY <1>1, <1>3, FS_Subset, FS_CardinalityType DEF SlotsPart
    <3>3. used' = Cardinality(Held(buckets')) + Cardinality(Held(aliases'))
      BY <1>5 DEF SlotsPart, SlotsExact
    <3> QED BY <3>1, <3>2, <3>3, <1>1, <1>2, TableAssumption DEF TypeOK
  <2> QED BY <1>1, <1>2, <1>4, <2>1, Zenon DEF TypeOK, bucketVars
<1>7. ActivePart'
  BY <1>2, KeepActive DEF Users, bucketVars
<1>8. GatesOK' /\ Seated'
  BY <1>1, <1>2 DEF GatesOK, Seated, bucketVars
<1>9. ActsThroughOwnBucket'
  <2> SUFFICES ASSUME NEW p \in Requests, pc[p] \in Acting
               PROVE  cur[p] = Resolve(RouteOf[p])' /\ gate[cur[p]].owner = p
    BY <1>2 DEF ActsThroughOwnBucket, bucketVars
  <2>1. PICK s \in Routes : s = RouteOf[p]
    BY TableAssumption
  <2>2. cur[p] = Resolve(s) /\ gate[cur[p]].owner = p /\ ~Idle(Resolve(s)) /\ Resolve(s) # None
    BY <2>1, <1>1, ActingIsActive DEF ActsThroughOwnBucket, Seated, Acting
  <2>3. KeyOf(s) \in Keys /\ KeyOf(s) \notin Gone
    BY <2>2, <1>1, KeyType DEF Resolve, Gone
  <2>4. s \notin Lost
    BY <2>2, <2>3 DEF Lost, Held, KeyOf, Resolve
  <2>5. KeyOf(s)' = KeyOf(s)
    BY <2>4, <1>4 DEF KeyOf
  <2> QED BY <2>1, <2>2, <2>3, <2>5, <1>4 DEF Resolve
<1> QED BY <1>5, <1>6, <1>7, <1>8, <1>9, PartsNext

\* Clearing an idle credential gives back every slot.
LEMMA TableClear ==
  ASSUME TableInv, Clear
  PROVE  TableInv'
<1>1. TypeOK /\ SlotsPart /\ GatesOK /\ Seated /\ ActsThroughOwnBucket
  BY Parts
<1>2. /\ buckets' = [k \in Keys |-> None] /\ aliases' = [r \in Routes |-> None]
      /\ used' = used - (Cardinality(Held(buckets)) + Cardinality(Held(aliases)))
      /\ UNCHANGED <<bucketVars, pc, cur, tgt>>
      /\ \A q \in Requests : pc[q] = "out"
  BY DEF Clear
<1>3. Held(buckets') = {} /\ Held(aliases') = {}
  BY <1>2 DEF Held
<1>4. used' = 0
  <2>1. used \in Nat
    BY <1>1 DEF TypeOK
  <2> QED BY <2>1, <1>1, <1>2 DEF SlotsPart, SlotsExact
<1>5. SlotsPart'
  <2>1. /\ Cardinality(Held(buckets')) = 0 /\ Cardinality(Held(aliases')) = 0
        /\ IsFiniteSet(Held(buckets')) /\ IsFiniteSet(Held(aliases'))
    BY <1>3, FS_EmptySet, Zenon
  <2> QED BY <2>1, <1>4 DEF SlotsPart, SlotsExact
<1>6. TypeOK'
  <2>1. /\ buckets' \in [Keys -> Buckets \cup {None}] /\ aliases' \in [Routes -> Canonicals \cup {None}]
        /\ used' \in 0..Slots
    BY <1>2, <1>4, TableAssumption
  <2> QED BY <1>1, <1>2, <2>1, Zenon DEF TypeOK, bucketVars
<1>7. ActivePart'
  BY <1>2, KeepActive DEF Users, bucketVars
<1>8. GatesOK' /\ Seated'
  BY <1>1, <1>2 DEF GatesOK, Seated, bucketVars
<1>9. ActsThroughOwnBucket'
  BY <1>2 DEF ActsThroughOwnBucket, Acting
<1> QED BY <1>5, <1>6, <1>7, <1>8, <1>9, PartsNext

\* Time passes.
LEMMA TableTick ==
  ASSUME TableInv, Tick
  PROVE  TableInv'
<1>1. left \in [Buckets -> 0..MaxBlock] /\ stale \in SUBSET Buckets
  BY Parts DEF TypeOK
<1>2. \A b \in Buckets : Later(left[b] - 1, 0) \in 0..MaxBlock
  BY <1>1, TableAssumption DEF Later
<1>3. left' \in [Buckets -> 0..MaxBlock]
  BY <1>2 DEF Tick
<1> QED BY <1>1, <1>3, KeepLeft DEF Tick

\* A bucket goes untouched for long.
LEMMA TableAge ==
  ASSUME TableInv, NEW b \in Buckets, Age(b)
  PROVE  TableInv'
<1>1. left \in [Buckets -> 0..MaxBlock] /\ stale \in SUBSET Buckets
  BY Parts DEF TypeOK
<1>2. left' \in [Buckets -> 0..MaxBlock] /\ stale' \in SUBSET Buckets
  BY <1>1 DEF Age
<1> QED BY <1>2, KeepLeft DEF Age

\* Every step, and a step that changes nothing, preserves the invariant.
LEMMA TableNext ==
  ASSUME TableInv, [Next]_vars
  PROVE  TableInv'
<1>1. ASSUME NEW q \in Requests, Move(q)
      PROVE  TableInv'
  <2>1. CASE RecheckNoSlot(q)
    BY <2>1, TableMoveOn
  <2> QED BY <1>1, <2>1, TableEnter, TableEnterFull, TableRecheck, TableLetGo, TablePassGate DEF Move
<1>2. ASSUME NEW q \in Requests, LearnSome(q)
      PROVE  TableInv'
  <2>1. CASE LearnNothing(q)
    BY <2>1, TableMoveOn
  <2>2. ASSUME NEW d \in Reveals[RouteOf[q]] \ {None}, Learn(q, d) \/ LearnNoSlot(q, d)
        PROVE  TableInv'
    <3>1. d \in Discord
      BY TableAssumption
    <3>2. CASE Learn(q, d)
      BY <3>1, <3>2, TableLearn
    <3>3. CASE LearnNoSlot(q, d)
      BY <3>1, <3>3, TableMoveOn
    <3> QED BY <2>2, <3>2, <3>3
  <2> QED BY <1>2, <2>1, <2>2 DEF LearnSome
<1>3. ASSUME NEW q \in Requests, Respond(q)
      PROVE  TableInv'
  BY <1>3, TableObserve DEF Respond
<1>4. ASSUME NEW q \in Requests, Granted(q) \/ WaitDone(q) \/ Dispatch(q) \/ GiveUp(q)
      PROVE  TableInv'
  BY <1>4, TableMoveOn
<1>5. CASE UNCHANGED vars
  <2>1. left \in [Buckets -> 0..MaxBlock] /\ stale \in SUBSET Buckets
    BY Parts DEF TypeOK
  <2> QED BY <1>5, <2>1, KeepLeft DEF vars, tableVars
<1>6. CASE Next
  BY <1>6, <1>1, <1>2, <1>3, <1>4, TableLookup, TableCancelled, TableSweep, TableClear, TableAge, TableTick DEF Next
<1> QED BY <1>5, <1>6

\* Every state a credential's table reaches satisfies the invariant, for any number
\* of requests, routes and buckets and any limits.
THEOREM TableInvariance == Spec => []TableInv
BY TableInit, TableNext, PTL DEF Spec

\* Slots, queues and requests in a bucket are counted exactly, whatever bucket,
\* learnBucket, sweep and clear do in whatever order (scheduler.go:333-461).
THEOREM TableCounts == Spec => []CountsExact
<1>1. TableInv => CountsExact
  BY DEF TableInv
<1> QED BY <1>1, TableInvariance, PTL

\* A request acts only through the bucket its route resolves to at that moment, and
\* owns its gate (acquireBucket's second look, scheduler.go:361-384).
THEOREM TableActs == Spec => []ActsThroughOwnBucket
<1>1. TableInv => ActsThroughOwnBucket
  BY DEF TableInv
<1> QED BY <1>1, TableInvariance, PTL

\* If every request acts only through the bucket its route resolves to, owning
\* its gate, no two requests whose routes share a bucket are with Discord at the
\* same time: a gate has one owner.
LEMMA SerialByOwnership == ActsThroughOwnBucket => SharedBucketSerial
<1> SUFFICES ASSUME ActsThroughOwnBucket,
                    NEW p \in Requests, NEW q \in Requests, p # q,
                    pc[p] = "inflight", pc[q] = "inflight",
                    Resolve(RouteOf[p]) = Resolve(RouteOf[q])
             PROVE  FALSE
  BY DEF SharedBucketSerial
<1>1. cur[p] = Resolve(RouteOf[p]) /\ gate[cur[p]].owner = p
  BY DEF ActsThroughOwnBucket, Acting
<1>2. cur[q] = Resolve(RouteOf[q]) /\ gate[cur[q]].owner = q
  BY DEF ActsThroughOwnBucket, Acting
<1> QED BY <1>1, <1>2

\* Requests whose routes share a bucket are with Discord one at a time.
THEOREM TableSerial == Spec => []SharedBucketSerial
BY TableActs, SerialByOwnership, PTL

\* Nobody waits in a circle, or for a gate nobody will release, though routes move
\* between buckets while their requests are queued (scheduler.go:369-384).
THEOREM TableNoWaitCycle == Spec => []NoWaitCycle
<1>1. ASSUME TableInv, NEW b \in Buckets
      PROVE  /\ gate[b].owner # None => cur[gate[b].owner] = b
             /\ \A q \in Queued(gate[b]) : cur[q] = b /\ gate[b].owner \notin {None, q}
  <2>1. LockOK(gate[b], Requests) /\ Seated
    BY <1>1, Parts DEF GatesOK
  <2>2. gate[b].owner # None => cur[gate[b].owner] = b
    BY <2>1 DEF LockOK, Seated, Inside
  <2>3. ASSUME NEW q \in Queued(gate[b])
        PROVE  cur[q] = b /\ gate[b].owner \notin {None, q}
    <3>1. gate[b].queue # << >> /\ q \in Requests
      <4>1. \A i \in DOMAIN gate[b].queue : gate[b].queue[i] \in Requests
        BY <2>1 DEF LockOK
      <4>2. Range(<< >>) = {}
        BY DEF Range
      <4> QED BY <4>1, <4>2 DEF Queued, Range
    <3> QED BY <3>1, <2>1 DEF LockOK, Seated, Inside
  <2> QED BY <2>2, <2>3
<1>2. TableInv => NoWaitCycle
  BY <1>1 DEF NoWaitCycle
<1> QED BY <1>2, TableInvariance, PTL

-----------------------------------------------------------------------------
(* Cooldowns                                                               *)

\* The time left of a route is a number.
LEMMA RemainingType ==
  ASSUME TypeOK, NEW r \in Routes
  PROVE  /\ Resolve(r) \in Buckets \cup {None} /\ Remaining(r) \in Nat
         /\ Resolve(r) = None => Remaining(r) = 0
         /\ Resolve(r) # None => Remaining(r) = left[Resolve(r)]
<1>1. Resolve(r) \in Buckets \cup {None}
  BY KeyType DEF TypeOK, Resolve
<1>2. left \in [Buckets -> 0..MaxBlock]
  BY DEF TypeOK
<1> QED BY <1>1, <1>2 DEF Remaining

\* The same after a step.
LEMMA RemainingNext ==
  ASSUME TypeOK', NEW r \in Routes
  PROVE  Remaining(r)' \in Nat /\ (Resolve(r)' # None => Remaining(r)' = left'[Resolve(r)'])
<1>1. KeyOf(r)' \in Keys
  BY DEF TypeOK, KeyOf, Keys
<1>2. Resolve(r)' \in Buckets \cup {None}
  BY <1>1 DEF TypeOK, Resolve
<1>3. left' \in [Buckets -> 0..MaxBlock]
  BY DEF TypeOK
<1> QED BY <1>2, <1>3 DEF Remaining

\* A route loses nothing if it keeps its bucket, whose cooldown does not shrink.
LEMMA KeepRemaining ==
  ASSUME TypeOK, TypeOK', NEW r \in Routes,
         Remaining(r) = 0 \/ (Resolve(r) # None /\ Resolve(r)' = Resolve(r) /\ left'[Resolve(r)] >= left[Resolve(r)])
  PROVE  Remaining(r)' >= Remaining(r)
BY RemainingType, RemainingNext, TableAssumption

\* Nor does any route if the table stays and no cooldown shrinks.
LEMMA KeepAllRemaining ==
  ASSUME TypeOK, TypeOK', UNCHANGED tableVars, \A b \in Buckets : left'[b] >= left[b]
  PROVE  \A r \in Routes : Remaining(r)' >= Remaining(r)
<1> SUFFICES ASSUME NEW r \in Routes PROVE Remaining(r)' >= Remaining(r)
  OBVIOUS
<1>1. Resolve(r)' = Resolve(r)
  BY DEF Resolve, KeyOf, tableVars
<1> QED BY <1>1, KeepRemaining, RemainingType

\* Creating a bucket for a route takes none from another.
LEMMA BucketRemaining ==
  ASSUME TableInv, TypeOK', NEW r \in Routes, NEW b \in Buckets, Bucket(r, b)
  PROVE  \A s \in Routes : Remaining(s)' >= Remaining(s)
<1>1. TypeOK
  BY Parts
<1>2. CASE Found(r, b)
  <2>1. UNCHANGED tableVars /\ left' = left
    BY <1>2 DEF Found, bucketVars
  <2>2. \A x \in Buckets : left[x] \in Int
    BY <1>1, TableAssumption DEF TypeOK
  <2> QED BY <1>1, <2>1, <2>2, KeepAllRemaining
<1>3. CASE Create(r, b)
  <2> SUFFICES ASSUME NEW s \in Routes PROVE Remaining(s)' >= Remaining(s)
    OBVIOUS
  <2>1. CASE Resolve(s) = None
    BY <2>1, <1>1, KeepRemaining, RemainingType
  <2>2. CASE Resolve(s) # None
    <3>1. Resolve(s)' = Resolve(s)
      BY <2>2, <1>3, CreateKeeps
    <3>2. Resolve(s) # b
      BY <1>1, <1>3, KeyType DEF Create, Fresh, Resolve
    <3>3. left'[Resolve(s)] = left[Resolve(s)] /\ left[Resolve(s)] \in Int
      <4>1. Resolve(s) \in Buckets
        BY <2>2, <1>1, RemainingType
      <4>2. left \in [Buckets -> 0..MaxBlock] /\ left' = [left EXCEPT ![b] = 0] /\ MaxBlock \in Nat
        BY <1>1, <1>3, TableAssumption DEF Create, TypeOK
      <4> QED BY <3>2, <4>1, <4>2
    <3> QED BY <2>2, <3>1, <3>3, <1>1, KeepRemaining
  <2> QED BY <2>1, <2>2
<1> QED BY <1>2, <1>3 DEF Bucket

\* The bucket a route moves to inherits the cooldown of the one it leaves.
LEMMA LearnRemaining ==
  ASSUME TableInv, TypeOK', NEW q \in Requests, NEW d \in Discord, Learn(q, d)
  PROVE  \A s \in Routes : Remaining(s)' >= Remaining(s)
<1>1. TypeOK
  BY Parts
<1>2. PICK r \in Routes, c \in Canonicals, b \in Buckets, t \in Buckets : LearnStep(q, r, c, b, t)
  BY LearnTable
<1>3. /\ c \in Keys /\ r \in Keys /\ c # r /\ b # None /\ t # None /\ c # None
      /\ b = Resolve(r) /\ t = IF buckets[c] = None THEN b ELSE buckets[c]
  BY <1>2, TableAssumption DEF LearnStep
<1>4. /\ buckets'[c] = t /\ \A k \in Keys \ {r, c} : buckets'[k] = buckets[k]
  BY <1>1, <1>2, <1>3 DEF LearnStep, TypeOK
<1>5. aliases'[r] = c /\ \A s \in Routes \ {r} : aliases'[s] = aliases[s]
  BY <1>1, <1>2 DEF LearnStep, TypeOK
<1>6. left'[t] >= left[b] /\ \A x \in Buckets : left'[x] >= left[x] /\ left[x] \in Nat /\ left'[x] \in Nat
  <2>1. left' = [left EXCEPT ![t] = Later(@, left[b])]
    BY <1>2 DEF LearnStep
  <2>2. left \in [Buckets -> 0..MaxBlock]
    BY <1>1 DEF TypeOK
  <2>3. Later(left[t], left[b]) \in 0..MaxBlock /\ Later(left[t], left[b]) >= left[t] /\ Later(left[t], left[b]) >= left[b]
    BY <2>2, LaterType, TableAssumption
  <2> QED BY <2>1, <2>2, <2>3
<1> SUFFICES ASSUME NEW s \in Routes PROVE Remaining(s)' >= Remaining(s)
  OBVIOUS
<1>7. CASE s = r
  <2>1. KeyOf(r)' = c
    BY <1>3, <1>5 DEF KeyOf
  <2>2. Resolve(r)' = t
    BY <2>1, <1>4 DEF Resolve
  <2> QED BY <1>7, <2>2, <1>1, <1>3, <1>6, RemainingType, RemainingNext
<1>8. CASE s # r
  <2>1. KeyOf(s)' = KeyOf(s)
    BY <1>8, <1>5 DEF KeyOf
  <2>2. KeyOf(s) \in Keys \ {r}
    BY <1>1, <1>8, KeyType, TableAssumption
  <2>3. CASE Resolve(s) = None
    BY <2>3, <1>1, KeepRemaining, RemainingType
  <2>4. CASE Resolve(s) # None
    <3>1. Resolve(s)' = Resolve(s)
      BY <2>1, <2>2, <2>4, <1>3, <1>4 DEF Resolve
    <3>2. Resolve(s) \in Buckets
      BY <2>4, <1>1, RemainingType
    <3> QED BY <2>4, <3>1, <3>2, <1>1, <1>6, KeepRemaining
  <2> QED BY <2>3, <2>4
<1> QED BY <1>7, <1>8

\* Only buckets without a cooldown are swept.
LEMMA SweepRemaining ==
  ASSUME TableInv, TypeOK', Sweep
  PROVE  \A s \in Routes : Remaining(s)' >= Remaining(s)
<1>1. TypeOK
  BY Parts
<1>2. /\ buckets' = [k \in Keys |-> IF k \in Gone THEN None ELSE buckets[k]]
      /\ aliases' = [r \in Routes |-> IF r \in Lost THEN None ELSE aliases[r]]
      /\ left' = left
  BY DEF Sweep, Gone, Lost, bucketVars
<1> SUFFICES ASSUME NEW s \in Routes, Remaining(s) # 0 PROVE Remaining(s)' >= Remaining(s)
  BY <1>1, KeepRemaining
<1>3. Resolve(s) \in Buckets /\ Resolve(s) # None /\ left[Resolve(s)] # 0 /\ left[Resolve(s)] \in Nat
  BY <1>1, RemainingType
<1>4. KeyOf(s) \in Keys /\ KeyOf(s) \notin Gone
  BY <1>1, <1>3, KeyType DEF Gone, Idle, Resolve
<1>5. s \notin Lost
  BY <1>3, <1>4 DEF Lost, Held, KeyOf, Resolve
<1>6. KeyOf(s)' = KeyOf(s)
  BY <1>2, <1>5 DEF KeyOf
<1>7. Resolve(s)' = Resolve(s)
  BY <1>2, <1>4, <1>6 DEF Resolve
<1> QED BY <1>1, <1>2, <1>3, <1>7, KeepRemaining

\* A credential is cleared when none of its buckets has a cooldown.
LEMMA ClearRemaining ==
  ASSUME TableInv, TypeOK', Clear
  PROVE  \A s \in Routes : Remaining(s)' >= Remaining(s)
<1>1. TypeOK
  BY Parts
<1> SUFFICES ASSUME NEW s \in Routes PROVE Remaining(s) = 0
  BY <1>1, KeepRemaining
<1>2. KeyOf(s) \in Keys
  BY <1>1, KeyType
<1>3. Resolve(s) # None => left[Resolve(s)] = 0
  BY <1>1, <1>2 DEF Clear, Held, Resolve, TypeOK
<1> QED BY <1>1, <1>3, RemainingType

\* No step but the passage of time shortens the wait of a route, and a response's
\* cooldown is the least its route waits from then on.
LEMMA CooldownNext ==
  ASSUME TableInv, TableInv', Next
  PROVE  CooldownStep
<1>1. TypeOK
  BY Parts
<1>2. TypeOK'
  BY Zenon DEF TableInv, CountsExact
<1>3. \A b \in Buckets : left[b] \in 0..MaxBlock
  BY <1>1 DEF TypeOK
<1>4. ASSUME NEW q \in Requests, NEW n \in 0..MaxBlock, Observe(q, n)
      PROVE  /\ \A r \in Routes : Remaining(r)' >= Remaining(r)
             /\ Remaining(RouteOf[q])' >= n
  <2>1. PICK b \in Buckets : b = cur[q]
    BY <1>4, AtBucket DEF Observe
  <2>2. left' = [left EXCEPT ![b] = Later(@, n)] /\ UNCHANGED tableVars
    BY <1>4, <2>1 DEF Observe
  <2>3. Later(left[b], n) >= left[b] /\ Later(left[b], n) >= n /\ Later(left[b], n) \in 0..MaxBlock
    <3>1. left[b] \in 0..MaxBlock /\ MaxBlock \in Nat
      BY <1>3, TableAssumption
    <3> QED BY <3>1, LaterType
  <2>4. left'[b] >= n /\ \A x \in Buckets : left'[x] >= left[x]
    BY <1>1, <1>3, <2>2, <2>3, TableAssumption DEF TypeOK
  <2>5. PICK r \in Routes : r = RouteOf[q]
    BY TableAssumption
  <2>6. Resolve(r)' = b /\ b # None
    <3>1. Resolve(r) = b
      BY <1>4, <2>1, <2>5, Parts DEF Observe, ActsThroughOwnBucket, Acting
    <3> QED BY <3>1, <2>2, TableAssumption DEF Resolve, KeyOf, tableVars
  <2>7. Remaining(r)' >= n
    BY <1>2, <2>4, <2>6, RemainingNext
  <2> QED BY <1>1, <1>2, <2>2, <2>4, <2>5, <2>7, KeepAllRemaining
<1>5. ASSUME UNCHANGED <<tableVars, left>>
      PROVE  \A r \in Routes : Remaining(r)' >= Remaining(r)
  BY <1>1, <1>2, <1>3, <1>5, KeepAllRemaining
<1>6. ASSUME ~Tick
      PROVE  \A r \in Routes : Remaining(r)' >= Remaining(r)
  <2>1. ASSUME NEW q \in Requests,
               \/ Enter(q) \/ EnterFull(q) \/ RecheckNoSlot(q) \/ LetGo(q) \/ PassGate(q)
               \/ Granted(q) \/ Cancelled(q) \/ WaitDone(q) \/ Dispatch(q) \/ GiveUp(q) \/ LearnNothing(q)
        PROVE  UNCHANGED <<tableVars, left>>
    BY <2>1 DEF Enter, EnterFull, RecheckNoSlot, NoSlot, LetGo, PassGate, Granted, Cancelled, WaitDone,
                Dispatch, GiveUp, LearnNothing, bucketVars
  <2>2. ASSUME NEW b \in Buckets, Age(b)
        PROVE  UNCHANGED <<tableVars, left>>
    BY <2>2 DEF Age
  <2>3. ASSUME NEW q \in Requests, Lookup(q) \/ Recheck(q)
        PROVE  \A r \in Routes : Remaining(r)' >= Remaining(r)
    <3>1. \E b \in Buckets : Bucket(RouteOf[q], b)
      BY <2>3 DEF Lookup, Recheck
    <3>2. RouteOf[q] \in Routes
      BY TableAssumption
    <3> QED BY <3>1, <3>2, <1>2, BucketRemaining
  <2>4. ASSUME NEW q \in Requests, NEW d \in Reveals[RouteOf[q]] \ {None}, Learn(q, d) \/ LearnNoSlot(q, d)
        PROVE  \A r \in Routes : Remaining(r)' >= Remaining(r)
    <3>1. d \in Discord
      BY TableAssumption
    <3>2. CASE Learn(q, d)
      BY <3>1, <3>2, <1>2, LearnRemaining
    <3>3. CASE LearnNoSlot(q, d)
      BY <3>3, <1>5 DEF LearnNoSlot, bucketVars
    <3> QED BY <2>4, <3>2, <3>3
  <2>5. ASSUME NEW q \in Requests, Move(q)
        PROVE  \A r \in Routes : Remaining(r)' >= Remaining(r)
    BY <2>5, <2>1, <2>3, <1>5 DEF Move
  <2>6. ASSUME NEW q \in Requests, LearnSome(q)
        PROVE  \A r \in Routes : Remaining(r)' >= Remaining(r)
    BY <2>6, <2>1, <2>4, <1>5 DEF LearnSome
  <2>7. ASSUME NEW q \in Requests, Respond(q)
        PROVE  \A r \in Routes : Remaining(r)' >= Remaining(r)
    BY <2>7, <1>4 DEF Respond
  <2> QED BY <1>2, <1>5, <1>6, <2>1, <2>2, <2>3, <2>5, <2>6, <2>7, SweepRemaining, ClearRemaining DEF Next
<1> QED BY <1>4, <1>6 DEF CooldownStep

\* A cooldown Discord announced to a route binds the bucket the route resolves to
\* until time ends it, whatever is learned, merged, swept or evicted meanwhile.
THEOREM TableCooldowns == Spec => CooldownKept
<1>1. TableInv /\ TableInv' /\ [Next]_vars => [CooldownStep]_vars
  BY CooldownNext
<1> QED BY <1>1, TableInvariance, PTL DEF Spec, CooldownKept

=============================================================================
