----------------------------- MODULE BucketTable -----------------------------
(***************************************************************************)
(* The rate-limit buckets of one credential: clientState and bucketState   *)
(* of internal/proxy/scheduler.go.  Requests look up the bucket of their   *)
(* route, queue at its gate, dispatch to Discord one at a time, and learn  *)
(* from the response which Discord bucket the route belongs to, which may  *)
(* move the route to another bucket while other requests are queued.  A    *)
(* sweeper forgets idle buckets at any moment.                             *)
(*                                                                         *)
(* A gate is the abstract lock that FifoGate is shown to implement.  A     *)
(* cooldown is kept as the time left until readyAt, so that time is        *)
(* unbounded and the state is not.                                         *)
(***************************************************************************)
EXTENDS LockOps, Integers, FiniteSets

CONSTANTS
  Requests,    \* handlers that may be running, one request at a time each
  Routes,      \* route hashes
  Discord,     \* values of X-RateLimit-Bucket
  Majors,      \* major parameters (channel, guild, webhook)
  Buckets,     \* bucketState objects that may exist at once
  RouteOf,     \* the route of each request
  MajorOf,     \* the major parameter of each route
  Reveals,     \* what Discord may say the bucket of a route is, or None
  MaxWaiters,  \* MaxQueueDepth
  Slots,       \* MaxBucketStates, the limit of the bucketSlots budget
  MaxBlock,    \* the longest cooldown a response announces
  MaxOrphans   \* bound: buckets in use the sweeper may have dropped at once

\* canonical := HashCRC64(discordBucket + "\x00" + majorKey).  Hashes are taken
\* to be distinct for distinct inputs and from every route hash.
Canonicals == Discord \X Majors
Keys == Routes \cup Canonicals

ASSUME TableAssumption ==
  /\ RouteOf \in [Requests -> Routes]
  /\ MajorOf \in [Routes -> Majors]
  /\ Reveals \in [Routes -> SUBSET (Discord \cup {None})]
  /\ Routes \cap Canonicals = {}
  /\ None \notin Requests \cup Routes \cup Discord \cup Buckets \cup Canonicals
  /\ MaxWaiters \in Nat /\ Slots \in Nat /\ MaxBlock \in Nat /\ MaxOrphans \in Nat

VARIABLES
  buckets,  \* clientState.buckets: key -> bucket, or None
  aliases,  \* clientState.aliases: route -> canonical key, or None
  used,     \* bucketSlots.used
  gate,     \* bucketState.gate
  active,   \* bucketState.active
  stale,    \* buckets untouched for longer than clientIdleTimeout
  left,     \* time until bucketState.readyAt, 0 once it has passed
  pc,       \* where the request is
  cur,      \* its local variable bucket
  tgt       \* the bucket it moves to once it has released cur, or None

tableVars == <<buckets, aliases, used>>
bucketVars == <<gate, active, stale, left>>
vars == <<buckets, aliases, used, gate, active, stale, left, pc, cur, tgt>>

(***************************************************************************)
(* "out"       no request                                                  *)
(* "found"     bucket() returned cur, about to call cur.acquire            *)
(* "acquiring" in cur.gate.acquire, queued or already its owner            *)
(* "owning"    acquired cur, about to resolve its route again              *)
(* "holding"   acquireBucket returned cur                                  *)
(* "cleared"   cur.wait returned: no cooldown was left                     *)
(* "inflight"  the attempt is with Discord                                 *)
(* "observed"  the cooldown in the response is applied to cur              *)
(* "letting"   about to call cur.release                                   *)
(* "passing"   in cur.release, about to release the gate                   *)
(***************************************************************************)
Places == {"out", "found", "acquiring", "owning", "holding", "cleared",
           "inflight", "observed", "letting", "passing"}

Goto(q, to) == pc' = [pc EXCEPT ![q] = to]

KeyOf(r) == IF aliases[r] = None THEN r ELSE aliases[r]

\* The bucket requests of route r are sent to, or None.
Resolve(r) == buckets[KeyOf(r)]

Later(m, n) == IF m > n THEN m ELSE n

Init ==
  /\ buckets = [k \in Keys |-> None]
  /\ aliases = [r \in Routes |-> None]
  /\ used = 0
  /\ gate = [b \in Buckets |-> Free]
  /\ active = [b \in Buckets |-> 0]
  /\ stale = {}
  /\ left = [b \in Buckets |-> 0]
  /\ pc = [q \in Requests |-> "out"]
  /\ cur = [q \in Requests |-> None]
  /\ tgt = [q \in Requests |-> None]

-----------------------------------------------------------------------------
(* bucket(routeHash)                                                       *)

\* A bucketState nothing refers to stands for one not yet allocated.
Fresh(b) ==
  /\ \A k \in Keys : buckets[k] # b
  /\ \A q \in Requests : cur[q] # b /\ tgt[q] # b

Found(r, b) ==
  /\ Resolve(r) # None
  /\ b = Resolve(r)
  /\ UNCHANGED <<tableVars, bucketVars>>

Create(r, b) ==
  /\ Resolve(r) = None
  /\ used + 1 <= Slots
  /\ Fresh(b)
  /\ buckets' = [buckets EXCEPT ![KeyOf(r)] = b]
  /\ used' = used + 1
  /\ gate' = [gate EXCEPT ![b] = Free]
  /\ active' = [active EXCEPT ![b] = 0]
  /\ stale' = stale \ {b}
  /\ left' = [left EXCEPT ![b] = 0]
  /\ UNCHANGED aliases

\* b is found in the table, or created in it if a slot can be reserved.
Bucket(r, b) == Found(r, b) \/ Create(r, b)

\* errBucketStateLimit
NoSlot(r) ==
  /\ Resolve(r) = None
  /\ used + 1 > Slots
  /\ UNCHANGED <<tableVars, bucketVars>>

-----------------------------------------------------------------------------
(* acquireBucket(ctx, routeHash)                                           *)

Lookup(q) ==
  /\ pc[q] = "out"
  /\ \E b \in Buckets :
       /\ Bucket(RouteOf[q], b)
       /\ cur' = [cur EXCEPT ![q] = b]
  /\ Goto(q, "found")
  /\ UNCHANGED tgt

\* cur.acquire: counted as active, then owner of the gate or queued at it.
Enter(q) ==
  LET b == cur[q] IN
  /\ pc[q] = "found"
  /\ gate[b].owner = None \/ Len(gate[b].queue) < MaxWaiters
  /\ gate' = [gate EXCEPT ![b] = IF @.owner = None THEN Grab(@, q) ELSE Join(@, q)]
  /\ active' = [active EXCEPT ![b] = @ + 1]
  /\ stale' = stale \ {b}
  /\ Goto(q, "acquiring")
  /\ UNCHANGED <<tableVars, left, cur, tgt>>

\* errQueueFull; the bucket was touched all the same.
EnterFull(q) ==
  LET b == cur[q] IN
  /\ pc[q] = "found"
  /\ gate[b].owner # None /\ Len(gate[b].queue) >= MaxWaiters
  /\ stale' = stale \ {b}
  /\ cur' = [cur EXCEPT ![q] = None]
  /\ Goto(q, "out")
  /\ UNCHANGED <<tableVars, gate, active, left, tgt>>

Granted(q) ==
  /\ pc[q] = "acquiring"
  /\ gate[cur[q]].owner = q
  /\ Goto(q, "owning")
  /\ UNCHANGED <<tableVars, bucketVars, cur, tgt>>

\* The request's context ends in acquire, before or after it is given the gate.
Cancelled(q) ==
  LET b == cur[q] IN
  /\ pc[q] = "acquiring"
  /\ gate' = [gate EXCEPT ![b] = IF @.owner = q THEN Pass(@) ELSE Leave(@, q)]
  /\ active' = [active EXCEPT ![b] = @ - 1]
  /\ cur' = [cur EXCEPT ![q] = None]
  /\ Goto(q, "out")
  /\ UNCHANGED <<tableVars, stale, left, tgt>>

\* Fault: the route is not resolved again.
RecheckBlind(q) ==
  /\ pc[q] = "owning"
  /\ Goto(q, "holding")
  /\ UNCHANGED <<tableVars, bucketVars, cur, tgt>>

\* Resolve the route again: the table may have changed while q was queued.
Recheck(q) ==
  /\ pc[q] = "owning"
  /\ \E b \in Buckets :
       /\ Bucket(RouteOf[q], b)
       /\ \/ b = cur[q] /\ Goto(q, "holding") /\ UNCHANGED tgt
          \/ b # cur[q] /\ Goto(q, "letting") /\ tgt' = [tgt EXCEPT ![q] = b]
  /\ UNCHANGED cur

RecheckNoSlot(q) ==
  /\ pc[q] = "owning"
  /\ NoSlot(RouteOf[q])
  /\ Goto(q, "letting")
  /\ UNCHANGED <<cur, tgt>>

-----------------------------------------------------------------------------
(* bucketState.release, after which q is gone or queues at tgt             *)

LetGo(q) ==
  LET b == cur[q] IN
  /\ pc[q] = "letting"
  /\ stale' = stale \ {b}
  /\ active' = [active EXCEPT ![b] = @ - 1]
  /\ Goto(q, "passing")
  /\ UNCHANGED <<tableVars, gate, left, cur, tgt>>

\* Fault: a request that moves keeps its gate until it has the next.
PassGateMoving(q) ==
  /\ pc[q] = "passing"
  /\ gate' = IF tgt[q] = None THEN [gate EXCEPT ![cur[q]] = Pass(@)] ELSE gate
  /\ cur' = [cur EXCEPT ![q] = tgt[q]]
  /\ tgt' = [tgt EXCEPT ![q] = None]
  /\ Goto(q, IF tgt[q] = None THEN "out" ELSE "found")
  /\ UNCHANGED <<tableVars, active, stale, left>>

PassGate(q) ==
  /\ pc[q] = "passing"
  /\ gate' = [gate EXCEPT ![cur[q]] = Pass(@)]
  /\ cur' = [cur EXCEPT ![q] = tgt[q]]
  /\ tgt' = [tgt EXCEPT ![q] = None]
  /\ Goto(q, IF tgt[q] = None THEN "out" ELSE "found")
  /\ UNCHANGED <<tableVars, active, stale, left>>

-----------------------------------------------------------------------------
(* The attempt, as far as the bucket is concerned                          *)

\* bucketState.wait returns 0.
WaitDone(q) ==
  /\ pc[q] = "holding"
  /\ left[cur[q]] = 0
  /\ Goto(q, "cleared")
  /\ UNCHANGED <<tableVars, bucketVars, cur, tgt>>

Dispatch(q) ==
  /\ pc[q] = "cleared"
  /\ Goto(q, "inflight")
  /\ UNCHANGED <<tableVars, bucketVars, cur, tgt>>

\* Every early return of RoundTrip that dispatches nothing or gets no response.
GiveUp(q) ==
  /\ pc[q] \in {"holding", "cleared", "inflight"}
  /\ Goto(q, "letting")
  /\ UNCHANGED <<tableVars, bucketVars, cur, tgt>>

\* observeResponse: bucket.blockUntil(now + n); n = 0 if nothing is announced.
Observe(q, n) ==
  /\ pc[q] = "inflight"
  /\ left' = [left EXCEPT ![cur[q]] = Later(@, n)]
  /\ Goto(q, "observed")
  /\ UNCHANGED <<tableVars, gate, active, stale, cur, tgt>>

-----------------------------------------------------------------------------
(* learnBucket(routeHash, discordBucket, majorKey, current)                *)

LearnNothing(q) ==
  /\ pc[q] = "observed"
  /\ None \in Reveals[RouteOf[q]]
  /\ Goto(q, "letting")
  /\ UNCHANGED <<tableVars, bucketVars, cur, tgt>>

Canonical(d, r) == <<d, MajorOf[r]>>

One(P) == IF P THEN 1 ELSE 0

\* additions - removals
NetSlots(r, c, b) ==
  One(buckets[c] = None) + One(aliases[r] = None) - One(buckets[r] = b)

\* Fault: the target bucket does not inherit the cooldown.
LearnNoMerge(q, d) ==
  LET r == RouteOf[q]
      c == Canonical(d, r)
      b == cur[q]
      t == IF buckets[c] = None THEN b ELSE buckets[c]
  IN
  /\ pc[q] = "observed"
  /\ NetSlots(r, c, b) <= 0 \/ used + NetSlots(r, c, b) <= Slots
  /\ buckets' = [buckets EXCEPT ![c] = t, ![r] = IF @ = b THEN None ELSE @]
  /\ aliases' = [aliases EXCEPT ![r] = c]
  /\ used' = used + NetSlots(r, c, b)
  /\ Goto(q, "letting")
  /\ UNCHANGED <<bucketVars, cur, tgt>>

Learn(q, d) ==
  LET r == RouteOf[q]
      c == Canonical(d, r)
      b == cur[q]
      t == IF buckets[c] = None THEN b ELSE buckets[c]
  IN
  /\ pc[q] = "observed"
  /\ NetSlots(r, c, b) <= 0 \/ used + NetSlots(r, c, b) <= Slots
  /\ left' = [left EXCEPT ![t] = Later(@, left[b])]
  /\ buckets' = [buckets EXCEPT ![c] = t, ![r] = IF @ = b THEN None ELSE @]
  /\ aliases' = [aliases EXCEPT ![r] = c]
  /\ used' = used + NetSlots(r, c, b)
  /\ Goto(q, "letting")
  /\ UNCHANGED <<gate, active, stale, cur, tgt>>

\* No slot for the alias: the route keeps its bucket.
LearnNoSlot(q, d) ==
  LET r == RouteOf[q]
      c == Canonical(d, r)
  IN
  /\ pc[q] = "observed"
  /\ NetSlots(r, c, cur[q]) > 0 /\ used + NetSlots(r, c, cur[q]) > Slots
  /\ Goto(q, "letting")
  /\ UNCHANGED <<tableVars, bucketVars, cur, tgt>>

-----------------------------------------------------------------------------
(* sweep, clear, and the passage of time                                   *)

Idle(b) == left[b] = 0 /\ active[b] = 0 /\ b \in stale

Held(f) == {x \in DOMAIN f : f[x] # None}

\* Buckets that requests still refer to and the table no longer does.
Orphans ==
  {b \in Buckets : /\ \E q \in Requests : b \in {cur[q], tgt[q]}
                  /\ \A k \in Keys : buckets[k] # b}

\* Fault: the slots of dropped aliases are not given back.
SweepLeaking ==
  LET gone == {k \in Held(buckets) : Idle(buckets[k])}
      lost == {r \in Held(aliases) : aliases[r] \in gone \/ buckets[aliases[r]] = None}
  IN
  /\ gone \cup lost # {}
  /\ buckets' = [k \in Keys |-> IF k \in gone THEN None ELSE buckets[k]]
  /\ aliases' = [r \in Routes |-> IF r \in lost THEN None ELSE aliases[r]]
  /\ used' = used - Cardinality(gone)
  /\ UNCHANGED <<bucketVars, pc, cur, tgt>>
  /\ Cardinality(Orphans') <= MaxOrphans

\* Under clientState.mu, so one step.  active and readyAt may change while it
\* runs, but then only as if they had changed after it.
Sweep ==
  LET gone == {k \in Held(buckets) : Idle(buckets[k])}
      lost == {r \in Held(aliases) : aliases[r] \in gone \/ buckets[aliases[r]] = None}
  IN
  /\ gone \cup lost # {}
  /\ buckets' = [k \in Keys |-> IF k \in gone THEN None ELSE buckets[k]]
  /\ aliases' = [r \in Routes |-> IF r \in lost THEN None ELSE aliases[r]]
  /\ used' = used - Cardinality(gone) - Cardinality(lost)
  /\ UNCHANGED <<bucketVars, pc, cur, tgt>>
  /\ Cardinality(Orphans') <= MaxOrphans

\* The idle credential is evicted (clientState.idle, then clear).
Clear ==
  /\ \A q \in Requests : pc[q] = "out"
  /\ \A k \in Held(buckets) : active[buckets[k]] = 0 /\ left[buckets[k]] = 0
  /\ buckets' = [k \in Keys |-> None]
  /\ aliases' = [r \in Routes |-> None]
  /\ used' = used - (Cardinality(Held(buckets)) + Cardinality(Held(aliases)))
  /\ UNCHANGED <<bucketVars, pc, cur, tgt>>

\* A bucket goes untouched for clientIdleTimeout.
Age(b) ==
  /\ b \notin stale
  /\ \E k \in Keys : buckets[k] = b
  /\ stale' = stale \cup {b}
  /\ UNCHANGED <<tableVars, gate, active, left, pc, cur, tgt>>

Tick ==
  /\ \E b \in Buckets : left[b] > 0
  /\ left' = [b \in Buckets |-> Later(left[b] - 1, 0)]
  /\ UNCHANGED <<tableVars, gate, active, stale, pc, cur, tgt>>

-----------------------------------------------------------------------------

Respond(q) == \E n \in 0..MaxBlock : Observe(q, n)

LearnSome(q) ==
  \/ LearnNothing(q)
  \/ \E d \in Reveals[RouteOf[q]] \ {None} : Learn(q, d) \/ LearnNoSlot(q, d)

\* What a request does in acquireBucket and release whatever its context.
Move(q) ==
  \/ Enter(q)
  \/ EnterFull(q)
  \/ Recheck(q)
  \/ RecheckNoSlot(q)
  \/ LetGo(q)
  \/ PassGate(q)

Next ==
  \/ \E q \in Requests :
       \/ Lookup(q) \/ Move(q) \/ Granted(q) \/ Cancelled(q)
       \/ WaitDone(q) \/ Dispatch(q) \/ GiveUp(q)
       \/ Respond(q) \/ LearnSome(q)
  \/ Sweep
  \/ Clear
  \/ \E b \in Buckets : Age(b)
  \/ Tick

Spec == Init /\ [][Next]_vars

-----------------------------------------------------------------------------
(* Safety                                                                  *)

\* Types; neither the slots nor a queue exceeds its limit (scheduler.go:345-358,
\* 124-127).
TypeOK ==
  /\ buckets \in [Keys -> Buckets \cup {None}]
  /\ aliases \in [Routes -> Canonicals \cup {None}]
  /\ used \in 0..Slots
  /\ \A b \in Buckets :
       /\ gate[b].owner \in Requests \cup {None}
       /\ gate[b].queue \in Seq(Requests)
       /\ Len(gate[b].queue) <= MaxWaiters
  /\ active \in [Buckets -> Nat]
  /\ stale \in SUBSET Buckets
  /\ left \in [Buckets -> 0..MaxBlock]
  /\ pc \in [Requests -> Places]
  /\ cur \in [Requests -> Buckets \cup {None}]
  /\ tgt \in [Requests -> Buckets \cup {None}]

\* Every slot reserved in the shared budget is a live table entry and the
\* reverse: no path of bucket, learnBucket, sweep or clear leaks or overdraws a
\* slot (scheduler.go:333-461).
SlotsExact == used = Cardinality(Held(buckets)) + Cardinality(Held(aliases))

\* The states in which a request acts for its route.
Acting == {"holding", "cleared", "inflight", "observed"}

\* A request acts only through the bucket its route resolves to at that moment,
\* and owns its gate: whatever other requests learned or the sweeper dropped
\* since it looked the bucket up (acquireBucket, scheduler.go:361-384).
ActsThroughOwnBucket ==
  \A q \in Requests : pc[q] \in Acting =>
    /\ cur[q] = Resolve(RouteOf[q])
    /\ gate[cur[q]].owner = q

\* Requests whose routes are known to share a bucket are never with Discord at
\* the same time: a consequence of ActsThroughOwnBucket (BucketTableProofs).
SharedBucketSerial ==
  \A p, q \in Requests :
    /\ p # q
    /\ pc[p] = "inflight" /\ pc[q] = "inflight"
    => Resolve(RouteOf[p]) # Resolve(RouteOf[q])

\* Time until the bucket the route resolves to is ready.
Remaining(r) == IF Resolve(r) = None THEN 0 ELSE left[Resolve(r)]

CooldownStep ==
  /\ Tick \/ \A r \in Routes : Remaining(r)' >= Remaining(r)
  /\ \A q \in Requests, n \in 0..MaxBlock : Observe(q, n) => Remaining(RouteOf[q])' >= n

\* A cooldown Discord announced to a route binds the bucket the route resolves
\* to until time ends it, whatever is learned, merged, swept or evicted meanwhile
\* (merge and the order of blockUntil and learnBucket, ratelimit.go:288-306).
CooldownKept == [][CooldownStep]_vars

\* The states between acquire and release, and the requests there at bucket b.
Counted == Acting \cup {"acquiring", "owning", "letting"}
Users(b) == {q \in Requests : cur[q] = b /\ pc[q] \in Counted}

\* active counts exactly the requests between acquire and release, so an idle
\* bucket is one nobody queues at or holds, but for a holder already letting go.
ActiveExact == \A b \in Buckets : active[b] = Cardinality(Users(b))

\* Slots, queues and requests in a bucket are counted exactly.
CountsExact == TypeOK /\ SlotsExact /\ ActiveExact

\* No circle of requests waits for one another, and nobody waits for a gate that
\* nobody will release: a gate is owned by a request at that bucket, and who is
\* queued at it has no other, though routes move between buckets in any
\* direction while their requests are queued (scheduler.go:369-384).
NoWaitCycle ==
  \A b \in Buckets :
    /\ gate[b].owner # None => cur[gate[b].owner] = b
    /\ \A q \in Queued(gate[b]) : cur[q] = b /\ gate[b].owner \notin {None, q}

-----------------------------------------------------------------------------
(* The inductive invariant behind them (BucketTableProofs)                 *)

InGate == Counted \cup {"passing"}

\* A request is in the gate of its own bucket, from acquire until the gate is
\* released, and in no other; past acquire it owns that gate.
Seated ==
  \A q \in Requests :
    /\ cur[q] = None <=> pc[q] = "out"
    /\ tgt[q] # None => pc[q] \in {"letting", "passing"}
    /\ \A b \in Buckets : Inside(gate[b], q) <=> cur[q] = b /\ pc[q] \in InGate
    /\ pc[q] \in InGate \ {"acquiring"} => gate[cur[q]].owner = q

GatesOK ==
  /\ gate \in [Buckets -> [owner : Requests \cup {None}, queue : Seq(Requests)]]
  /\ \A b \in Buckets : LockOK(gate[b], Requests)

\* What is counted is finite, though the sets it is taken from need not be.
CountsFinite ==
  /\ IsFiniteSet(Held(buckets)) /\ IsFiniteSet(Held(aliases))
  /\ \A b \in Buckets : IsFiniteSet(Users(b))

TableInv == CountsExact /\ CountsFinite /\ GatesOK /\ Seated /\ ActsThroughOwnBucket
=============================================================================
