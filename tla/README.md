# A TLA+ model of nirn-proxy

nirn-proxy is an HTTP reverse proxy for Discord's REST API. It queues requests so that
Discord's rate limits are respected, absorbs 429 answers by sending a request again, and
keeps the state this takes within fixed bounds. The difficulty is concurrency: every
request is a goroutine, and they meet at FIFO gates, atomic counters, a pacer and tables
that a sweeper prunes behind their back.

This directory holds TLA+ modules translated from `src/`, the TLC configurations that
check them on small instances, and TLAPS proofs. Paths such as `scheduler.go:361` are
below `src/internal/proxy/`; `main.go` and `config.go` are in `src/`. `PROJECT.json`
lists components, runs, hazards and theorems, and maps every definition to the lines it
models.

## 1. Inventory

| Part | State | Operations | Meets | What makes it correct |
|---|---|---|---|---|
| `fifoGate` (scheduler.go:96-166) | held flag, FIFO of waiters | acquire(ctx), release | buckets, validation, pacer | one owner; FIFO; bounded; a cancelled waiter leaves and loses no handover |
| Buckets of a credential (scheduler.go:168-461) | `buckets`, `aliases`, per bucket a gate, `readyAt`, `active` | bucket, acquireBucket, wait, blockUntil, learnBucket, sweep, clear | gate, slots budget, responses, sweeper | requests of one bucket one at a time; cooldowns never lost; slots exact |
| `scheduledTransport` (transport.go:98-304) with `observeResponse` | locals of each request, `validity`, the gates it holds | RoundTrip | everything below it | one probe of an unknown credential; retries wait; every path lets go of what it holds; every request returns |
| Pacer (ratelimit.go:90-199) | `next`, `blockedUntil`, gate, wake channel | waitFor, blockFor, retryAfter | clock, deadlines | even spacing, bound per second, no stale or hopeless sleep |
| Invalid-request guard (ratelimit.go:29-79) | stamps, head, reserved | available, reserve, complete, prune | clock readings of its callers | the rolling window never exceeds the limit; old responses expire |
| Client registry and admission (proxy.go:206-304, scheduler.go:286-331, 463-576) | `bots`, `bearers`, `noAuth`, in-flight budget | ServeHTTP, client, evictOldestIdle, sweepClients | buckets, shutdown | one client per credential in use; limits; cooldowns outlive eviction |
| Body capture (transport.go:330-533) | buffer, temporary file, reservation | Read, replay, cleanup | transport's reader, capture budget | a retry sends the whole body; nothing is left behind |
| Budgets (proxy.go:104-132) | an atomic counter | reserve, release | bodies, slots, in-flight | exact, never exceeded |
| Process and shutdown (main.go:29-189, proxy.go:364-390) | listeners and servers, ctx, closeDone, joinDone | run, Close, finishClose | registry, sweeper, join, signals | nothing open at exit; nothing used after it is dropped; Close and the process end |
| Cluster (cluster.go, proxy.go:240-282) | memberlist, route table, capacity flag | JoinCluster, closeCluster, reindexMembers, calculateRoute | gossip, ServeHTTP | no memberlist outlives Close; the table follows the last membership; a request is forwarded once and answered |
| Headers (ratelimit.go:200-307) | none | parseRateLimitHeaders, observeResponse | buckets, pacer | no attempt sooner than asked; every 429 waits |
| Routes (routes.go) | none | bucket path, major parameter, route and affinity keys | buckets, pacer, cluster | requests that share a limit share a bucket, a node and a rate |
| Credentials, configuration, observability, HTTP plumbing | none or small | parsing, hashing, I/O | | sequential; ordinary tests reach them |

Hard behaviours: a context that ends while a lock is being handed over; a route that
changes bucket while requests wait for the old one; a sweeper that drops what others
point to; membership events that rebuild a table in any order; a join that races with
shutdown; a cooldown announced to a sleeper; clock readings applied out of order; a body
read after its request has returned; and some fifteen return paths of `RoundTrip`, each
of which must release what it holds. The `hazards` of `PROJECT.json` list them line by
line with the properties aimed at them.

## 2. Modules

```
LockOps ──► FifoLock ◄─ refines ─ FifoGate          (the gate)
   │
   ├─► BucketTable ──► RoundTrip                     (buckets; a request, whole)
   └─► Pacer
Routes, Headers ──► Exchange                         (what a request and its answers say)
InvalidGuard      ClientRegistry      BodyReplay
Lifecycle         Peers                              (a node's life; nodes together)
Proofs: DataProofs (queues, sums) ──┬─► AdmissionProofs      (FifoGate, InvalidGuard)
                                    ├─► TrafficProofs        (Pacer, Peers)
                                    ├─► RegistryProofs       (ClientRegistry)
                                    ├─► ProcessProofs        (BodyReplay, Lifecycle)
                                    └─► BucketTableProofs ──► RoundTripProofs
        ExchangeProofs                                        (the cooldowns of Exchange)
MC*: constants' values and symmetry for TLC
```

**LockOps, FifoLock, FifoGate.** `LockOps` is a lock as a record (owner, queue) with the
operations the larger models use. `FifoLock` is the abstract specification: a request
takes its place, becomes owner in order, leaves. `FifoGate` is `fifoGate` in steps: the
mutex section of acquire, the select whose two ready branches race, the look at the
context after being handed the gate, and the handover of release. A caller's context may
end at any time. The refinement mapping keeps owner and queue, except that a caller
handed the gate is its owner at once.

**BucketTable.** The two maps, the slots and one lock per bucket. A request looks its
bucket up, queues, checks again that its route still resolves there (and moves on if
not), waits, is sent, and learns from the answer. `learnBucket`, `sweep` and `bucket`
run under one mutex and are one step each; `acquire`, `release` and the lookups around
them are separate steps. Hashes of distinct inputs are taken to be distinct. A cooldown
is the time left, so time is unbounded.

**RoundTrip.** The whole of `scheduledTransport.RoundTrip` over `BucketTable`: `stage`
is the place in the function, and actions are composed from `BucketTable`'s. The two
loads of the validity and the acquisition between them are three steps. The answer is
one of: other status, 401, 403, 429, 429 shared, 429 global, or none. The guard is
its counters (InvalidGuard has the stamps), the pacer its gate and its block (Pacer has
the spacing). Whether a body can be replayed and whether a cooldown fits the deadline
are choices. The history `told` is what is left of the cooldown a request's own 429
announced.

**Pacer.** `waitFor` from the gate to the grant with an integer clock: look, sleep
without the mutex, wake by timer, channel or context, refuse when the cooldown does not
fit the deadline. `Interval` is `newPacer`'s rounding. The history `grants` records when
grants were given.

**InvalidGuard.** Stamps, head and reservations, with compaction. An operation uses a
clock reading up to `MaxLag` old, because callers read the clock before they get the
mutex. `log` records every invalid response, `seen` the latest reading used.

**ClientRegistry.** Admission, `client` with its two limits and evictions, begin and end
(counting out and touching are two steps), the sweeper's locked half and its unlocked
sweep of a snapshot, Close. A client is known by whether it is in use, cooling, long
unused, and how many slots it occupies.

**BodyReplay.** `captureBody.Read` in the transport's goroutine, beside `prepareRetry`
and `close` in RoundTrip's. Bodies are lengths. While Read is in `captureLocked` it
holds the capture's mutex, so replay and cleanup wait. `resourceBudget.reserve` is its
load and its compare-and-swap.

**Routes, Headers, Exchange.** `Routes` and `Headers` are the pure code of routes.go and
of header parsing, as operators. A path is a sequence of segments and a segment one of
the sorts the code tells apart: a word, a snowflake of some age, a token (which carries
an application's identifier, or is opaque, and is long or short). A header is missing,
malformed or the number it parses to. `Exchange` is the state machine around them: a
path is read segment by segment, the request is sent, and its responses raise the
cooldowns that time wears down. `Asked` restates independently what a response asks for.

**Lifecycle.** `run` of main.go from the first listener to the exit with every error
return, `Close`, `finishClose`, the sweeper's end, and the sections of `JoinCluster` and
`closeCluster` under `clusterMu`. `pc` is where each caller is; `Others` are callers of
the two exported operations besides `run`. Servers and memberlists are external: what
they do is a choice, and only the order of the code's calls to them is fixed.

**Peers.** Several nodes: `reindexMembers` in the goroutines the membership events start
(serialised by `clusterIndexMu`, with two stores a request may fall between), and
`ServeHTTP` from admission through the hop check and the forwarding to the answer. The
handler does not tell a client from a peer, so a client may write a hop of its own
(`HopHeaders`, kept in the history `given`). Scores are any ranking without ties. Gossip is external: each node's view changes on its
own. The nodes a cluster starts with are no more than `MaxNodes`, which JoinCluster
checks (cluster.go:166).

Definitions whose comment starts with "Fault:" are altered forms of the definition after
them (a dropped guard, a missing release). No specification uses them; replacing the
definition by its fault must make TLC report the property `PROJECT.json` names, which
shows the property can fail.

## 3. Runs

| Run | Question | Bounds |
|---|---|---|
| `gate` | safety, refinement of FifoLock and liveness of `fifoGate` | 4 callers, 2 waiters: a full queue, and two waiters that may leave around a handover |
| `table_safety` | do requests act only through the right bucket, are cooldowns kept, slots exact, and never a cycle of waits? | 3 requests, 2 routes, Discord names either of 2 buckets or none; 3 slots, so learning can fail; sweeper at any time |
| `flow_crowd` | one probe, nothing kept, an invalid credential stays so | 3 requests on 3 routes with a bucket each, so they meet at the validation gate and the pacer and never at a bucket's; 3 slots, of which one route takes two once Discord has named its bucket, so that another finds none; budget of 2; no cooldowns and so no 429s |
| `flow_retry` | does a retry wait out its own cooldown; do reservations match attempts? | an ordinary request and an interaction on two routes of one Discord bucket; 3 slots, which the bucket and two aliases fill, so that the routes come to share it; sweeper on; the context of the ordinary one may end |
| `flow_liveness` | does every request return without its deadline? | 2 requests, retries and cooldowns, routes that come to share a bucket; the context of one may end at any time, that of the other never does |
| `pacer` | spacing, bound per second, sleeps | 2 callers, a second of 5 ticks and 3 grants (5/3 rounds), 7 ticks |
| `invalid_guard` | rolling window, expiry | limit 3, window 2, lag 1, compaction of prefixes longer than 1, 6 ticks |
| `registry` | limits, evictions, slots, shutdown | a bot, two bearers and no credential; 3 requests, 2 in flight, 1 client of each limit, 2 slots |
| `body` | budget, leaks, replay | 2 bodies of up to 3 bytes, limit 2, memory 1, budget 3: too long, spilled, refused and exhausted all happen |
| `lifecycle` | no orphaned memberlist, no listener left open, peer reachable, Close and the process end | `run` clustered or not, 2 other callers that join or close, a plain and the peer server |
| `peers` | do tables settle, is forwarding bounded, does the owner serve, is everyone answered? | 2 nodes with 1 place each, a dead member, one with bad metadata; 2 requests that belong to opposite nodes, with no hop header or a hop of 1; 2 changes of views; 2 nodes allowed |
| `exchange` | grouping of routes; cooldowns of responses | 3 prefixes, paths of up to 4 of 12 segments, all 4096 combinations of the headers' values; minimum 3, slack 1, maximum 7, so that values lie below, between and above |

Deadlock is checked except in `registry`, `body`, `lifecycle` and `peers`, where
requests, the proxy or the process really come to an end. Symmetry is used only in
safety runs, over objects nothing names (buckets, callers, bearers, requests).

Other bounds: `MaxOrphans` limits the buckets in use that the sweeper has dropped at
once, `MaxBlock` the length of a cooldown, `MaxEntries` the slots of a client, and two
`clientState` objects per credential suffice for one registered and one that a request
or the sweeper still refers to. `SweeperRuns` leaves the sweeper out of the other flow
runs; `flow_retry` and `table_safety` have it. `Impatient` are the requests whose
context may end. The properties of `flow_crowd` were also checked once with 429s and no
buckets named (`MaxBlock = 1`, `Impatient = {q1}`: 10.2 million states, a quarter of an
hour); that instance is too large to be kept as a run. So is `table_safety` with 4
slots, where the two routes can each move to the bucket the other leaves: it was checked
once as well (2.1 million states).

**Fairness.** Liveness runs assume that goroutines that can run do (weak fairness of
each request's steps), that time passes, and that an attempt ends, since its context has
the REQUEST_TIMEOUT deadline (transport.go:201). `flow_liveness` assumes besides that
Discord does not answer 429 for ever (strong fairness of the attempts that end
otherwise). `WaitersServed` assumes that owners release. No run assumes that a context
ends: QUEUE_TIMEOUT is not what makes requests progress in them. `lifecycle` assumes
that run's goroutine and the sweeper run and that the timers of main.go fire, and
nothing of signals, handlers, failing servers, finishClose or other callers, so that
`ProcessEnds` holds though each of them hangs; `CloseCompletes` assumes besides that the
memberlist's calls return. `peers` assumes that goroutines run and that a forwarded
request reaches its peer or fails, since the peer transport has timeouts.

## 4. Proofs

All are checked by TLAPS from the named assumptions on the constants, with no bound on
callers, times or limits.

* **DataProofs.** Lemmas the others share. Queues: what appending, taking the head and
  leaving do to a sequence without repetition. Sums: what happens to the total of a
  function over a finite set when one value changes (`TotalPut`, `TotalClear`). A fold
  is not open to induction here (see below), so these rest on well-foundedness: of the
  finite sets for which a sum would be wrong one is minimal by inclusion
  (`SmallestSet`), and taking an element out of it gives a contradiction.
* **AdmissionProofs**, the gate.
  `GateInvariance` proves the inductive invariant `GateInv`: types, one owner, and
  `WaiterStates`, which says that a waiting caller is queued or has been handed the gate
  and never both. That is what mutual exclusion needs to be inductive, since a handover
  makes an owner of a caller that has not run yet. `GateSafety`: one owner, no lost
  handover, nobody stranded (`GateSafe`). `GateTypes`. `GateImplementsLock`: every step
  of the gate is a step of the FIFO lock or a stutter, so the models that use the lock
  are entitled to it.
* **AdmissionProofs**, the guard. `GuardInv` says that the retained stamps are the tail
  of the log of all invalid responses, that what was dropped before them has left the
  window, and that no stamp lies more than the lag behind an earlier one. `GuardWindow`:
  responses of the last window and open attempts never exceed the limit, although stamps
  are unordered and prefixes compacted. `GuardExpiry`: a retained stamp outlives the
  window by at most the lag. `GuardLimit`, `GuardTypes`. `ClusterBudget`: with the share
  `NodeLimit` of config.go, nodes up to the configured maximum have together no more
  places than the whole budget, so the bound of a node carries over to the cluster.
* **ExchangeProofs.** `ExchangeInv`: no cooldown before the request is sent, and none,
  awaited or not, beyond a day and the slack. The responses are any records of headers
  that are missing, malformed or numbers. From it `ExchangeAsLongAsAsked` and
  `ExchangeLimitedWaits`, by cases on the status and on who sees the pacer: a global 429
  blocks the pacer, and the bucket only of an interaction, which passes the pacer by.
* **TrafficProofs**, the pacer. `PacerInv` adds that `next` is one interval after the
  last grant and that only the gate's owner is inside. From it `PacerSpacing` (any n
  grants span n-1 intervals), `PacerWindow` (no second holds more than the allowance,
  from the rounding up of the interval), `PacerSleep`, `PacerTypes`.
* **BucketTableProofs.** `TableInv` is the counts, finite, with `Seated`: a request is
  in the gate of its own bucket from acquire until the gate is released, and in no
  other. `ActsThroughOwnBucket` alone is not inductive: a bucket may be swept only when
  idle, and it takes the exact count and `Seated` to know that an idle bucket is
  nobody's. From it `TableCounts`, `TableActs`, `TableNoWaitCycle`, and `TableSerial`:
  requests whose routes share a bucket are never with Discord together. `TableCooldowns`
  is the action property: only time shortens a route's cooldown.
* **RoundTripProofs.** `FlowUsesTable`: every step of RoundTrip is a step of BucketTable
  or leaves it alone, so `TableInv` and all that follows hold in the whole transport.
  `FlowInv` adds where the holder of each gate may be (`Validators`, `Pacing`), that
  reservations are the attempts under way (`Attempts`), that while a prober holds the
  validation gate nobody else settles the credential (`Probed`), and what is left of a
  request's own 429 (`Owed`): it is left of its bucket's cooldown or, for an ordinary
  request, of the pacer's block, and the request passes the one and then the other. From
  it `FlowOneProbe`, `FlowAttemptsReserved`, `FlowNothingKept` and the action properties
  `FlowInvalidSticks` and `FlowRetryWaits`.
* **RegistryProofs.** `RegistryInv` adds to the four invariants that a client's use
  count is the number of requests at work with it (`UsesCounted`), that the order of use
  lists registered clients once (`RecencyKept`), and that they are within their limit
  (`ClientsBounded`). `OneClientPerCredential` needs the first: eviction and sweep spare
  clients in use, and a count is all they look at. From it `RegistryCounts` (the slots
  are a sum over clients, and a dropped client returns exactly its own),
  `RegistryOneClient`, `RegistryCooldowns`, `RegistryNothingAfterClose`, and the action
  property `RegistryNoVainEviction`: client checks two limits one after the other, and
  when the first has cost a client its place the second cannot refuse, because the
  clients were within `ClientsBounded` and are now one fewer (`VictimFacts`). Filtering
  the order of use is reasoned about with a least counterexample (`LeastOf`).
* **ProcessProofs**, captured bodies. `BodyInv` relates what was read, what is kept and
  what is reserved of each body (`Tallied`), ties it to RoundTrip's place (`Staged`),
  and says what the value loaded by a reserve under way entitles its caller to
  (`Reserving`), which the compare-and-swap then makes true of the budget. From it
  `BodyCaptureBounded` (the budget is the sum of the reservations, and never exceeded),
  `BodyNothingLeft` (a late reader included) and `BodyReplayWhole`.
* **ProcessProofs**, a node's life. `LifeInv`: one join at a time and none once the
  memberlist is taken (`OneJoin`); somebody will shut down every memberlist that is
  alive (`ListsOwned`), its joiner, the proxy or finishClose; how far run has come on
  its way out (`WayOut`); the peer server is up before a join starts (`PeerFirst`). From
  it `LifeNoOrphan`, `LifeNothingOpen` and the action property `LifePeerReachable`.
* **TrafficProofs**, nodes together. `PeersInv`: rebuilds of a node are one at a time
  and the last has read the last membership (`Rebuilding`); the hop a handler reads
  counts the forwards from what the client wrote (`HopsCounted`); a request that came
  when the tables agreed is forwarded to its owner, if at all (`CalmRouting`). From it `PeersTablesSettle`,
  `PeersForwardedOnce` and `PeersOwnerServes`. The lemma `WinnerIn`, that
  `rendezvousMember` returns a member of any finite table, rests on the well-foundedness
  of inclusion of finite sets.

TLC has checked every inductive invariant on the instance of its component's run. Where
components share a proof module their definitions have names of their own (`GuardSpec`,
`BodySpec`, `RegistrySpec`, `ExchangeSpec`, `PeersSpec`).

Only model-checked:

* all liveness (`WaitersServed`, `RequestsReturn`, `CloseCompletes`, `ProcessEnds`,
  `RequestsAnswered`), since fairness and ENABLED are outside the prover;
* `RouteGrouping` and `RouteTogether`: they are about what the route functions compute
  from a sequence of segments, whatever its length, which is induction over data.

## 5. What the properties do not say

Met while modelling; each is how the code is, with the doc it touches where there is
one.

* A request woken at a bucket its route has left queues again at the back of the new one
  (scheduler.go:378-380), behind later requests of the same route. `src/README.md:3`
  promises "FIFO dispatch within a bucket"; `LockSpec` shows that of a bucket's gate,
  not across a move.
* The bucket's cooldown is awaited before the pacer is (transport.go:177, 189). One
  merged into the bucket between the two does not stop the attempt (cf.
  `src/README.md:48`, "prevents avoidable dispatches").
* Interactions that keep being answered by global 429s can hold ordinary requests back
  until their deadline, and a bucket that Discord renames for ever can be chased until
  then. `flow_liveness` has neither; `NoWaitCycle` shows that a request on the move
  blocks nobody.
* The capacity flag and the table are stored, and loaded by a request, one after the
  other (proxy.go:240, 275): between the two stores a request may be routed by the
  former table. `OwnerServes` is therefore about tables that agree from a request's
  arrival on.
* X-Nirn-Hop is read from every request, a client's included (proxy.go:270), and only
  then removed (cf. `src/README.md:5`). A client that writes 1 or more is refused by
  every node but its owner, with "cluster routing did not converge". `OwnerServes`
  says so: such a header can have a request refused, and cannot have it sent by another
  node or forwarded more often.
* A rebuild in progress while the cluster is closed may store a table after
  `closeCluster` has stored nil. Requests then forwarded end as failed or refused.
* A response with X-RateLimit-Reset and no other header counts as silent
  (ratelimit.go:214-218), and a malformed X-RateLimit-Remaining hides a valid
  Retry-After, so that the minimum delay applies. `AsLongAsAsked` is about the other
  responses.
* A signal before `signal.NotifyContext` ends the process without clean-up. Lifecycle
  has signals only after it.

How the modules fit: `LimitedWaits` is why RoundTrip may let every 429 set a cooldown;
`RouteGrouping` and `RouteTogether` are why a route may be a model value in BucketTable
and Peers; `LockSpec` is why BucketTable and Pacer may use the abstract lock.

## 6. Not modelled

Credentials (identify, fingerprints): string parsing and SHA-256 without state.
Configuration, except for the division of the invalid-request budget: sequential
validation of the environment and of certificates. Observability: metrics, logs and
redaction, and a label limiter whose only step is under one mutex. HTTP plumbing of
transport.go: transport settings, header rewriting, mapping of errors to statuses.
Gossip is a library. Hash collisions are ignored. A peer that answers after the
forwarding node has given up is not told apart from one that cannot be reached. Grants
of the pacer are spaced; what the network makes of dispatches is not in the code's
hands.
