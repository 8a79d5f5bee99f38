--------------------------- MODULE ClientRegistry ---------------------------
(***************************************************************************)
(* The clients of a Proxy (internal/proxy/proxy.go, scheduler.go): ServeHTTP *)
(* admits a request and asks client for the clientState of its credential, *)
(* which makes room by evicting the oldest idle one; sweepLoop drops idle  *)
(* clients and sweeps the others; Close cancels and forgets every client.  *)
(*                                                                         *)
(* clientsMu makes client, the first half of sweepClients and finishClose's *)
(* assignments atomic.  A clientState is known by what client and the      *)
(* sweeper ask of it: whether it is in use, cooling down or long unused,   *)
(* and how many slots its buckets and aliases occupy.                      *)
(***************************************************************************)
EXTENDS Naturals, Sequences, FiniteSets, FiniteSetsExt

CONSTANTS
  NoClient,             \* nil
  Bots, Bearers, Anon,  \* credentials: bot tokens, bearer tokens, no credential
  States,               \* clientState objects
  Owner,                \* clientState.identity: the credential of each
  NoAuth,               \* the clientState of requests without a credential
  Requests,
  MaxBearerClients, MaxClientStates, MaxInFlightRequests,
  MaxBucketStates,      \* the limit of bucketSlots
  MaxEntries            \* bound: the slots one client occupies

Keys == Bots \cup Bearers
Creds == Keys \cup {Anon}

ASSUME RegistryAssumption ==
  /\ IsFiniteSet(Requests) /\ IsFiniteSet(States)
  /\ Bots \cap Bearers = {} /\ Anon \notin Keys
  /\ NoAuth \in States /\ NoClient \notin States
  /\ Owner \in [States -> Creds] /\ Owner[NoAuth] = Anon
  /\ MaxBearerClients \in Nat \ {0} /\ MaxClientStates \in Nat \ {0}
  /\ MaxInFlightRequests \in Nat \ {0} /\ MaxBucketStates \in Nat \ {0}
  /\ MaxEntries \in Nat

VARIABLES
  table,     \* Proxy.bots and Proxy.bearers
  noAuth,    \* Proxy.noAuth
  recency,   \* the clients of table by lastUsed, the oldest first
  aged,      \* how many of them were last used over clientIdleTimeout ago
  inUse,     \* clientState.active
  cooling,   \* clients whose pacer or one of whose buckets is blocked
  entries,   \* buckets and aliases of a client
  slots,     \* bucketSlots.used
  inFlight,  \* inFlight.used
  phase,     \* where a request is in ServeHTTP
  cred,      \* its credential
  holds,     \* its clientState
  done,      \* Proxy.ctx has ended
  closing,   \* where finishClose is
  sweepLoop, \* where sweepLoop is
  snapshot   \* clients sweepClients has yet to sweep

registry == <<table, noAuth, recency, aged, inUse, cooling, entries, slots>>
requests == <<inFlight, phase, cred, holds>>
lifecycle == <<done, closing, sweepLoop, snapshot>>
registryVars == <<registry, requests, lifecycle>>

RegistryInit ==
  /\ table = [c \in Keys |-> NoClient]
  /\ noAuth = NoAuth
  /\ recency = << >> /\ aged = 0
  /\ inUse = [s \in States |-> 0]
  /\ cooling = {}
  /\ entries = [s \in States |-> 0] /\ slots = 0
  /\ inFlight = 0
  /\ phase = [q \in Requests |-> "out"]
  /\ cred = [q \in Requests |-> Anon]
  /\ holds = [q \in Requests |-> NoClient]
  /\ done = FALSE /\ closing = "no"
  /\ sweepLoop = "select" /\ snapshot = {}

Proceed(q, place) == phase' = [phase EXCEPT ![q] = place]

-----------------------------------------------------------------------------
(* Admission: ServeHTTP                                                    *)

\* A request finds the proxy running and a place in flight (BodyReplay has the
\* steps of resourceBudget.reserve).
Arrive(q, c) ==
  /\ phase[q] = "out"
  /\ ~done
  /\ inFlight < MaxInFlightRequests
  /\ inFlight' = inFlight + 1
  /\ cred' = [cred EXCEPT ![q] = c]
  /\ Proceed(q, "route")
  /\ UNCHANGED <<registry, holds, lifecycle>>

\* The deferred release of a request that returns.
Depart(q) ==
  /\ inFlight' = inFlight - 1
  /\ Proceed(q, "out")
  /\ cred' = [cred EXCEPT ![q] = Anon]

\* A request that is refused, or forwarded to a peer, needs no client.
Divert(q) ==
  /\ phase[q] = "route"
  /\ Depart(q)
  /\ UNCHANGED <<registry, holds, lifecycle>>

-----------------------------------------------------------------------------
(* clientState.idle, evictOldestIdle and client                            *)

Clients(C) == {table[c] : c \in C} \ {NoClient}

\* Fault: a client in use is taken for idle.
IdleInUse(i) == recency[i] \notin cooling

\* Fault: a client in a cooldown is taken for idle.
IdleCooling(i) == inUse[recency[i]] = 0

\* Whether idle holds of a client unused for long, the i-th of recency.
Idle(i) == recency[i] \notin cooling /\ inUse[recency[i]] = 0

\* What evictOldestIdle chooses among the clients of C, if there is one.
OldestIdle(C, gone) ==
  LET S == {i \in 1..aged : Idle(i) /\ recency[i] \in Clients(C) \ gone}
  IN  IF S = {} THEN {} ELSE {recency[Min(S)]}

\* Fault: the maps are not emptied, so a sweep that still has the client gives
\* its slots back again.
ClearKeeping(V) ==
  /\ UNCHANGED entries
  /\ slots' = slots - MapThenSumSet(LAMBDA s : entries[s], V)

\* clear the clients V.
Clear(V) ==
  /\ entries' = [s \in States |-> IF s \in V THEN 0 ELSE entries[s]]
  /\ slots' = slots - MapThenSumSet(LAMBDA s : entries[s], V)

\* The clients by lastUsed, without the clients V.
Remaining(V) ==
  LET kept[i \in 0..Len(recency)] ==
        IF i = 0 THEN << >>
        ELSE IF recency[i] \in V THEN kept[i - 1] ELSE Append(kept[i - 1], recency[i])
  IN  kept[Len(recency)]

\* The table without the clients V.
TableWithout(V) == [c \in Keys |-> IF table[c] \in V THEN NoClient ELSE table[c]]

BearersFull(c) == c \in Bearers /\ Cardinality(Clients(Bearers)) >= MaxBearerClients

\* Fault: the eviction of a bearer is not accounted for.
ClientsFullStale(gone) == Cardinality(Clients(Keys)) >= MaxClientStates

ClientsFull(gone) == Cardinality(Clients(Keys) \ gone) >= MaxClientStates

\* The bearer evicted for c, then the client evicted for c.
FirstVictim(c) == IF BearersFull(c) THEN OldestIdle(Bearers, {}) ELSE {}

SecondVictim(c) ==
  IF ClientsFull(FirstVictim(c)) THEN OldestIdle(Keys, FirstVictim(c)) ELSE {}

\* Whether client finds no room for c: at the first limit, or at the second.
NoBearerRoom(c) == BearersFull(c) /\ FirstVictim(c) = {}

NoClientRoom(c) == ClientsFull(FirstVictim(c)) /\ SecondVictim(c) = {}

\* The clientStates newClientState may return for c: nothing refers to them.
Fresh(c) ==
  {s \in States : Owner[s] = c} \ (Clients(Keys) \cup snapshot \cup {holds[q] : q \in Requests})

\* touch: s becomes the client used last.
Touch(s) ==
  /\ recency' = Append(Remaining({s}), s)
  /\ aged' = IF \E i \in 1..aged : recency[i] = s THEN aged - 1 ELSE aged

\* begin: count a use of s.
Begin(q, s) ==
  /\ inUse' = [inUse EXCEPT ![s] = @ + 1]
  /\ holds' = [holds EXCEPT ![q] = s]
  /\ Proceed(q, "using")

\* Fault: client does not look at the context.
ClosedUnseen == FALSE

\* What client sees of the context.
Closed == done

ClientClosed(q) ==
  /\ phase[q] = "route"
  /\ Closed \/ (cred[q] = Anon /\ noAuth = NoClient)
  /\ Depart(q)
  /\ UNCHANGED <<registry, holds, lifecycle>>

ClientAnon(q) ==
  /\ phase[q] = "route"
  /\ ~Closed
  /\ cred[q] = Anon /\ noAuth # NoClient
  /\ Begin(q, noAuth)
  /\ UNCHANGED <<table, noAuth, recency, aged, cooling, entries, slots, inFlight,
                 cred, lifecycle>>

\* The credential has a client.
ClientKnown(q) ==
  /\ phase[q] = "route"
  /\ ~Closed
  /\ cred[q] \in Keys /\ table[cred[q]] # NoClient
  /\ Begin(q, table[cred[q]])
  /\ Touch(table[cred[q]])
  /\ UNCHANGED <<table, noAuth, cooling, entries, slots, inFlight, cred,
                 lifecycle>>

\* No client, and no room for one: a bearer may have been evicted in vain.
ClientRefused(q) ==
  LET c == cred[q]
      V == FirstVictim(c)
  IN  /\ phase[q] = "route"
      /\ ~Closed
      /\ c \in Keys /\ table[c] = NoClient
      /\ NoBearerRoom(c) \/ NoClientRoom(c)
      /\ table' = TableWithout(V)
      /\ recency' = Remaining(V) /\ aged' = aged - Cardinality(V)
      /\ Clear(V)
      /\ Depart(q)
      /\ UNCHANGED <<noAuth, inUse, cooling, holds, lifecycle>>

\* No client: evict what must be evicted and enter a new one.
ClientNew(q) ==
  LET c == cred[q]
      V == FirstVictim(c) \cup SecondVictim(c)
      s == CHOOSE s \in Fresh(c) : TRUE
  IN  /\ phase[q] = "route"
      /\ ~Closed
      /\ c \in Keys /\ table[c] = NoClient
      /\ ~NoBearerRoom(c) /\ ~NoClientRoom(c)
      /\ Fresh(c) # {}
      /\ table' = [TableWithout(V) EXCEPT ![c] = s]
      /\ recency' = Append(Remaining(V), s) /\ aged' = aged - Cardinality(V)
      /\ Clear(V)
      /\ Begin(q, s)
      /\ UNCHANGED <<noAuth, cooling, inFlight, cred, lifecycle>>

-----------------------------------------------------------------------------
(* A request at work                                                       *)

\* Its client reserves slots for a bucket or an alias.
Occupy(q) ==
  /\ phase[q] = "using"
  /\ entries[holds[q]] < MaxEntries /\ slots < MaxBucketStates
  /\ entries' = [entries EXCEPT ![holds[q]] = @ + 1]
  /\ slots' = slots + 1
  /\ UNCHANGED <<table, noAuth, recency, aged, inUse, cooling, requests, lifecycle>>

\* A response blocks the client's pacer or one of its buckets.
Block(q) ==
  /\ phase[q] = "using"
  /\ cooling' = cooling \cup {holds[q]}
  /\ UNCHANGED <<table, noAuth, recency, aged, inUse, entries, slots, requests, lifecycle>>

\* end, first half: the request is counted out.
EndCount(q) ==
  /\ phase[q] = "using"
  /\ inUse' = [inUse EXCEPT ![holds[q]] = @ - 1]
  /\ Proceed(q, "ending")
  /\ UNCHANGED <<table, noAuth, recency, aged, cooling, entries, slots, inFlight,
                 cred, holds, lifecycle>>

\* end, second half: touch; then the place in flight is released.
EndTouch(q) ==
  /\ phase[q] = "ending"
  /\ IF holds[q] \in Clients(Keys) THEN Touch(holds[q]) ELSE UNCHANGED <<recency, aged>>
  /\ holds' = [holds EXCEPT ![q] = NoClient]
  /\ Depart(q)
  /\ UNCHANGED <<table, noAuth, inUse, cooling, entries, slots, lifecycle>>

-----------------------------------------------------------------------------
(* sweepLoop, Close and the passage of time                                *)

\* sweepClients with clientsMu: drop the idle clients, list the others.
SweepClients ==
  LET V == {recency[i] : i \in {i \in 1..aged : Idle(i)}}
  IN  /\ sweepLoop = "select"
      /\ table' = TableWithout(V)
      /\ recency' = Remaining(V) /\ aged' = aged - Cardinality(V)
      /\ Clear(V)
      /\ sweepLoop' = "sweeping"
      /\ snapshot' = (Clients(Keys) \ V) \cup ({noAuth} \ {NoClient})
      /\ UNCHANGED <<noAuth, inUse, cooling, requests, done, closing>>

\* sweep of one client: some of its buckets and aliases go (BucketTable!Sweep).
SweepState(s) ==
  /\ s \in snapshot
  /\ \E k \in 0..entries[s] :
       /\ entries' = [entries EXCEPT ![s] = @ - k]
       /\ slots' = slots - k
  /\ snapshot' = snapshot \ {s}
  /\ UNCHANGED <<table, noAuth, recency, aged, inUse, cooling, requests, done, closing, sweepLoop>>

SweepEnd ==
  /\ sweepLoop = "sweeping" /\ snapshot = {}
  /\ sweepLoop' = "select"
  /\ UNCHANGED <<registry, requests, done, closing, snapshot>>

SweeperExit ==
  /\ sweepLoop = "select"
  /\ done
  /\ sweepLoop' = "exited"
  /\ UNCHANGED <<registry, requests, done, closing, snapshot>>

\* The first Close.
Close ==
  /\ closing = "no"
  /\ done' = TRUE
  /\ closing' = "started"
  /\ UNCHANGED <<registry, requests, sweepLoop, snapshot>>

\* finishClose forgets the clients, once the cluster is closed.
Forget ==
  /\ closing = "started"
  /\ table' = [c \in Keys |-> NoClient] /\ noAuth' = NoClient
  /\ recency' = << >> /\ aged' = 0
  /\ closing' = "forgotten"
  /\ UNCHANGED <<inUse, cooling, entries, slots, requests, done, sweepLoop, snapshot>>

\* The client used longest ago among the recent ones passes clientIdleTimeout.
Age ==
  /\ aged < Len(recency)
  /\ aged' = aged + 1
  /\ UNCHANGED <<table, noAuth, recency, inUse, cooling, entries, slots, requests, lifecycle>>

CoolDown(s) ==
  /\ s \in cooling
  /\ cooling' = cooling \ {s}
  /\ UNCHANGED <<table, noAuth, recency, aged, inUse, entries, slots, requests, lifecycle>>

-----------------------------------------------------------------------------

Serve(q) ==
  \/ \E c \in Creds : Arrive(q, c)
  \/ Divert(q)
  \/ ClientClosed(q) \/ ClientAnon(q) \/ ClientKnown(q) \/ ClientRefused(q) \/ ClientNew(q)
  \/ Occupy(q) \/ Block(q) \/ EndCount(q) \/ EndTouch(q)

Closing == Close \/ Forget

Sweeping == SweepClients \/ (\E s \in States : SweepState(s)) \/ SweepEnd \/ SweeperExit

RegistryNext ==
  \/ \E q \in Requests : Serve(q)
  \/ Closing
  \/ Sweeping
  \/ Age
  \/ \E s \in States : CoolDown(s)

RegistrySpec == RegistryInit /\ [][RegistryNext]_registryVars

-----------------------------------------------------------------------------
(* Properties                                                              *)

\* Types; counts never go below zero (proxy.go:104-132, scheduler.go:323-331).
RegistryTypeOK ==
  /\ table \in [Keys -> States \cup {NoClient}] /\ noAuth \in {NoAuth, NoClient}
  /\ recency \in Seq(States) /\ aged \in 0..Len(recency)
  /\ inUse \in [States -> Nat] /\ entries \in [States -> Nat]
  /\ cooling \subseteq States /\ snapshot \subseteq States
  /\ slots \in Nat /\ inFlight \in Nat
  /\ phase \in [Requests -> {"out", "route", "using", "ending"}]
  /\ cred \in [Requests -> Creds]
  /\ holds \in [Requests -> States \cup {NoClient}]
  /\ done \in BOOLEAN /\ closing \in {"no", "started", "forgotten"}
  /\ sweepLoop \in {"select", "sweeping", "exited"}

\* The places in flight are those of the requests past admission, and never more
\* than the limit, whichever way a request returns (proxy.go:227-290).
InFlightExact ==
  /\ inFlight = Cardinality({q \in Requests : phase[q] \in {"route", "using", "ending"}})
  /\ inFlight <= MaxInFlightRequests

\* Until the proxy is closed, a request at work uses the clientState registered
\* for its credential: no eviction or sweep separates requests of a credential
\* into two clients with limits of their own (scheduler.go:487-576).
OneClientPerCredential ==
  closing # "forgotten" =>
    \A q \in Requests : phase[q] = "using" =>
      holds[q] = IF cred[q] = Anon THEN noAuth ELSE table[cred[q]]

\* A cooldown Discord has imposed is not lost by dropping the client that
\* remembers it (scheduler.go:463-475, 524-559).
CooldownsRemembered ==
  closing # "forgotten" => cooling \subseteq Clients(Keys) \cup {noAuth}

\* The slots in use are those of the registered clients: a client dropped between
\* the sweeper's listing and its sweep gives its slots back once
\* (scheduler.go:455-461, 546-576).
SlotsExact ==
  /\ slots = MapThenSumSet(LAMBDA s : entries[s], States)
  /\ closing # "forgotten" =>
       \A s \in States : entries[s] > 0 => s \in Clients(Keys) \cup {noAuth}

\* The two shared budgets are exact at every moment.
CountsExact == RegistryTypeOK /\ InFlightExact /\ SlotsExact

\* Once finishClose has set the maps to nil nothing is entered in them, which
\* would panic (scheduler.go:490-494, proxy.go:380-384).
NothingAfterClose == closing = "forgotten" => Clients(Keys) = {}

\* An idle client is evicted only to admit another: client evicts nobody for a
\* request it then refuses, though it checks two limits one after the other
\* (scheduler.go:508-519).
NoVainEviction ==
  [][\A c \in Keys :
       table[c] # NoClient /\ table'[c] = NoClient =>
         \/ sweepLoop' # sweepLoop \/ closing' # closing
         \/ \E k \in Keys : table[k] = NoClient /\ table'[k] # NoClient]_registryVars

-----------------------------------------------------------------------------
(* The inductive invariant                                                 *)

\* The requests that use the clientState s.
Users(s) == {q \in Requests : phase[q] = "using" /\ holds[q] = s}

\* clientState.active counts the requests that use it, each of which has one.
UsesCounted ==
  /\ \A s \in States : inUse[s] = Cardinality(Users(s))
  /\ \A q \in Requests : phase[q] \in {"using", "ending"} => holds[q] \in States

\* The order of use is of registered clients, each of them once.
RecencyKept ==
  /\ \A i, j \in DOMAIN recency : recency[i] = recency[j] => i = j
  /\ Range(recency) \subseteq Clients(Keys)

\* The clients registered are within MaxClientStates.
ClientsBounded == Cardinality(Clients(Keys)) <= MaxClientStates

RegistryInv ==
  /\ CountsExact /\ OneClientPerCredential /\ CooldownsRemembered /\ NothingAfterClose
  /\ UsesCounted /\ RecencyKept /\ ClientsBounded
  /\ closing = "no" <=> ~done
=============================================================================
