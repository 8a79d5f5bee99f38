-------------------------------- MODULE Peers --------------------------------
(***************************************************************************)
(* Nodes that share the traffic: the routing table each node rebuilds from *)
(* its own view of the membership (reindexMembers of cluster.go), and the  *)
(* way of a request through ServeHTTP of proxy.go, from the node it        *)
(* reaches to the one that sends it to Discord or refuses it.              *)
(*                                                                         *)
(* The membership is memberlist's, external: the view of a node changes at *)
(* any moment, and each change starts a goroutine that rebuilds the table. *)
(* The two stores of a rebuild and the two loads of a request are steps of *)
(* their own.  A member may be dead, and then forwarding to it fails.      *)
(***************************************************************************)
EXTENDS Naturals, FiniteSets, Sequences

CONSTANTS
  Nodes,        \* nodes that run the proxy
  Dead,         \* members that have crashed, which gossip may still list
  Strangers,    \* members with invalid peer port metadata
  MaxNodes,     \* config.MaxNodes
  Requests,     \* requests
  Rank,         \* the scores of rendezvousMember, by request and member
  MaxInFlight,  \* the capacity of p.inFlight
  HopHeaders,   \* what a client may write in X-Nirn-Hop, Nil when it is no number
  MaxChanges,   \* bound: how often views change
  Nil           \* nil

MaxPeerHops == 1

Routable == Nodes \cup Dead
Members == Routable \cup Strangers

\* Why a request is refused.
Refusals == {"busy", "over", "diverged", "unreachable"}

ASSUME PeersAssumption ==
  /\ MaxNodes \in Nat \ {0} /\ MaxInFlight \in Nat \ {0} /\ MaxChanges \in Nat
  /\ Rank \in [Requests -> [Routable -> Nat]]
  /\ \A q \in Requests : \A m, n \in Routable : Rank[q][m] = Rank[q][n] => m = n
  /\ IsFiniteSet(Routable) /\ Cardinality(Nodes) <= MaxNodes
  /\ Nil \notin Members \cup Refusals /\ \A t \in SUBSET Members : t # Nil
  /\ Members \cap Refusals = {}
  /\ Nodes \cap Dead = {} /\ Routable \cap Strangers = {}

VARIABLES
  view,      \* cluster.Members() at a node
  pending,   \* reindexMembers goroutines of a node that wait for clusterIndexMu
  job,       \* those that hold it: at most one, with its members and its place
  over,      \* p.clusterOverCapacity
  table,     \* p.routes: nil or the members of the table
  inFlight,  \* p.inFlight
  place,     \* where a request is
  path,      \* the nodes a request was sent to
  hop,       \* X-Nirn-Hop of the request at the last of them
  answer,    \* Nil, the node that sends it to Discord, or why it is refused
  given,     \* history: what the client wrote in X-Nirn-Hop
  calm,      \* history: the tables have agreed, and not changed, since the request came
  changes    \* how often views have changed

tableVars == <<view, pending, job, over, table, changes>>
requestVars == <<inFlight, place, path, hop, answer, given>>
peersVars == <<tableVars, requestVars, calm>>

\* Every node routes by the same table.
Agreed ==
  \E t \in SUBSET Routable :
    t # {} /\ \A n \in Nodes : ~over[n] /\ table[n] = t

\* What a step that changes a table leaves of the requests' calm.
Disturb == calm' = [q \in Requests |-> calm[q] /\ Agreed' /\ UNCHANGED table]

PeersInit ==
  /\ view = [n \in Nodes |-> Nodes]
  /\ pending = [n \in Nodes |-> 0]
  /\ job = [n \in Nodes |-> {}]
  /\ over = [n \in Nodes |-> FALSE]
  /\ table = [n \in Nodes |-> Nodes]
  /\ inFlight = [n \in Nodes |-> 0]
  /\ place = [q \in Requests |-> "client"]
  /\ path = [q \in Requests |-> << >>]
  /\ hop = [q \in Requests |-> 0]
  /\ answer = [q \in Requests |-> Nil]
  /\ given = [q \in Requests |-> Nil]
  /\ calm = [q \in Requests |-> FALSE]
  /\ changes = 0

-----------------------------------------------------------------------------
(* reindexMembers                                                          *)

\* Another member joins or leaves, and the event starts a goroutine.
Notify(n, m) ==
  /\ m # n
  /\ changes < MaxChanges
  /\ changes' = changes + 1
  /\ view' = [view EXCEPT ![n] = IF m \in @ THEN @ \ {m} ELSE @ \cup {m}]
  /\ pending' = [pending EXCEPT ![n] = @ + 1]
  /\ UNCHANGED <<job, over, table, requestVars, calm>>

\* Fault: rebuilds are not serialised.
ReadMembersFreely(n) ==
  /\ pending[n] > 0
  /\ pending' = [pending EXCEPT ![n] = @ - 1]
  /\ job' = [job EXCEPT ![n] = @ \cup {[members |-> view[n], at |-> "flag"]}]
  /\ UNCHANGED <<view, over, table, changes, requestVars, calm>>

\* clusterIndexMu is acquired and the members are read.
ReadMembers(n) ==
  /\ pending[n] > 0
  /\ job[n] = {}
  /\ pending' = [pending EXCEPT ![n] = @ - 1]
  /\ job' = [job EXCEPT ![n] = {[members |-> view[n], at |-> "flag"]}]
  /\ UNCHANGED <<view, over, table, changes, requestVars, calm>>

TooMany(j) == Cardinality(j.members) > MaxNodes

StoreFlag(n, j) ==
  /\ j \in job[n] /\ j.at = "flag"
  /\ over' = [over EXCEPT ![n] = TooMany(j)]
  /\ job' = [job EXCEPT ![n] = (@ \ {j}) \cup {[j EXCEPT !.at = "table"]}]
  /\ UNCHANGED <<view, pending, table, changes, requestVars>>
  /\ Disturb

\* Members without a valid peer port are left out.
StoreTable(n, j) ==
  /\ j \in job[n] /\ j.at = "table"
  /\ table' = [table EXCEPT ![n] = IF TooMany(j) THEN Nil ELSE j.members \cap Routable]
  /\ job' = [job EXCEPT ![n] = @ \ {j}]
  /\ UNCHANGED <<view, pending, over, changes, requestVars>>
  /\ Disturb

Reindex(n) ==
  \/ ReadMembers(n)
  \/ \E j \in job[n] : StoreFlag(n, j) \/ StoreTable(n, j)

-----------------------------------------------------------------------------
(* ServeHTTP                                                               *)

(***************************************************************************)
(* "client"   not sent yet                                                 *)
(* "arriving" at the last node of path, before p.inFlight.reserve          *)
(* "admitted" the node was not over capacity                               *)
(* "away"     on its way to the last node of path                          *)
(* "local"    the last node sends it to Discord                            *)
(* "leaving"  the handler of the last node of path returns                 *)
(* "done"     answered                                                     *)
(***************************************************************************)
MoveTo(q, to) == place' = [place EXCEPT ![q] = to]

Here(q) == path[q][Len(path[q])]

\* rendezvousMember
Winner(q, members) ==
  CHOOSE m \in members : \A n \in members : Rank[q][n] <= Rank[q][m]

\* Fault: a member of the table keeps what reaches it.
CalculateRouteMember(q, n) ==
  IF table[n] \in {Nil, {}} \/ n \in table[n] THEN Nil ELSE Winner(q, table[n])

\* calculateRoute: the peer to forward to, or Nil to stay.
CalculateRoute(q, n) ==
  IF table[n] \in {Nil, {}} THEN Nil
  ELSE IF Winner(q, table[n]) = n THEN Nil ELSE Winner(q, table[n])

\* The hop a handler reads: zero where the header holds no natural number.
ForwardedHop(v) == IF v \in Nat THEN v ELSE 0

\* A client sends a request.  The handler does not know a client from a peer, so
\* it counts on from the header of either.
Send(q, n, v) ==
  /\ place[q] = "client"
  /\ MoveTo(q, "arriving")
  /\ path' = [path EXCEPT ![q] = <<n>>]
  /\ hop' = [hop EXCEPT ![q] = ForwardedHop(v)]
  /\ given' = [given EXCEPT ![q] = v]
  /\ calm' = [calm EXCEPT ![q] = Agreed]
  /\ UNCHANGED <<tableVars, inFlight, answer>>

\* A handler that returns: to the node that forwarded the request, or to the
\* client.
Back(q) ==
  IF Len(path[q]) = 1
  THEN MoveTo(q, "done") /\ UNCHANGED path
  ELSE MoveTo(q, "leaving") /\ path' = [path EXCEPT ![q] = <<@[1]>>]

Answer(q, a) == answer' = [answer EXCEPT ![q] = a]

Full(q) ==
  /\ place[q] = "arriving"
  /\ inFlight[Here(q)] >= MaxInFlight
  /\ Answer(q, "busy")
  /\ Back(q)
  /\ UNCHANGED <<tableVars, inFlight, hop, given, calm>>

Admit(q) ==
  /\ place[q] = "arriving"
  /\ inFlight[Here(q)] < MaxInFlight
  /\ inFlight' = [inFlight EXCEPT ![Here(q)] = @ + 1]
  /\ IF over[Here(q)]
     THEN Answer(q, "over") /\ MoveTo(q, "leaving")
     ELSE MoveTo(q, "admitted") /\ UNCHANGED answer
  /\ UNCHANGED <<tableVars, path, hop, given, calm>>

\* The local handler, or the reverse proxy to the node's choice of peer.
Stay(q) == Answer(q, Here(q)) /\ MoveTo(q, "local") /\ UNCHANGED path
Forward(q) ==
  /\ path' = [path EXCEPT ![q] = Append(@, CalculateRoute(q, Here(q)))]
  /\ MoveTo(q, "away")
  /\ UNCHANGED answer

\* Fault: a request that was forwarded is routed again.
RouteAgain(q) ==
  /\ place[q] = "admitted"
  /\ IF CalculateRoute(q, Here(q)) = Nil THEN Stay(q) ELSE Forward(q)
  /\ UNCHANGED <<tableVars, inFlight, hop, given, calm>>

\* The table is loaded: stay, refuse to forward again, or forward.
Route(q) ==
  /\ place[q] = "admitted"
  /\ IF CalculateRoute(q, Here(q)) = Nil THEN Stay(q)
     ELSE IF hop[q] < MaxPeerHops THEN Forward(q)
     ELSE Answer(q, "diverged") /\ MoveTo(q, "leaving") /\ UNCHANGED path
  /\ UNCHANGED <<tableVars, inFlight, hop, given, calm>>

\* The peer's handler starts, with the hop the reverse proxy wrote.
Deliver(q) ==
  /\ place[q] = "away"
  /\ Here(q) \in Nodes
  /\ MoveTo(q, "arriving")
  /\ hop' = [hop EXCEPT ![q] = @ + 1]
  /\ UNCHANGED <<tableVars, inFlight, path, answer, given, calm>>

\* Fault: a peer that cannot be reached is tried again.
PeerFailsRetried(q) ==
  /\ place[q] = "away"
  /\ path' = [path EXCEPT ![q] = <<@[1]>>]
  /\ MoveTo(q, "admitted")
  /\ UNCHANGED <<tableVars, inFlight, hop, answer, given, calm>>

\* The reverse proxy's error handler: the peer cannot be reached in time.
PeerFails(q) ==
  /\ place[q] = "away"
  /\ path' = [path EXCEPT ![q] = SubSeq(@, 1, Len(@) - 1)]
  /\ Answer(q, "unreachable")
  /\ MoveTo(q, "leaving")
  /\ UNCHANGED <<tableVars, inFlight, hop, given, calm>>

\* scheduledTransport returns: see RoundTrip.
Finished(q) ==
  /\ place[q] = "local"
  /\ MoveTo(q, "leaving")
  /\ UNCHANGED <<tableVars, inFlight, path, hop, answer, given, calm>>

ReleaseSlot(q) ==
  /\ place[q] = "leaving"
  /\ inFlight' = [inFlight EXCEPT ![Here(q)] = @ - 1]
  /\ Back(q)
  /\ UNCHANGED <<tableVars, hop, answer, given, calm>>

Serve(q) ==
  \/ Full(q)
  \/ Admit(q)
  \/ Route(q)
  \/ Deliver(q)
  \/ PeerFails(q)
  \/ Finished(q)
  \/ ReleaseSlot(q)

PeersNext ==
  \/ \E n \in Nodes : Reindex(n) \/ \E m \in Members : Notify(n, m)
  \/ \E q \in Requests : Serve(q) \/ \E n \in Nodes, v \in HopHeaders : Send(q, n, v)

\* Goroutines run, and a forwarded request reaches its peer or fails.
PeersFairness ==
  /\ \A n \in Nodes : WF_peersVars(Reindex(n))
  /\ \A q \in Requests : WF_peersVars(Serve(q))

PeersSpec == PeersInit /\ [][PeersNext]_peersVars /\ PeersFairness

-----------------------------------------------------------------------------
(* Properties                                                              *)

\* Once its rebuilds are done, a node's table is that of its members, whatever
\* the order in which the goroutines of the events ran: no later membership is
\* overwritten by an earlier one (cluster.go:234-264).
TablesSettle ==
  \A n \in Nodes : pending[n] = 0 /\ job[n] = {} =>
    /\ over[n] = (Cardinality(view[n]) > MaxNodes)
    /\ table[n] = IF over[n] THEN Nil ELSE view[n] \cap Routable

\* A request is forwarded at most once, though the node it is forwarded to may
\* know of a better owner, and whatever hop its client wrote (proxy.go:270-282).
ForwardedOnce ==
  \A q \in Requests : Len(path[q]) <= 2

\* While the tables agree a request is sent to Discord by its owner only, whichever
\* node it reached, and whatever hop its client wrote: two requests of a
\* credential meet at one node (the promise of README.md:34).  It is never refused
\* for the sake of routing, unless the client's own header has used up the hops.
OwnerServes ==
  \A q \in Requests : calm[q] =>
    /\ answer[q] # "over"
    /\ answer[q] = "diverged" => ForwardedHop(given[q]) >= MaxPeerHops
    /\ answer[q] \in Nodes => answer[q] = Winner(q, table[answer[q]])

\* Every request is answered: nodes that forward to each other with all slots
\* taken, and members that are dead, end in a refusal (proxy.go:227, 275-282).
RequestsAnswered ==
  \A q \in Requests : place[q] # "client" ~> place[q] = "done"

-----------------------------------------------------------------------------
(* The inductive invariant behind them (TrafficProofs)                     *)

Rebuilds == [members : SUBSET Members, at : {"flag", "table"}]

PeersTypeOK ==
  /\ view \in [Nodes -> SUBSET Members] /\ pending \in [Nodes -> Nat]
  /\ job \in [Nodes -> SUBSET Rebuilds] /\ over \in [Nodes -> BOOLEAN]
  /\ table \in [Nodes -> (SUBSET Routable) \cup {Nil}]
  /\ place \in [Requests -> {"client", "arriving", "admitted", "away", "local", "leaving", "done"}]
  /\ path \in [Requests -> Seq(Routable)] /\ hop \in [Requests -> Nat]
  /\ answer \in [Requests -> Routable \cup Refusals \cup {Nil}]
  /\ given \in [Requests -> HopHeaders \cup {Nil}]
  /\ calm \in [Requests -> BOOLEAN]

\* A node rebuilds its table one goroutine at a time, and the last one has read
\* the last of the members.
Rebuilding ==
  \A n \in Nodes :
    /\ \A i, j \in job[n] : i = j
    /\ pending[n] = 0 => \A j \in job[n] :
         j.members = view[n] /\ (j.at = "table" => over[n] = TooMany(j))

\* The hop a handler reads counts the times the request was forwarded, from what
\* its client wrote; only a request whose client wrote none is forwarded.
HopsCounted ==
  \A q \in Requests :
    /\ place[q] = "client" => path[q] = << >> /\ answer[q] = Nil
    /\ place[q] # "client" => Len(path[q]) \in {1, 2}
    /\ place[q] \in {"arriving", "admitted"} =>
         hop[q] = ForwardedHop(given[q]) + Len(path[q]) - 1 /\ Here(q) \in Nodes
    /\ place[q] = "away" => Len(path[q]) = 2 /\ hop[q] = 0 /\ ForwardedHop(given[q]) = 0

\* A request that came when the tables agreed is forwarded to its owner.
CalmRouting ==
  \A q \in Requests : calm[q] =>
    Agreed /\ (Len(path[q]) = 2 => \A n \in Nodes : path[q][2] = Winner(q, table[n]))

PeersInv == PeersTypeOK /\ TablesSettle /\ Rebuilding /\ HopsCounted /\ CalmRouting /\ OwnerServes
=============================================================================
