--------------------------- MODULE TrafficProofs ----------------------------
(***************************************************************************)
(* How traffic is shared among nodes and spaced out by each of them.       *)
(*                                                                         *)
(* The requests of several nodes, for any membership and any scores: tables *)
(* settle, a request is forwarded once, and while the tables agree its owner *)
(* serves it, whatever hop its client wrote.                               *)
(*                                                                         *)
(* The pacer, for any allowance and any callers: grants are spaced, no second *)
(* holds more than the allowance, and no sleep is stale or hopeless.       *)
(***************************************************************************)
EXTENDS Peers, Pacer, DataProofs

\* The provers, and the time each is given for a leaf.
USE ZenonT(10), SMTT(30)

-----------------------------------------------------------------------------
(* The requests of several nodes                                           *)

\* rendezvousMember returns a member of the table, whatever the scores: a table
\* is finite, so one of its members has no other above it.
LEMMA WinnerIn ==
  ASSUME NEW q \in Requests, NEW t \in SUBSET Routable, t # {}
  PROVE  Winner(q, t) \in t
<1> DEFINE Above(x) == {m \in t : Rank[q][m] >= Rank[q][x]}
           All == {Above(x) : x \in t}
<1>1. /\ \A m \in t : Rank[q][m] \in Nat
      /\ IsFiniteSet(t)
  BY PeersAssumption, FS_Subset
<1>2. IsWellFoundedOn(StrictSubsetOrdering(t), SUBSET t)
  BY <1>1, FS_StrictSubsetOrderingWellFounded, FS_FiniteSubsetsOfFinite
<1>3. All \subseteq SUBSET t /\ All # {}
  OBVIOUS
<1>4. PICK u \in All : \A v \in All : <<v, u>> \notin StrictSubsetOrdering(t)
  <2> HIDE DEF All
  <2> QED BY <1>2, <1>3, WFMin
<1>5. PICK x \in t : u = Above(x)
  BY <1>4
<1>6. ASSUME NEW n \in t
      PROVE  Rank[q][n] <= Rank[q][x]
  <2> SUFFICES ASSUME Rank[q][n] > Rank[q][x] PROVE FALSE
    BY <1>1
  <2>1. Above(n) \subseteq Above(x) /\ x \in Above(x) /\ x \notin Above(n)
    BY <1>1
  <2>2. <<Above(n), Above(x)>> \in StrictSubsetOrdering(t)
    <3>1. Above(n) \in SUBSET t /\ Above(x) \in SUBSET t /\ Above(n) # Above(x)
      BY <2>1
    <3> HIDE DEF Above
    <3> QED BY <2>1, <3>1 DEF StrictSubsetOrdering
  <2> QED BY <1>4, <1>5, <2>2
<1> HIDE DEF Above, All
<1> QED BY <1>6 DEF Winner

\* Where calculateRoute sends a request: nowhere, or to a member of the table
\* that is not the node itself.
LEMMA RouteIn ==
  ASSUME PeersTypeOK, NEW q \in Requests, NEW n \in Nodes
  PROVE  \/ CalculateRoute(q, n) = Nil
         \/ CalculateRoute(q, n) \in Routable
<1>1. CASE table[n] \in {Nil, {}}
  BY <1>1 DEF CalculateRoute
<1>2. CASE table[n] \notin {Nil, {}}
  <2>1. table[n] \in SUBSET Routable /\ table[n] # {}
    BY <1>2 DEF PeersTypeOK
  <2>2. Winner(q, table[n]) \in Routable
    BY <2>1, WinnerIn
  <2> QED BY <2>2 DEF CalculateRoute
<1> QED BY <1>1, <1>2

\* The invariant holds when every node knows every other.
LEMMA PeersStart == PeersInit => PeersInv
<1> SUFFICES ASSUME PeersInit PROVE PeersInv
  OBVIOUS
<1>1. PeersTypeOK
  BY DEF PeersInit, PeersTypeOK, Members, Routable
<1>2. TablesSettle
  <2>1. IsFiniteSet(Nodes)
    BY PeersAssumption, FS_Subset DEF Routable
  <2>2. Cardinality(Nodes) \in Nat /\ MaxNodes \in Nat /\ Cardinality(Nodes) <= MaxNodes
    BY <2>1, PeersAssumption, FS_CardinalityType
  <2>3. ~(Cardinality(Nodes) > MaxNodes) /\ Nodes \cap Routable = Nodes
    BY <2>2 DEF Routable
  <2>4. \A n \in Nodes : view[n] = Nodes /\ over[n] = FALSE /\ table[n] = Nodes
    BY DEF PeersInit
  <2>5. (Cardinality(Nodes) > MaxNodes) = FALSE
    BY <2>3
  <2> QED BY <2>3, <2>4, <2>5, Zenon DEF TablesSettle
<1>3. Rebuilding /\ HopsCounted
  BY DEF PeersInit, Rebuilding, HopsCounted
<1>4. CalmRouting /\ OwnerServes
  BY DEF PeersInit, CalmRouting, OwnerServes
<1> QED BY <1>1, <1>2, <1>3, <1>4 DEF PeersInv

\* The types are kept by every step.
LEMMA PeersTypes ==
  ASSUME PeersInv, PeersNext
  PROVE  PeersTypeOK'
<1>1. PeersTypeOK /\ HopsCounted
  BY DEF PeersInv
<1>2. ASSUME NEW n \in Nodes, NEW m \in Members, Notify(n, m)
      PROVE  PeersTypeOK'
  BY <1>1, <1>2 DEF Notify, requestVars, PeersTypeOK
<1>3. ASSUME NEW n \in Nodes, ReadMembers(n)
      PROVE  PeersTypeOK'
  <2>1. pending[n] - 1 \in Nat
    BY <1>1, <1>3 DEF ReadMembers, PeersTypeOK
  <2>2. [members |-> view[n], at |-> "flag"] \in Rebuilds
    BY <1>1 DEF PeersTypeOK, Rebuilds
  <2> QED BY <1>1, <1>3, <2>1, <2>2 DEF ReadMembers, requestVars, PeersTypeOK
<1>4. ASSUME NEW n \in Nodes, NEW j \in job[n], StoreFlag(n, j)
      PROVE  PeersTypeOK'
  <2>1. j \in Rebuilds
    BY <1>1, <1>4 DEF PeersTypeOK
  <2>2. j \in Rebuilds /\ [j EXCEPT !.at = "table"] \in Rebuilds
    BY <2>1 DEF Rebuilds
  <2>3. TooMany(j) \in BOOLEAN
    BY DEF TooMany
  <2>4. job' \in [Nodes -> SUBSET Rebuilds] /\ over' \in [Nodes -> BOOLEAN]
    BY <1>1, <1>4, <2>2, <2>3 DEF StoreFlag, PeersTypeOK
  <2>5. calm' \in [Requests -> BOOLEAN]
    BY <1>4 DEF StoreFlag, Disturb
  <2> QED BY <1>1, <1>4, <2>4, <2>5 DEF StoreFlag, requestVars, PeersTypeOK
<1>5. ASSUME NEW n \in Nodes, NEW j \in job[n], StoreTable(n, j)
      PROVE  PeersTypeOK'
  <2>1. calm' \in [Requests -> BOOLEAN]
    BY <1>5 DEF StoreTable, Disturb
  <2>2. table' \in [Nodes -> (SUBSET Routable) \cup {Nil}] /\ job' \in [Nodes -> SUBSET Rebuilds]
    BY <1>1, <1>5 DEF StoreTable, PeersTypeOK
  <2> QED BY <1>1, <1>5, <2>1, <2>2 DEF StoreTable, requestVars, PeersTypeOK
<1>6. ASSUME NEW q \in Requests, NEW n \in Nodes, NEW v \in HopHeaders, Send(q, n, v)
      PROVE  PeersTypeOK'
  <2>1. <<n>> \in Seq(Routable) /\ Agreed \in BOOLEAN /\ ForwardedHop(v) \in Nat
    BY DEF Routable, Agreed, ForwardedHop
  <2> QED BY <1>1, <1>6, <2>1 DEF Send, MoveTo, tableVars, PeersTypeOK
<1>7. ASSUME NEW q \in Requests, Back(q), place[q] # "client"
      PROVE  /\ path' \in [Requests -> Seq(Routable)]
             /\ place' \in [Requests -> {"client", "arriving", "admitted", "away", "local", "leaving", "done"}]
  <2>1. path[q] \in Seq(Routable) /\ Len(path[q]) \in {1, 2}
    BY <1>1, <1>7 DEF PeersTypeOK, HopsCounted
  <2>2. path[q][1] \in Routable
    BY <2>1
  <2>3. <<path[q][1]>> \in Seq(Routable)
    BY <2>2
  <2> QED BY <1>1, <1>7, <2>3 DEF Back, MoveTo, PeersTypeOK
<1>8. ASSUME NEW q \in Requests, Full(q) \/ ReleaseSlot(q)
      PROVE  PeersTypeOK'
  BY <1>1, <1>7, <1>8 DEF Full, ReleaseSlot, Answer, Refusals, tableVars, PeersTypeOK
<1>9. ASSUME NEW q \in Requests, Admit(q) \/ Deliver(q) \/ Finished(q)
      PROVE  PeersTypeOK'
  <2>1. CASE Admit(q)
    BY <1>1, <2>1 DEF Admit, Answer, MoveTo, Refusals, tableVars, PeersTypeOK
  <2>2. CASE Deliver(q)
    BY <1>1, <2>2 DEF Deliver, MoveTo, tableVars, PeersTypeOK
  <2>3. CASE Finished(q)
    BY <1>1, <2>3 DEF Finished, MoveTo, tableVars, PeersTypeOK
  <2> QED BY <1>9, <2>1, <2>2, <2>3
<1>10. ASSUME NEW q \in Requests, Route(q)
       PROVE  PeersTypeOK'
  <2>1. Here(q) \in Nodes /\ Here(q) \in Routable
    BY <1>1, <1>10 DEF Route, HopsCounted, Routable
  <2>2. CASE Stay(q)
    BY <1>1, <1>10, <2>1, <2>2 DEF Route, Stay, Answer, MoveTo, tableVars, PeersTypeOK
  <2>3. CASE Forward(q) /\ CalculateRoute(q, Here(q)) # Nil
    <3>1. Append(path[q], CalculateRoute(q, Here(q))) \in Seq(Routable)
      BY <1>1, <2>1, <2>3, RouteIn DEF PeersTypeOK
    <3> QED BY <1>1, <1>10, <2>3, <3>1 DEF Route, Forward, MoveTo, tableVars, PeersTypeOK
  <2>4. CASE Answer(q, "diverged") /\ MoveTo(q, "leaving") /\ UNCHANGED path
    BY <1>1, <1>10, <2>4 DEF Route, Answer, MoveTo, Refusals, tableVars, PeersTypeOK
  <2> QED BY <1>10, <2>2, <2>3, <2>4 DEF Route
<1>11. ASSUME NEW q \in Requests, PeerFails(q)
       PROVE  PeersTypeOK'
  <2>1. SubSeq(path[q], 1, Len(path[q]) - 1) \in Seq(Routable)
    BY <1>1, <1>11 DEF PeerFails, HopsCounted, PeersTypeOK
  <2> QED BY <1>1, <1>11, <2>1 DEF PeerFails, Answer, MoveTo, Refusals, tableVars, PeersTypeOK
<1> QED BY <1>2, <1>3, <1>4, <1>5, <1>6, <1>8, <1>9, <1>10, <1>11 DEF PeersNext, Reindex, Serve

\* A step of ServeHTTP leaves the membership and the tables alone.
LEMMA ServeLocal ==
  ASSUME NEW q \in Requests, Serve(q) \/ \E n \in Nodes, v \in HopHeaders : Send(q, n, v)
  PROVE  UNCHANGED tableVars
BY DEF Serve, Full, Admit, Route, Deliver, PeerFails, Finished, ReleaseSlot, Send

\* A step of a request's handler leaves the other requests where they are.
LEMMA RequestLocal ==
  ASSUME PeersTypeOK, NEW q \in Requests, Serve(q) \/ \E n \in Nodes, v \in HopHeaders : Send(q, n, v)
  PROVE  \A p \in Requests \ {q} : /\ place'[p] = place[p] /\ path'[p] = path[p] /\ hop'[p] = hop[p]
                                   /\ answer'[p] = answer[p] /\ given'[p] = given[p] /\ calm'[p] = calm[p]
<1>1. CASE \E n \in Nodes, v \in HopHeaders : Send(q, n, v)
  BY <1>1 DEF Send, MoveTo, PeersTypeOK
<1>2. CASE Full(q) \/ ReleaseSlot(q)
  BY <1>2 DEF Full, ReleaseSlot, Back, Answer, MoveTo, PeersTypeOK
<1>3. CASE Admit(q) \/ Finished(q)
  BY <1>3 DEF Admit, Finished, Answer, MoveTo, PeersTypeOK
<1>4. CASE Route(q)
  BY <1>4 DEF Route, Stay, Forward, Answer, MoveTo, PeersTypeOK
<1>5. CASE Deliver(q) \/ PeerFails(q)
  BY <1>5 DEF Deliver, PeerFails, Answer, MoveTo, PeersTypeOK
<1> QED BY <1>1, <1>2, <1>3, <1>4, <1>5 DEF Serve

\* The goroutines that rebuild a table are serialised by clusterIndexMu, and the
\* last one has read the last membership; the table it stores is settled.
LEMMA RebuildingNext ==
  ASSUME PeersInv, PeersNext
  PROVE  Rebuilding' /\ TablesSettle'
<1>1. PeersTypeOK /\ Rebuilding /\ TablesSettle
  BY DEF PeersInv
<1>2. CASE \E q \in Requests : Serve(q) \/ \E n \in Nodes, v \in HopHeaders : Send(q, n, v)
  <2>1. UNCHANGED tableVars
    BY <1>2, ServeLocal
  <2> QED BY <1>1, <2>1 DEF tableVars, Rebuilding, TablesSettle
<1>3. ASSUME NEW n \in Nodes, Reindex(n) \/ \E m \in Members : Notify(n, m)
      PROVE  Rebuilding' /\ TablesSettle'
  <2>1. \A k \in Nodes \ {n} : /\ view'[k] = view[k] /\ pending'[k] = pending[k] /\ job'[k] = job[k]
                               /\ over'[k] = over[k] /\ table'[k] = table[k]
    BY <1>1, <1>3 DEF Reindex, ReadMembers, StoreFlag, StoreTable, Notify, PeersTypeOK
  <2>2. SUFFICES /\ \A i, j \in job'[n] : i = j
                 /\ pending'[n] = 0 => \A j \in job'[n] :
                      j.members = view'[n] /\ (j.at = "table" => over'[n] = TooMany(j))
                 /\ pending'[n] = 0 /\ job'[n] = {} =>
                      /\ over'[n] = (Cardinality(view'[n]) > MaxNodes)
                      /\ table'[n] = IF over'[n] THEN Nil ELSE view'[n] \cap Routable
    <3>1. Rebuilding'
      <4> SUFFICES ASSUME NEW k \in Nodes
                   PROVE  /\ \A i, j \in job'[k] : i = j
                          /\ pending'[k] = 0 => \A j \in job'[k] :
                               j.members = view'[k] /\ (j.at = "table" => over'[k] = TooMany(j))
        BY DEF Rebuilding, TooMany
      <4>1. CASE k = n
        BY <2>2, <4>1
      <4>2. CASE k # n
        BY <1>1, <2>1, <4>2 DEF Rebuilding
      <4> QED BY <4>1, <4>2
    <3>2. TablesSettle'
      BY <1>1, <2>1, <2>2 DEF TablesSettle
    <3> QED BY <3>1, <3>2
  <2>3. /\ \A i, j \in job[n] : i = j
        /\ pending[n] = 0 => \A j \in job[n] :
             j.members = view[n] /\ (j.at = "table" => over[n] = TooMany(j))
        /\ pending[n] \in Nat
    BY <1>1 DEF Rebuilding, PeersTypeOK
  <2>4. ASSUME NEW m \in Members, Notify(n, m)
        PROVE  pending'[n] # 0 /\ job'[n] = job[n]
    BY <1>1, <2>3, <2>4 DEF Notify, PeersTypeOK
  <2>5. CASE ReadMembers(n)
    <3>1. job'[n] = {[members |-> view[n], at |-> "flag"]} /\ view'[n] = view[n]
      BY <1>1, <2>5 DEF ReadMembers, PeersTypeOK
    <3>2. PICK k : k = [members |-> view[n], at |-> "flag"]
      OBVIOUS
    <3>3. job'[n] = {k} /\ k.members = view'[n] /\ k.at # "table"
      BY <3>1, <3>2
    <3> QED BY <3>3
  <2>6. ASSUME NEW j \in job[n], StoreFlag(n, j)
        PROVE  /\ job'[n] = {[j EXCEPT !.at = "table"]} /\ over'[n] = TooMany(j)
               /\ UNCHANGED <<view, pending>>
    <3>1. job[n] = {j}
      BY <2>3, <2>6
    <3> QED BY <1>1, <2>6, <3>1 DEF StoreFlag, PeersTypeOK
  <2>7. ASSUME NEW j \in job[n], StoreFlag(n, j)
        PROVE  LET k == [j EXCEPT !.at = "table"] IN k.members = j.members /\ TooMany(k) = TooMany(j)
    <3>1. j \in Rebuilds
      BY <1>1 DEF PeersTypeOK
    <3> QED BY <3>1 DEF Rebuilds, TooMany
  <2>8. ASSUME NEW j \in job[n], StoreTable(n, j)
        PROVE  /\ job'[n] = {} /\ UNCHANGED <<view, pending, over>> /\ j.at = "table"
               /\ table'[n] = IF TooMany(j) THEN Nil ELSE j.members \cap Routable
    <3>1. job[n] = {j}
      BY <2>3, <2>8
    <3> QED BY <1>1, <2>8, <3>1 DEF StoreTable, PeersTypeOK
  <2>9. CASE \E m \in Members : Notify(n, m)
    BY <2>3, <2>4, <2>9
  <2>10. CASE \E j \in job[n] : StoreFlag(n, j)
    <3>1. PICK j \in job[n] : StoreFlag(n, j)
      BY <2>10
    <3>2. PICK k : k = [j EXCEPT !.at = "table"]
      OBVIOUS
    <3>3. k.members = j.members /\ TooMany(k) = TooMany(j)
      BY <2>7, <3>1, <3>2
    <3>4. job'[n] = {k} /\ over'[n] = TooMany(k) /\ UNCHANGED <<view, pending>>
      BY <2>6, <3>1, <3>2, <3>3
    <3>5. pending[n] = 0 => k.members = view[n]
      BY <2>3, <3>1, <3>3
    <3> HIDE DEF TooMany
    <3> QED BY <3>4, <3>5
  <2>11. CASE \E j \in job[n] : StoreTable(n, j)
    <3>1. PICK j \in job[n] : StoreTable(n, j)
      BY <2>11
    <3>2. pending[n] = 0 => j.members = view[n] /\ over[n] = TooMany(j)
      BY <2>3, <2>8, <3>1
    <3> QED BY <2>8, <3>1, <3>2 DEF TooMany
  <2> QED BY <1>3, <2>5, <2>9, <2>10, <2>11 DEF Reindex
<1> QED BY <1>2, <1>3 DEF PeersNext

\* Where a request is after a handler has returned, or has passed it on.
LEMMA PlaceOf ==
  ASSUME PeersTypeOK, NEW q \in Requests, NEW to, MoveTo(q, to)
  PROVE  place'[q] = to /\ \A p \in Requests \ {q} : place'[p] = place[p]
BY DEF PeersTypeOK, MoveTo

\* The hop counts the forwards from what the client wrote, after every step.
LEMMA HopsNext ==
  ASSUME PeersInv, PeersNext
  PROVE  HopsCounted'
<1>1. PeersTypeOK /\ HopsCounted
  BY DEF PeersInv
<1>2. CASE \E n \in Nodes : Reindex(n) \/ \E m \in Members : Notify(n, m)
  <2>1. UNCHANGED <<place, path, hop, answer, given>>
    BY <1>2 DEF Reindex, ReadMembers, StoreFlag, StoreTable, Notify, requestVars
  <2> QED BY <1>1, <2>1 DEF HopsCounted, Here
<1>3. ASSUME NEW q \in Requests, Serve(q) \/ \E n \in Nodes, v \in HopHeaders : Send(q, n, v)
      PROVE  HopsCounted'
  <2>1. \A p \in Requests \ {q} : /\ place'[p] = place[p] /\ path'[p] = path[p] /\ hop'[p] = hop[p]
                                  /\ answer'[p] = answer[p] /\ given'[p] = given[p]
    BY <1>1, <1>3, RequestLocal
  <2>2. SUFFICES /\ place'[q] # "client"
                 /\ Len(path'[q]) \in {1, 2}
                 /\ place'[q] \in {"arriving", "admitted"} =>
                      /\ hop'[q] = ForwardedHop(given'[q]) + Len(path'[q]) - 1
                      /\ path'[q][Len(path'[q])] \in Nodes
                 /\ place'[q] = "away" =>
                      Len(path'[q]) = 2 /\ hop'[q] = 0 /\ ForwardedHop(given'[q]) = 0
    <3> SUFFICES ASSUME NEW p \in Requests
                 PROVE  /\ place'[p] = "client" => path'[p] = << >> /\ answer'[p] = Nil
                        /\ place'[p] # "client" => Len(path'[p]) \in {1, 2}
                        /\ place'[p] \in {"arriving", "admitted"} =>
                             /\ hop'[p] = ForwardedHop(given'[p]) + Len(path'[p]) - 1
                             /\ path'[p][Len(path'[p])] \in Nodes
                        /\ place'[p] = "away" =>
                             Len(path'[p]) = 2 /\ hop'[p] = 0 /\ ForwardedHop(given'[p]) = 0
      BY DEF HopsCounted, Here, ForwardedHop
    <3>1. CASE p = q
      BY <2>2, <3>1
    <3>2. CASE p # q
      BY <1>1, <2>1, <3>2 DEF HopsCounted, Here
    <3> QED BY <3>1, <3>2
  <2>3. /\ path[q] \in Seq(Routable) /\ hop[q] \in Nat
        /\ place[q] # "client" => Len(path[q]) \in {1, 2}
        /\ place[q] \in {"arriving", "admitted"} =>
             hop[q] = ForwardedHop(given[q]) + Len(path[q]) - 1 /\ Here(q) \in Nodes
        /\ place[q] = "away" => Len(path[q]) = 2 /\ hop[q] = 0 /\ ForwardedHop(given[q]) = 0
    BY <1>1 DEF HopsCounted, PeersTypeOK
  <2>4. \A w : ForwardedHop(w) \in Nat
    BY DEF ForwardedHop
  <2>4a. Serve(q) => UNCHANGED given
    BY DEF Serve, Full, Admit, Route, Deliver, PeerFails, Finished, ReleaseSlot
  <2>5. CASE Full(q) \/ ReleaseSlot(q)
    <3>1. place[q] # "client" /\ Back(q)
      BY <2>5 DEF Full, ReleaseSlot
    <3>2. place'[q] \in {"done", "leaving"} /\ path'[q] \in {path[q], <<path[q][1]>>}
      BY <1>1, <3>1, PlaceOf DEF Back, PeersTypeOK
    <3> QED BY <2>3, <3>1, <3>2
  <2>6. CASE Admit(q) \/ Finished(q)
    <3>1. /\ UNCHANGED <<path, hop>> /\ place[q] # "client" /\ place'[q] \in {"admitted", "leaving"}
          /\ place'[q] = "admitted" => place[q] = "arriving"
      <4>1. CASE Admit(q)
        BY <1>1, <4>1, PlaceOf DEF Admit
      <4>2. CASE Finished(q)
        BY <1>1, <4>2, PlaceOf DEF Finished
      <4> QED BY <2>6, <4>1, <4>2
    <3> QED BY <2>3, <2>6, <2>4a, <3>1 DEF Here, Serve
  <2>7. CASE Route(q)
    <3>1. place[q] = "admitted" /\ UNCHANGED hop
      BY <2>7 DEF Route
    <3>2. CASE UNCHANGED path /\ place'[q] \in {"local", "leaving"}
      BY <2>3, <3>1, <3>2
    <3>3. CASE hop[q] < MaxPeerHops /\ Forward(q)
      <4>1. path'[q] = Append(path[q], CalculateRoute(q, Here(q))) /\ place'[q] = "away"
        BY <1>1, <3>3, PlaceOf DEF Forward, PeersTypeOK
      <4>2. hop[q] = 0 /\ Len(path[q]) = 1 /\ ForwardedHop(given[q]) = 0
        <5>1. PICK g \in Nat, l \in {1, 2} : g = ForwardedHop(given[q]) /\ l = Len(path[q])
          BY <2>3, <2>4, <3>1
        <5>2. hop[q] = g + l - 1 /\ hop[q] < 1
          BY <2>3, <3>1, <3>3, <5>1 DEF MaxPeerHops
        <5>3. g = 0 /\ l = 1 /\ hop[q] = 0
          BY <5>2
        <5> QED BY <5>1, <5>3
      <4>3. Len(path'[q]) = 2
        <5>1. \A e : Len(Append(path[q], e)) = Len(path[q]) + 1
          BY <2>3
        <5> QED BY <4>1, <4>2, <5>1
      <4> QED BY <2>7, <2>4a, <3>1, <4>1, <4>2, <4>3 DEF Serve
    <3> QED BY <1>1, <2>7, <3>2, <3>3, PlaceOf DEF Route, Stay
  <2>8. CASE Deliver(q)
    <3>1. /\ place[q] = "away" /\ Here(q) \in Nodes /\ UNCHANGED path /\ hop'[q] = hop[q] + 1
          /\ place'[q] = "arriving"
      BY <1>1, <2>8, PlaceOf DEF Deliver, PeersTypeOK
    <3>2. Len(path[q]) = 2 /\ hop[q] = 0 /\ ForwardedHop(given'[q]) = 0
      BY <2>3, <2>8, <2>4a, <3>1 DEF Serve
    <3>3. path'[q] = path[q] /\ Len(path'[q]) = 2 /\ hop'[q] = 1
      BY <3>1, <3>2
    <3>4. path'[q][Len(path'[q])] \in Nodes
      BY <3>1, <3>3 DEF Here
    <3>5. hop'[q] = ForwardedHop(given'[q]) + Len(path'[q]) - 1
      BY <3>2, <3>3
    <3> QED BY <3>1, <3>3, <3>4, <3>5
  <2>9. CASE PeerFails(q)
    <3>1. /\ place[q] = "away" /\ place'[q] = "leaving"
          /\ path'[q] = SubSeq(path[q], 1, Len(path[q]) - 1)
      BY <1>1, <2>9, PlaceOf DEF PeerFails, PeersTypeOK
    <3>2. Len(path[q]) = 2 /\ path[q] \in Seq(Routable)
      BY <2>3, <3>1
    <3>3. path'[q] = SubSeq(path[q], 1, 1)
      BY <3>1, <3>2
    <3>4. Len(path'[q]) = 1
      BY <3>2, <3>3
    <3> QED BY <3>1, <3>4
  <2>10. CASE \E n \in Nodes, v \in HopHeaders : Send(q, n, v)
    <3>1. PICK n \in Nodes, v \in HopHeaders : Send(q, n, v)
      BY <2>10
    <3>2. path'[q] = <<n>> /\ hop'[q] = ForwardedHop(v) /\ given'[q] = v /\ place'[q] = "arriving"
      BY <1>1, <3>1, PlaceOf DEF Send, PeersTypeOK
    <3>3. Len(path'[q]) = 1 /\ path'[q][1] = n
      BY <3>2
    <3>4. hop'[q] = ForwardedHop(given'[q]) + Len(path'[q]) - 1
      BY <2>4, <3>2, <3>3
    <3> QED BY <3>2, <3>3, <3>4
  <2> QED BY <1>3, <2>5, <2>6, <2>7, <2>8, <2>9, <2>10 DEF Serve
<1> QED BY <1>2, <1>3 DEF PeersNext

\* What a calm request finds at a node: a table, the one every node has, whose
\* best member is the owner, and a node that is not over capacity.
LEMMA CalmTable ==
  ASSUME PeersTypeOK, CalmRouting, NEW q \in Requests, calm[q], NEW n \in Nodes
  PROVE  /\ ~over[n] /\ Winner(q, table[n]) \in Routable
         /\ CalculateRoute(q, n) = IF Winner(q, table[n]) = n THEN Nil ELSE Winner(q, table[n])
         /\ \A k \in Nodes : table[k] = table[n]
<1>1. PICK t \in SUBSET Routable : t # {} /\ \A k \in Nodes : ~over[k] /\ table[k] = t
  BY DEF CalmRouting, Agreed
<1>2. Winner(q, t) \in t
  BY <1>1, WinnerIn
<1>3. t # Nil
  BY <1>1, PeersAssumption DEF Members
<1> QED BY <1>1, <1>2, <1>3 DEF CalculateRoute

\* A step that leaves the tables and the answers alone leaves every owner alone.
LEMMA CalmSame ==
  ASSUME CalmRouting, OwnerServes, UNCHANGED <<over, table, path, answer, given, calm>>
  PROVE  CalmRouting' /\ OwnerServes'
<1>1. Agreed' = Agreed
  BY DEF Agreed
<1>2. CalmRouting'
  BY <1>1 DEF CalmRouting, Winner
<1>3. OwnerServes'
  BY DEF OwnerServes, Winner
<1> QED BY <1>2, <1>3

\* While the tables agree and do not change, a request is forwarded to its owner,
\* if at all, and the owner keeps it: after every step (proxy.go:268-304).
LEMMA CalmNext ==
  ASSUME PeersInv, PeersNext
  PROVE  CalmRouting' /\ OwnerServes'
<1>1. PeersTypeOK /\ HopsCounted /\ CalmRouting /\ OwnerServes
  BY DEF PeersInv
<1>2. \A r \in Refusals \cup {Nil} : r \notin Nodes
  BY PeersAssumption DEF Members, Routable
<1>3. CASE \E n \in Nodes : ReadMembers(n) \/ \E m \in Members : Notify(n, m)
  <2>1. UNCHANGED <<over, table, path, answer, given, calm>>
    BY <1>3 DEF ReadMembers, Notify, requestVars
  <2> QED BY <1>1, <2>1, CalmSame
<1>4. CASE \E n \in Nodes : \E j \in job[n] : StoreFlag(n, j) \/ StoreTable(n, j)
  <2>1. UNCHANGED <<path, answer, given>> /\ Disturb
    BY <1>4 DEF StoreFlag, StoreTable, requestVars
  <2>2. \A q \in Requests : calm'[q] => calm[q] /\ Agreed' /\ table' = table
    BY <2>1 DEF Disturb
  <2>3. CalmRouting'
    BY <1>1, <2>1, <2>2 DEF CalmRouting, Winner
  <2>4. OwnerServes'
    BY <1>1, <2>1, <2>2 DEF OwnerServes, Winner
  <2> QED BY <2>3, <2>4
<1>5. ASSUME NEW q \in Requests, Serve(q) \/ \E n \in Nodes, v \in HopHeaders : Send(q, n, v)
      PROVE  CalmRouting' /\ OwnerServes'
  <2>1. UNCHANGED <<over, table>> /\ Agreed' = Agreed
    BY <1>5, ServeLocal DEF tableVars, Agreed
  <2>2. \A p \in Requests \ {q} : /\ path'[p] = path[p] /\ answer'[p] = answer[p]
                                  /\ given'[p] = given[p] /\ calm'[p] = calm[p]
    BY <1>1, <1>5, RequestLocal
  <2>3. SUFFICES ASSUME calm'[q]
                 PROVE  /\ Agreed
                        /\ Len(path'[q]) = 2 => \A n \in Nodes : path'[q][2] = Winner(q, table[n])
                        /\ answer'[q] # "over"
                        /\ answer'[q] = "diverged" => ForwardedHop(given'[q]) >= MaxPeerHops
                        /\ answer'[q] \in Nodes => answer'[q] = Winner(q, table[answer'[q]])
    <3>1. ASSUME NEW p \in Requests, calm'[p]
          PROVE  /\ Agreed
                 /\ Len(path'[p]) = 2 => \A n \in Nodes : path'[p][2] = Winner(p, table[n])
                 /\ answer'[p] # "over"
                 /\ answer'[p] = "diverged" => ForwardedHop(given'[p]) >= MaxPeerHops
                 /\ answer'[p] \in Nodes => answer'[p] = Winner(p, table[answer'[p]])
      <4>1. CASE p = q
        BY <2>3, <3>1, <4>1
      <4>2. CASE p # q
        BY <1>1, <2>2, <3>1, <4>2 DEF CalmRouting, OwnerServes
      <4> QED BY <4>1, <4>2
    <3>2. CalmRouting'
      BY <2>1, <3>1 DEF CalmRouting, Winner
    <3>3. OwnerServes'
      BY <2>1, <3>1 DEF OwnerServes, Winner
    <3> QED BY <3>2, <3>3
  <2>4. CASE \E n \in Nodes, v \in HopHeaders : Send(q, n, v)
    <3>1. PICK n \in Nodes, v \in HopHeaders : Send(q, n, v)
      BY <2>4
    <3>2. path'[q] = <<n>> /\ answer'[q] = Nil /\ Agreed
      BY <1>1, <2>3, <3>1 DEF Send, HopsCounted, PeersTypeOK
    <3>3. Len(path'[q]) = 1 /\ Nil \notin Refusals
      BY <3>2, PeersAssumption
    <3> QED BY <1>2, <3>2, <3>3 DEF Refusals
  <2>5. CASE Serve(q)
    <3>1. calm[q] /\ UNCHANGED given
      BY <2>3, <2>5 DEF Serve, Full, Admit, Route, Deliver, PeerFails, Finished, ReleaseSlot
    <3>2. /\ Agreed
          /\ Len(path[q]) = 2 => \A n \in Nodes : path[q][2] = Winner(q, table[n])
          /\ answer[q] # "over"
          /\ answer[q] = "diverged" => ForwardedHop(given'[q]) >= MaxPeerHops
          /\ answer[q] \in Nodes => answer[q] = Winner(q, table[answer[q]])
      BY <1>1, <3>1 DEF CalmRouting, OwnerServes
    <3>3. CASE Full(q) \/ ReleaseSlot(q)
      <4>1. path'[q] = path[q] \/ Len(path'[q]) = 1
        BY <1>1, <3>3 DEF Full, ReleaseSlot, Back, PeersTypeOK
      <4>2. answer'[q] \in {answer[q], "busy"}
        BY <1>1, <3>3 DEF Full, ReleaseSlot, Answer, PeersTypeOK
      <4> QED BY <1>2, <3>2, <4>1, <4>2 DEF Refusals
    <3>4. CASE Admit(q)
      <4>1. Here(q) \in Nodes
        BY <1>1, <3>4 DEF Admit, HopsCounted
      <4>2. ~over[Here(q)]
        BY <1>1, <3>1, <4>1, CalmTable
      <4> QED BY <3>2, <3>4, <4>2 DEF Admit
    <3>5. CASE Deliver(q) \/ Finished(q)
      BY <3>2, <3>5 DEF Deliver, Finished
    <3>6. CASE PeerFails(q)
      <4>1. path[q] \in Seq(Routable) /\ Len(path[q]) = 2
        BY <1>1, <3>6 DEF PeerFails, HopsCounted, PeersTypeOK
      <4>2. path'[q] = SubSeq(path[q], 1, 1) /\ answer'[q] = "unreachable"
        BY <1>1, <3>6, <4>1 DEF PeerFails, Answer, PeersTypeOK
      <4>3. Len(path'[q]) = 1
        BY <4>1, <4>2
      <4> QED BY <1>2, <3>2, <4>2, <4>3 DEF Refusals
    <3>7. CASE Route(q)
      <4>1. /\ Here(q) \in Nodes /\ hop[q] = ForwardedHop(given[q]) + Len(path[q]) - 1
            /\ Len(path[q]) \in {1, 2} /\ path[q] \in Seq(Routable)
        BY <1>1, <3>7 DEF Route, HopsCounted, PeersTypeOK
      <4>2. PICK h \in Nodes : h = Here(q)
        BY <4>1
      <4>3. /\ Winner(q, table[h]) \in Routable
            /\ CalculateRoute(q, h) = IF Winner(q, table[h]) = h THEN Nil ELSE Winner(q, table[h])
            /\ \A k \in Nodes : table[k] = table[h]
        BY <1>1, <3>1, CalmTable
      <4>4. Nil \notin Routable
        BY PeersAssumption DEF Members
      <4>5. CASE CalculateRoute(q, h) = Nil
        <5>1. Winner(q, table[h]) = h
          BY <4>3, <4>4, <4>5
        <5>2. UNCHANGED path /\ answer'[q] = h
          BY <1>1, <3>7, <4>2, <4>5 DEF Route, Stay, Answer, PeersTypeOK
        <5>3. h \notin Refusals
          BY <1>2
        <5> QED BY <3>2, <5>1, <5>2, <5>3 DEF Refusals
      <4>6. CASE CalculateRoute(q, h) # Nil
        <5>1. CalculateRoute(q, h) = Winner(q, table[h]) /\ Winner(q, table[h]) # h
          BY <4>3, <4>6
        <5>2. Len(path[q]) # 2
          BY <3>2, <4>2, <5>1 DEF Here
        <5>3. Len(path[q]) = 1 /\ hop[q] = ForwardedHop(given'[q])
          <6>1. Len(path[q]) = 1
            BY <4>1, <5>2
          <6>2. ForwardedHop(given[q]) \in Nat
            BY DEF ForwardedHop
          <6> QED BY <3>1, <4>1, <6>1, <6>2
        <5>4. CASE hop[q] < MaxPeerHops
          <6>1. Forward(q)
            BY <3>7, <4>2, <4>6, <5>4 DEF Route
          <6>2. path'[q] = Append(path[q], Winner(q, table[h])) /\ answer' = answer
            BY <1>1, <4>2, <5>1, <6>1 DEF Forward, PeersTypeOK
          <6>3. path'[q][2] = Winner(q, table[h])
            BY <4>1, <4>3, <5>3, <6>2
          <6> QED BY <3>2, <4>3, <6>2, <6>3
        <5>5. CASE ~(hop[q] < MaxPeerHops)
          <6>1. answer'[q] = "diverged" /\ UNCHANGED path
            BY <1>1, <3>7, <4>2, <4>6, <5>5 DEF Route, Answer, PeersTypeOK
          <6>2. ForwardedHop(given'[q]) >= MaxPeerHops
            BY <1>1, <5>3, <5>5 DEF PeersTypeOK, MaxPeerHops
          <6> QED BY <1>2, <3>2, <6>1, <6>2 DEF Refusals
        <5> QED BY <5>4, <5>5
      <4> QED BY <4>5, <4>6
    <3> QED BY <2>5, <3>3, <3>4, <3>5, <3>6, <3>7 DEF Serve
  <2> QED BY <1>5, <2>4, <2>5
<1> QED BY <1>3, <1>4, <1>5 DEF PeersNext, Reindex

\* The invariant holds when every node knows every other, and every step of a
\* node, of the membership and of a request keeps it.
THEOREM PeersInvariance == PeersSpec => []PeersInv
<1>1. ASSUME PeersInv, [PeersNext]_peersVars
      PROVE  PeersInv'
  <2>1. CASE PeersNext
    BY <1>1, <2>1, PeersTypes, RebuildingNext, HopsNext, CalmNext DEF PeersInv
  <2>2. CASE UNCHANGED peersVars
    <3>1. PeersTypeOK' /\ TablesSettle' /\ Rebuilding'
      BY <1>1, <2>2 DEF peersVars, tableVars, requestVars, PeersInv, PeersTypeOK, TablesSettle, Rebuilding
    <3>2. UNCHANGED <<place, path, hop, answer, given, over, table, calm>>
      BY <2>2 DEF peersVars, tableVars, requestVars
    <3>3. HopsCounted'
      BY <1>1, <3>2 DEF PeersInv, HopsCounted, Here
    <3>4. CalmRouting' /\ OwnerServes'
      BY <1>1, <3>2, CalmSame DEF PeersInv
    <3> QED BY <3>1, <3>3, <3>4 DEF PeersInv
  <2> QED BY <1>1, <2>1, <2>2
<1> QED BY <1>1, PeersStart, PTL DEF PeersSpec

\* Once its rebuilds are done a node routes by its last membership, in whatever
\* order the goroutines of the events ran (cluster.go:234-264).
THEOREM PeersTablesSettle == PeersSpec => []TablesSettle
<1>1. PeersInv => TablesSettle
  BY DEF PeersInv
<1> QED BY <1>1, PeersInvariance, PTL

\* A request is forwarded at most once, however the tables of the nodes differ
\* (proxy.go:275-282).
THEOREM PeersForwardedOnce == PeersSpec => []ForwardedOnce
<1>1. PeersInv => ForwardedOnce
  <2> SUFFICES ASSUME PeersInv, NEW q \in Requests PROVE Len(path[q]) <= 2
    BY DEF ForwardedOnce
  <2>1. CASE place[q] = "client"
    <3>1. path[q] = << >>
      BY <2>1 DEF PeersInv, HopsCounted
    <3>2. Len(<< >>) <= 2
      OBVIOUS
    <3> QED BY <3>1, <3>2
  <2>2. CASE place[q] # "client"
    <3>1. PICK l \in {1, 2} : l = Len(path[q])
      BY <2>2 DEF PeersInv, HopsCounted
    <3>2. l <= 2
      OBVIOUS
    <3> QED BY <3>1, <3>2, Zenon
  <2> QED BY <2>1, <2>2
<1> QED BY <1>1, PeersInvariance, PTL

\* While the tables agree only its owner sends a request to Discord, for any scores
\* of rendezvousMember and any X-Nirn-Hop of a client, and a request is not refused
\* for the sake of routing unless that header has used up the hops
\* (proxy.go:268-304).
THEOREM PeersOwnerServes == PeersSpec => []OwnerServes
<1>1. PeersInv => OwnerServes
  BY DEF PeersInv
<1> QED BY <1>1, PeersInvariance, PTL

-----------------------------------------------------------------------------
(* The pacer                                                               *)

USE PacerAssumption

-----------------------------------------------------------------------------
(* newPacer's interval                                                     *)

\* PerSecond shares, rounded up, cover a second.
LEMMA ShareCovers == Share \in Nat /\ PerSecond * Share >= Second
<1> DEFINE x == Second + PerSecond - 1
<1>1. x \in Nat
  OBVIOUS
<1>2. /\ x \div PerSecond \in Nat
      /\ x = PerSecond * (x \div PerSecond) + (x % PerSecond)
      /\ x % PerSecond \in 0..(PerSecond - 1)
  BY <1>1
<1> QED BY <1>2 DEF Share

\* The interval is a natural number, and PerSecond of them cover a second.
LEMMA IntervalCovers == Interval \in Nat /\ PerSecond * Interval >= Second
<1>1. Share \div Slack \in Nat
  BY ShareCovers
<1>2. PerSecond * (Share + (Share \div Slack)) = PerSecond * Share + PerSecond * (Share \div Slack)
  BY <1>1, ShareCovers
<1>3. PerSecond * (Share \div Slack) >= 0
  BY <1>1
<1> QED BY <1>1, <1>2, <1>3, ShareCovers DEF Interval
-----------------------------------------------------------------------------
(* The inductive invariant                                                 *)

\* The initial state satisfies the invariant.
LEMMA PacerInit == Init => PacerInv
<1> SUFFICES ASSUME Init PROVE PacerInv
  OBVIOUS
<1>1. LockOK(gate, Callers) /\ \A p \in Callers : ~Inside(gate, p)
  BY FreeLock DEF Init
<1>2. GateOK
  BY <1>1 DEF Init, GateOK
<1>3. woken \in BOOLEAN
  BY Zenon DEF Init
<1>4. TypeOK
  BY <1>1, <1>3 DEF Init, TypeOK, LockOK, Places
<1>5. NextAhead /\ Spaced /\ NoStaleSleep /\ NoHopelessSleep
  BY DEF Init, NextAhead, Spaced, NoStaleSleep, NoHopelessSleep
<1> QED BY <1>2, <1>4, <1>5 DEF PacerInv

\* Steps that leave the pacer's own state alone leave its history in order.
LEMMA KeepSpaced ==
  ASSUME PacerInv, UNCHANGED <<next, grants>>
  PROVE  NextAhead' /\ Spaced'
BY DEF PacerInv, NextAhead, Spaced

\* Only the owner of the gate is past acquire.
LEMMA OneInside ==
  ASSUME PacerInv, NEW p \in Callers, NEW q \in Callers,
         pc[p] \in {"looking", "sleeping", "leaving"},
         pc[q] \in {"looking", "sleeping", "leaving"}
  PROVE  p = q
BY DEF PacerInv, GateOK

\* Entering takes the gate or a place in its queue.
LEMMA PacerEnter ==
  ASSUME PacerInv, NEW p \in Callers, Enter(p)
  PROVE  PacerInv'
<1> USE DEF PacerInv
<1>1. ~Inside(gate, p)
  BY DEF Enter, GateOK
<1>2. /\ LockOK(gate', Callers)
      /\ gate'.owner # p => gate'.owner = gate.owner
      /\ gate.owner # None => gate'.owner = gate.owner
      /\ \A q \in Callers : Inside(gate', q) <=> Inside(gate, q) \/ q = p
  <2>1. CASE gate.owner = None
    <3>1. gate' = Grab(gate, p)
      BY <2>1 DEF Enter
    <3>2. \A q \in Callers : ~Inside(gate, q)
      <4>1. Range(<< >>) = {}
        BY DEF Range
      <4> QED BY <2>1, <4>1 DEF GateOK, LockOK, Inside, Queued
    <3> QED BY <2>1, <3>1, <3>2, GrabLock DEF GateOK
  <2>2. CASE gate.owner # None
    <3>1. gate' = Join(gate, p)
      BY <2>2 DEF Enter
    <3> QED BY <2>2, <3>1, <1>1, JoinLock DEF GateOK
  <2> QED BY <2>1, <2>2
<1>3. GateOK'
  <2>1. SUFFICES ASSUME NEW q \in Callers
                 PROVE  /\ pc'[q] # "out" <=> Inside(gate', q)
                        /\ pc'[q] \in {"looking", "sleeping", "leaving"} => gate'.owner = q
    BY <1>2 DEF GateOK
  <2>2. CASE q = p
    BY <1>2, <2>2 DEF Enter, Goto, TypeOK
  <2>3. CASE q # p
    BY <1>2, <2>3 DEF Enter, Goto, TypeOK, GateOK
  <2> QED BY <2>2, <2>3
<1>4. TypeOK'
  BY <1>2 DEF Enter, Goto, TypeOK, LockOK, Places
<1>5. NoStaleSleep' /\ NoHopelessSleep'
  BY DEF Enter, Goto, TypeOK, NoStaleSleep, NoHopelessSleep, Hopeless, ReadyAt, Latest
<1>6. NextAhead' /\ Spaced'
  BY KeepSpaced DEF Enter
<1> QED BY <1>3, <1>4, <1>5, <1>6

\* Leaving, from the queue or from the gate.
LEMMA PacerLeave ==
  ASSUME PacerInv, NEW p \in Callers, Abandon(p) \/ Exit(p)
  PROVE  PacerInv'
<1> USE DEF PacerInv
<1>1. Inside(gate, p) /\ (Exit(p) => gate.owner = p)
  BY DEF Abandon, Exit, GateOK
<1>2. /\ LockOK(gate', Callers)
      /\ gate.owner # p => gate'.owner = gate.owner
      /\ \A q \in Callers : Inside(gate', q) <=> Inside(gate, q) /\ q # p
  <2>1. CASE gate.owner = p
    <3>1. gate' = Pass(gate)
      BY <2>1 DEF Abandon, Exit
    <3> QED BY <2>1, <3>1, PassLock DEF GateOK
  <2>2. CASE gate.owner # p
    <3>1. gate' = Leave(gate, p) /\ p \in Queued(gate)
      BY <2>2, <1>1 DEF Abandon, Inside
    <3> QED BY <2>2, <3>1, LeaveLock DEF GateOK
  <2> QED BY <2>1, <2>2
<1>3. pc' = [pc EXCEPT ![p] = "out"] /\ UNCHANGED <<now, next, blockedUntil, until, woken, grants>>
      /\ deadline' = [deadline EXCEPT ![p] = 0]
  BY DEF Abandon, Exit, Goto
<1>4. GateOK'
  <2>1. SUFFICES ASSUME NEW q \in Callers
                 PROVE  /\ pc'[q] # "out" <=> Inside(gate', q)
                        /\ pc'[q] \in {"looking", "sleeping", "leaving"} => gate'.owner = q
    BY <1>2 DEF GateOK
  <2>2. CASE q = p
    BY <1>2, <1>3, <2>2 DEF TypeOK
  <2>3. CASE q # p
    BY <1>2, <1>3, <2>3 DEF TypeOK, GateOK
  <2> QED BY <2>2, <2>3
<1>5. TypeOK'
  BY <1>2, <1>3 DEF TypeOK, LockOK, Places
<1>6. NoStaleSleep' /\ NoHopelessSleep'
  BY <1>3 DEF TypeOK, NoStaleSleep, NoHopelessSleep, Hopeless, ReadyAt, Latest
<1>7. NextAhead' /\ Spaced'
  BY <1>3, KeepSpaced
<1> QED BY <1>4, <1>5, <1>6, <1>7

\* The history with one more grant.
LEMMA AppendGrant ==
  ASSUME NEW s \in Seq(Nat), NEW t \in Nat
  PROVE  /\ Append(s, t) \in Seq(Nat) /\ Len(Append(s, t)) = Len(s) + 1
         /\ \A i \in 1..Len(s) : Append(s, t)[i] = s[i] /\ s[i] \in Nat
         /\ Append(s, t)[Len(s) + 1] = t
         /\ Len(s) \in Nat /\ Append(s, t) # << >>
<1>1. Len(s) \in Nat /\ \A i \in 1..Len(s) : s[i] \in Nat
  OBVIOUS
<1>2. /\ Append(s, t) \in Seq(Nat) /\ Len(Append(s, t)) = Len(s) + 1
      /\ \A i \in 1..Len(s) : Append(s, t)[i] = s[i]
      /\ Append(s, t)[Len(s) + 1] = t
  OBVIOUS
<1>3. Append(s, t) # << >>
  <2>1. Len(Append(s, t)) # 0
    BY <1>1, <1>2
  <2> QED BY <2>1
<1> QED BY <1>1, <1>2, <1>3

\* A grant: readyAt has passed, so the last grant is an interval ago or more.
LEMMA PacerGrant ==
  ASSUME PacerInv, NEW p \in Callers, Grant(p)
  PROVE  PacerInv'
<1> USE DEF PacerInv
<1>1. Interval \in Nat
  BY IntervalCovers
<1>2. gate.owner = p /\ next <= now /\ next' = now + Interval
  BY DEF Grant, GateOK, ReadyAt, Latest, TypeOK
<1>3. /\ grants' \in Seq(Nat) /\ Len(grants') = Len(grants) + 1
      /\ \A i \in 1..Len(grants) : grants'[i] = grants[i] /\ grants[i] \in Nat
      /\ grants'[Len(grants) + 1] = now
      /\ Len(grants) \in Nat /\ grants' # << >>
  <2>1. grants \in Seq(Nat) /\ now \in Nat /\ grants' = Append(grants, now)
    BY DEF Grant, TypeOK
  <2> QED BY ONLY <2>1, AppendGrant
<1>4. GateOK'
  BY DEF Grant, Goto, GateOK, TypeOK
<1>5. TypeOK'
  BY <1>1, <1>2, <1>3 DEF Grant, Goto, TypeOK, Places
<1>6. NoStaleSleep' /\ NoHopelessSleep'
  <2>1. \A q \in Callers : pc'[q] # "sleeping"
    BY OneInside DEF Grant, Goto, TypeOK
  <2> QED BY <2>1 DEF NoStaleSleep, NoHopelessSleep
<1>7. NextAhead'
  BY <1>2, <1>3 DEF NextAhead
<1>8. Spaced'
  <2>1. SUFFICES ASSUME NEW i \in 1..Len(grants'), NEW j \in 1..Len(grants'), i <= j
                 PROVE  grants'[j] - grants'[i] >= (j - i) * Interval
    BY DEF Spaced
  <2>2. CASE j <= Len(grants)
    <3>1. i \in 1..Len(grants) /\ j \in 1..Len(grants)
      BY <1>3, <2>1, <2>2
    <3>2. grants'[i] = grants[i] /\ grants'[j] = grants[j]
      BY <1>3, <3>1
    <3>3. grants[j] - grants[i] >= (j - i) * Interval
      BY <2>1, <3>1 DEF Spaced
    <3> QED BY <3>2, <3>3
  <2>3. CASE i = j
    BY <1>1, <1>3, <2>3 DEF TypeOK
  <2>4. CASE i <= Len(grants) /\ j = Len(grants) + 1
    <3> DEFINE n == Len(grants)
    <3>1. grants[n] - grants[i] >= (n - i) * Interval /\ now >= grants[n] + Interval
      <4>1. grants # << >> /\ n \in 1..Len(grants) /\ i \in 1..Len(grants) /\ i <= n
        BY <1>3, <2>1, <2>4
      <4> QED BY <4>1, <1>2 DEF Spaced, NextAhead
    <3>2. (j - i) * Interval = (n - i) * Interval + Interval
      <4>1. \A k \in Nat : (k + 1) * Interval = k * Interval + Interval
        BY <1>1
      <4>2. n - i \in Nat /\ j - i = (n - i) + 1
        BY <1>3, <2>1, <2>4
      <4> QED BY <4>1, <4>2
    <3>3. grants'[j] = now /\ grants'[i] = grants[i] /\ grants[i] \in Nat /\ grants[n] \in Nat
      BY <1>3, <2>1, <2>4
    <3>4. (n - i) * Interval \in Nat
      BY <1>1, <1>3, <2>1, <2>4
    <3> DEFINE w == (n - i) * Interval
               g == grants[n]
               h == grants[i]
    <3>5. g \in Nat /\ h \in Nat /\ w \in Nat /\ now \in Nat
          /\ g - h >= w /\ now >= g + Interval
      BY <3>1, <3>3, <3>4 DEF TypeOK
    <3> HIDE DEF w, g, h
    <3>6. now - h >= w + Interval
      BY <1>1, <3>5
    <3>7. grants'[j] - grants'[i] = now - h /\ (j - i) * Interval = w + Interval
      BY <3>2, <3>3 DEF w, h
    <3> QED BY <3>6, <3>7
  <2>5. j <= Len(grants) \/ i = j \/ (i <= Len(grants) /\ j = Len(grants) + 1)
    <3> DEFINE n == Len(grants)
    <3>1. n \in Nat /\ i \in 1..(n + 1) /\ j \in 1..(n + 1) /\ i <= j
      BY <1>3, <2>1
    <3> HIDE DEF n
    <3>2. j <= n \/ i = j \/ (i <= n /\ j = n + 1)
      BY <3>1
    <3> QED BY <3>2 DEF n
  <2> QED BY <2>2, <2>3, <2>4, <2>5
<1> QED BY <1>4, <1>5, <1>6, <1>7, <1>8

\* The other steps of the owner: they move it between loop, select and return.
LEMMA PacerOwner ==
  ASSUME PacerInv, NEW p \in Callers,
         Acquired(p) \/ Sleep(p) \/ Refuse(p) \/ Wake(p) \/ GiveUp(p)
  PROVE  PacerInv'
<1> USE DEF PacerInv
<1>1. gate.owner = p /\ Inside(gate, p) /\ pc[p] # "out"
      /\ UNCHANGED <<now, gate, next, blockedUntil, deadline, grants>>
      /\ pc' \in [Callers -> Places] /\ pc'[p] # "out"
      /\ \A q \in Callers : q # p => pc'[q] = pc[q]
  BY DEF Acquired, Sleep, Refuse, Wake, GiveUp, Goto, GateOK, TypeOK, Places, Inside
<1>2. GateOK'
  BY <1>1 DEF GateOK
<1>3. until' \in Nat
  BY DEF Acquired, Sleep, Refuse, Wake, GiveUp, EndSelect, TypeOK, ReadyAt, Latest
<1>4. woken' \in BOOLEAN
  BY Zenon DEF Acquired, Sleep, Refuse, Wake, GiveUp, EndSelect, TypeOK
<1>5. TypeOK'
  BY <1>1, <1>3, <1>4 DEF TypeOK
<1>6. \A q \in Callers : pc'[q] = "sleeping" => q = p /\ Sleep(p)
  <2>1. SUFFICES ASSUME NEW q \in Callers, pc'[q] = "sleeping"
                 PROVE  q = p /\ Sleep(p)
    OBVIOUS
  <2>2. q = p
    BY <1>1, <1>2, <2>1 DEF GateOK
  <2> QED BY <2>1, <2>2 DEF Acquired, Refuse, Wake, GiveUp, Goto, TypeOK
<1>7. NoStaleSleep' /\ NoHopelessSleep'
  BY <1>1, <1>6 DEF NoStaleSleep, NoHopelessSleep, Sleep, Hopeless, ReadyAt, Latest, TypeOK
<1>8. NextAhead' /\ Spaced'
  BY <1>1, KeepSpaced
<1> QED BY <1>2, <1>5, <1>7, <1>8

\* A cooldown that is extended wakes whoever sleeps.
LEMMA PacerBlockFor ==
  ASSUME PacerInv, NEW d \in 0..MaxDelay, BlockFor(d)
  PROVE  PacerInv'
<1> USE DEF PacerInv
<1>1. woken' \in BOOLEAN
  BY Zenon DEF BlockFor
<1>2. TypeOK'
  BY <1>1 DEF BlockFor, TypeOK, Latest
<1>3. GateOK'
  BY DEF BlockFor, GateOK
<1>4. \A q \in Callers : pc'[q] = "sleeping" => woken'
  BY DEF BlockFor
<1>5. NoStaleSleep' /\ NoHopelessSleep'
  BY <1>4 DEF NoStaleSleep, NoHopelessSleep
<1>6. NextAhead' /\ Spaced'
  BY KeepSpaced DEF BlockFor
<1> QED BY <1>2, <1>3, <1>5, <1>6

\* Time passes: a cooldown that leaves room for an attempt goes on to do so.
LEMMA PacerTick ==
  ASSUME PacerInv, Tick
  PROVE  PacerInv'
<1> USE DEF PacerInv
<1>1. TypeOK' /\ GateOK'
  BY DEF Tick, TypeOK, GateOK
<1>2. NoStaleSleep' /\ NoHopelessSleep'
  BY DEF Tick, TypeOK, NoStaleSleep, NoHopelessSleep, Hopeless, ReadyAt, Latest
<1>3. NextAhead' /\ Spaced'
  BY KeepSpaced DEF Tick
<1> QED BY <1>1, <1>2, <1>3

\* Every step keeps the invariant.
LEMMA PacerStep == PacerInv /\ [Next]_vars => PacerInv'
<1> SUFFICES ASSUME PacerInv, [Next]_vars PROVE PacerInv'
  OBVIOUS
<1>1. CASE UNCHANGED vars
  BY <1>1 DEF vars, PacerInv, TypeOK, GateOK, NextAhead, Spaced, NoStaleSleep,
              NoHopelessSleep, Hopeless, ReadyAt, Latest
<1>2. ASSUME NEW p \in Callers, Step(p)
      PROVE  PacerInv'
  BY <1>2, PacerEnter, PacerLeave, PacerGrant, PacerOwner DEF Step
<1>3. ASSUME NEW d \in 0..MaxDelay, BlockFor(d)
      PROVE  PacerInv'
  BY <1>3, PacerBlockFor
<1>4. CASE Tick
  BY <1>4, PacerTick
<1> QED BY <1>1, <1>2, <1>3, <1>4 DEF Next

\* Grants spaced by the interval respect the allowance of every second.
LEMMA SpacedBounds == TypeOK /\ Spaced => WindowBound
<1> SUFFICES ASSUME TypeOK, Spaced,
                    NEW i \in 1..Len(grants), i + PerSecond <= Len(grants)
             PROVE  grants[i + PerSecond] - grants[i] >= Second
  BY DEF WindowBound
<1>1. i + PerSecond \in 1..Len(grants) /\ i <= i + PerSecond /\ (i + PerSecond) - i = PerSecond
  BY DEF TypeOK
<1>2. grants[i + PerSecond] - grants[i] >= PerSecond * Interval
  BY <1>1 DEF Spaced
<1>3. grants[i + PerSecond] \in Nat /\ grants[i] \in Nat
  BY <1>1 DEF TypeOK
<1>4. PerSecond * Interval \in Nat
  BY IntervalCovers
<1> QED BY <1>2, <1>3, <1>4, IntervalCovers

-----------------------------------------------------------------------------
(* Theorems                                                                *)

\* The invariant holds throughout, for every allowance, slack and gate bound.
THEOREM PacerInvariance == Spec => []PacerInv
BY PacerInit, PacerStep, PTL DEF Spec

\* The pacer's variables keep their types.
THEOREM PacerTypes == Spec => []TypeOK
BY PacerInvariance, PTL DEF PacerInv

\* No burst: consecutive grants of waitFor are an interval apart (ratelimit.go:132-142).
THEOREM PacerSpacing == Spec => []Spaced
BY PacerInvariance, PTL DEF PacerInv

\* A rolling second never holds more grants than the allowance, whatever the
\* allowance and however it divides a second (ratelimit.go:88-111).
THEOREM PacerWindow == Spec => []WindowBound
<1>1. PacerInv => WindowBound
  BY SpacedBounds DEF PacerInv
<1> QED BY <1>1, PacerInvariance, PTL

\* Nobody sleeps past what the pacer asks, nor for what its deadline cannot
\* afford (ratelimit.go:143-171).
THEOREM PacerSleep == Spec => []SleepSound
<1>1. PacerInv => SleepSound
  BY DEF PacerInv, SleepSound
<1> QED BY <1>1, PacerInvariance, PTL

=============================================================================
