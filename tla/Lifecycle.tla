------------------------------ MODULE Lifecycle ------------------------------
(***************************************************************************)
(* The life of a node: run of main.go, which binds and starts the servers, *)
(* joins the cluster, waits and shuts down; Proxy.Close with the goroutine *)
(* finishClose and the sweeper it waits for; and the part of JoinCluster   *)
(* and closeCluster that decides who owns the memberlist.  run calls       *)
(* JoinCluster and Close in turn; both are exported and may be called by   *)
(* any goroutine, so Others are callers that do so at any moment.          *)
(*                                                                         *)
(* Every critical section of clusterMu is one step.  memberlist and        *)
(* net/http are external: a memberlist is created, left and shut down; a   *)
(* server is bound, serves, fails or is closed.                            *)
(***************************************************************************)
EXTENDS Naturals

CONSTANTS
  Main,       \* the goroutine of run
  Others,     \* other callers of JoinCluster and Close
  Plain,      \* the servers that are not the peer server
  Peer,       \* the mTLS peer server
  Nobody      \* nil

ASSUME LifecycleAssumption ==
  /\ Main \notin Others /\ Nobody \notin Others \cup {Main}
  /\ Peer \notin Plain

Callers == Others \cup {Main}

VARIABLES
  clustered, \* config.clusteringEnabled()
  pc,        \* where each caller is
  ctxDone,   \* p.ctx is cancelled
  joining,   \* p.clusterJoinDone: the caller whose join it belongs to, or nil
  handle,    \* p.cluster: the caller that created it, or nil
  list,      \* the memberlist a caller created
  finish,    \* where finishClose is
  taken,     \* closeCluster's local cluster
  sweeper,   \* sweepLoop is running
  server,    \* the servers of run
  errors,    \* len(serveErrors)
  busy,      \* servers with a handler in progress
  deferred,  \* run has returned: its deferred function is running
  stopped,   \* servers on which run has called Shutdown, in its body or deferred
  expired    \* the context of those calls, and of run's Close, has ended

processVars == <<clustered, server, errors, busy, deferred, stopped, expired>>
closeVars == <<finish, taken, sweeper>>
nodeVars == <<ctxDone, joining, handle, list, closeVars>>
runVars == <<clustered, errors, busy, deferred, stopped, expired>>
vars == <<pc, nodeVars, processVars>>

Servers == IF clustered THEN Plain \cup {Peer} ELSE Plain

Goto(c, to) == pc' = [pc EXCEPT ![c] = to]

(***************************************************************************)
(* In JoinCluster: "enter", "create", "created", "install", "undo" and     *)
(* "undone" (the deferred function), "refused" and "joined".               *)
(* In Close: "close", "closing", "closed".                                 *)
(* In run: "bind", "running", "exited".                                   *)
(***************************************************************************)
Init ==
  /\ clustered \in BOOLEAN
  /\ pc = [c \in Callers |-> IF c = Main THEN "bind" ELSE "idle"]
  /\ ctxDone = FALSE
  /\ joining = Nobody
  /\ handle = Nobody
  /\ list = [c \in Callers |-> "none"]
  /\ finish = "none"
  /\ taken = Nobody
  /\ sweeper = TRUE
  /\ server = [s \in Plain \cup {Peer} |-> "unbound"]
  /\ errors = 0
  /\ busy = {}
  /\ deferred = FALSE
  /\ stopped = {}
  /\ expired = FALSE

-----------------------------------------------------------------------------
(* JoinCluster                                                             *)

\* The first critical section.
JoinEnter(c) ==
  /\ pc[c] = "enter"
  /\ IF ctxDone \/ handle # Nobody \/ joining # Nobody
     THEN Goto(c, "refused") /\ UNCHANGED joining
     ELSE Goto(c, "create") /\ joining' = c
  /\ UNCHANGED <<ctxDone, handle, list, closeVars, processVars>>

\* joinCluster finds no member to join, or a configuration check fails.
JoinInvalid(c) ==
  /\ pc[c] = "enter"
  /\ Goto(c, "refused")
  /\ UNCHANGED <<ctxDone, joining, handle, list, closeVars, processVars>>

JoinCreate(c) ==
  /\ pc[c] = "create"
  /\ \/ Goto(c, "undo") /\ UNCHANGED list
     \/ Goto(c, "created") /\ list' = [list EXCEPT ![c] = "live"]
  /\ UNCHANGED <<ctxDone, joining, handle, closeVars, processVars>>

\* The certificate, the known members, and the number of members, which on
\* failure is left before it is shut down.
JoinChecks(c) ==
  /\ pc[c] = "created"
  /\ \/ Goto(c, "install") /\ UNCHANGED list
     \/ Goto(c, "undo") /\ list' \in {list, [list EXCEPT ![c] = "left"]}
  /\ UNCHANGED <<ctxDone, joining, handle, closeVars, processVars>>

\* The second critical section.
JoinInstall(c) ==
  /\ pc[c] = "install"
  /\ IF ctxDone
     THEN Goto(c, "undo") /\ UNCHANGED <<handle, joining>>
     ELSE Goto(c, "joined") /\ handle' = c /\ joining' = Nobody
  /\ UNCHANGED <<ctxDone, list, closeVars, processVars>>

Shut(c) == list' = [list EXCEPT ![c] = IF @ = "none" THEN @ ELSE "shut"]

\* The deferred function of a join that was not installed.
JoinUndo(c) ==
  /\ pc[c] = "undo"
  /\ Shut(c)
  /\ Goto(c, "undone")
  /\ UNCHANGED <<ctxDone, joining, handle, closeVars, processVars>>

\* Fault: joinDone stays open.
JoinUndoneSilent(c) ==
  /\ pc[c] = "undone"
  /\ Goto(c, "refused")
  /\ UNCHANGED <<ctxDone, joining, handle, list, closeVars, processVars>>

JoinUndone(c) ==
  /\ pc[c] = "undone"
  /\ joining' = IF joining = c THEN Nobody ELSE joining
  /\ Goto(c, "refused")
  /\ UNCHANGED <<ctxDone, handle, list, closeVars, processVars>>

Joining(c) ==
  \/ JoinEnter(c)
  \/ JoinInvalid(c)
  \/ JoinCreate(c)
  \/ JoinChecks(c)
  \/ JoinInstall(c)
  \/ JoinUndo(c)
  \/ JoinUndone(c)

-----------------------------------------------------------------------------
(* Close, finishClose and sweepLoop                                        *)

\* closeOnce
CloseCall(c) ==
  /\ pc[c] = "close"
  /\ ctxDone' = TRUE
  /\ finish' = IF finish = "none" THEN "closing" ELSE finish
  /\ Goto(c, "closing")
  /\ UNCHANGED <<joining, handle, list, taken, sweeper, processVars>>

\* closeDone is closed, or the context of the call ends.
CloseReturn(c) ==
  /\ pc[c] = "closing"
  /\ c = Main => finish = "done" \/ expired
  /\ Goto(c, "closed")
  /\ UNCHANGED <<ctxDone, joining, handle, list, closeVars, processVars>>

\* Fault: closeCluster does not wait for a join in progress.
FinishTakeEarly ==
  /\ finish = "closing"
  /\ finish' = "leave"
  /\ taken' = handle
  /\ handle' = Nobody
  /\ UNCHANGED <<pc, ctxDone, joining, list, sweeper, processVars>>

\* closeCluster, once no join is in progress, takes the memberlist.
FinishTake ==
  /\ finish = "closing"
  /\ joining = Nobody
  /\ finish' = "leave"
  /\ taken' = handle
  /\ handle' = Nobody
  /\ UNCHANGED <<pc, ctxDone, joining, list, sweeper, processVars>>

FinishLeave ==
  /\ finish = "leave"
  /\ finish' = "shut"
  /\ list' = IF taken = Nobody THEN list ELSE [list EXCEPT ![taken] = "left"]
  /\ UNCHANGED <<pc, ctxDone, joining, handle, taken, sweeper, processVars>>

\* The memberlist is shut down; the clients are dropped (see ClientRegistry).
FinishShut ==
  /\ finish = "shut"
  /\ finish' = "wait"
  /\ IF taken = Nobody THEN UNCHANGED list ELSE Shut(taken)
  /\ UNCHANGED <<pc, ctxDone, joining, handle, taken, sweeper, processVars>>

\* p.wg.Wait() and close(p.closeDone)
FinishDone ==
  /\ finish = "wait"
  /\ ~sweeper
  /\ finish' = "done"
  /\ UNCHANGED <<pc, ctxDone, joining, handle, list, taken, sweeper, processVars>>

Finish == FinishTake \/ FinishLeave \/ FinishShut \/ FinishDone

SweepLoopEnds ==
  /\ sweeper
  /\ ctxDone
  /\ sweeper' = FALSE
  /\ UNCHANGED <<pc, ctxDone, joining, handle, list, finish, taken, processVars>>

\* Another goroutine calls JoinCluster or Close.
Call(c) ==
  /\ c \in Others
  /\ pc[c] = "idle"
  /\ \E call \in {"enter", "close"} : Goto(c, call)
  /\ UNCHANGED <<ctxDone, joining, handle, list, closeVars, processVars>>

-----------------------------------------------------------------------------
(* The servers: net/http                                                   *)

\* Serve returns an error other than ErrServerClosed, and closes the listener.
ServeFails(s) ==
  /\ server[s] = "serving"
  /\ server' = [server EXCEPT ![s] = "failed"]
  /\ errors' = errors + 1
  /\ UNCHANGED <<pc, nodeVars, clustered, busy, deferred, stopped, expired>>

Accept(s) ==
  /\ server[s] = "serving"
  /\ s \notin busy
  /\ busy' = busy \cup {s}
  /\ UNCHANGED <<pc, nodeVars, clustered, server, errors, deferred, stopped, expired>>

Handled(s) ==
  /\ s \in busy
  /\ busy' = busy \ {s}
  /\ UNCHANGED <<pc, nodeVars, clustered, server, errors, deferred, stopped, expired>>

-----------------------------------------------------------------------------
(* run                                                                     *)

\* run returns: the deferred function starts, with a context of its own.
Return ==
  /\ Goto(Main, "close")
  /\ deferred' = TRUE
  /\ stopped' = {}
  /\ expired' = FALSE

\* The listeners are bound one after the other, the peer server's last.
Bind(s) ==
  /\ pc[Main] = "bind"
  /\ server[s] = "unbound"
  /\ s = Peer => \A t \in Plain : server[t] # "unbound"
  /\ server' = [server EXCEPT ![s] = "bound"]
  /\ UNCHANGED <<pc, nodeVars, runVars>>

BindFails ==
  /\ pc[Main] = "bind"
  /\ \E s \in Servers : server[s] = "unbound"
  /\ Return
  /\ UNCHANGED <<nodeVars, clustered, server, errors, busy>>

Bound == pc[Main] = "bind" /\ \A s \in Servers : server[s] # "unbound"

\* Fault: gossip starts before the peer server.
StartPeerLate ==
  /\ Bound /\ clustered
  /\ Goto(Main, "enter")
  /\ UNCHANGED <<nodeVars, processVars>>

StartPeer ==
  /\ Bound /\ clustered
  /\ server' = [server EXCEPT ![Peer] = "serving"]
  /\ Goto(Main, "enter")
  /\ UNCHANGED <<nodeVars, runVars>>

JoinFailed ==
  /\ pc[Main] = "refused"
  /\ Return
  /\ UNCHANGED <<nodeVars, clustered, server, errors, busy>>

\* After a join that succeeded, or stand-alone.
StartRest ==
  /\ pc[Main] = "joined" \/ (Bound /\ ~clustered)
  /\ errors = 0
  /\ server' = [s \in DOMAIN server |-> IF s \in Plain THEN "serving" ELSE server[s]]
  /\ Goto(Main, "running")
  /\ UNCHANGED <<nodeVars, runVars>>

\* A server has failed: return its error.
ServeErrors ==
  /\ pc[Main] \in {"joined", "running"}
  /\ errors > 0
  /\ errors' = errors - 1
  /\ Return
  /\ UNCHANGED <<nodeVars, clustered, server, busy>>

Signal ==
  /\ pc[Main] = "running"
  /\ Goto(Main, "close")
  /\ UNCHANGED <<nodeVars, processVars>>

\* The servers are stopped, the proxy first.
Stopping == pc[Main] = "closed"

\* In the order of servers, the peer server last.
Turn(s) ==
  /\ s \notin stopped /\ server[s] # "unbound"
  /\ s = Peer => Plain \subseteq stopped

\* Shutdown first closes the listeners that its server serves.
CloseListener(s) ==
  /\ Stopping /\ Turn(s)
  /\ server[s] = "serving"
  /\ server' = [server EXCEPT ![s] = "closed"]
  /\ UNCHANGED <<pc, nodeVars, runVars>>

\* Fault: Shutdown is given a context without a deadline.
ShutdownPatient(s) ==
  /\ Stopping /\ Turn(s)
  /\ server[s] # "serving"
  /\ s \notin busy
  /\ server' = [server EXCEPT ![s] = IF deferred THEN "closed" ELSE @]
  /\ stopped' = stopped \cup {s}
  /\ UNCHANGED <<pc, nodeVars, clustered, errors, busy, deferred, expired>>

\* Fault: the deferred function leaves the listener to Shutdown.
ShutdownOnly(s) ==
  /\ Stopping /\ Turn(s)
  /\ server[s] # "serving"
  /\ s \notin busy \/ expired
  /\ stopped' = stopped \cup {s}
  /\ UNCHANGED <<pc, nodeVars, clustered, server, errors, busy, deferred, expired>>

\* Then it waits for the handlers; the deferred function closes the listener
\* itself as well.
Shutdown(s) ==
  /\ Stopping /\ Turn(s)
  /\ server[s] # "serving"
  /\ s \notin busy \/ expired
  /\ server' = [server EXCEPT ![s] = IF deferred THEN "closed" ELSE @]
  /\ stopped' = stopped \cup {s}
  /\ UNCHANGED <<pc, nodeVars, clustered, errors, busy, deferred, expired>>

AllStopped == Stopping /\ \A s \in Servers : s \in stopped \/ server[s] = "unbound"

RunReturns ==
  /\ AllStopped /\ ~deferred
  /\ Return
  /\ UNCHANGED <<nodeVars, clustered, server, errors, busy>>

\* The process ends, and every goroutine with it.
Exit ==
  /\ AllStopped /\ deferred
  /\ pc' = [c \in Callers |-> "exited"]
  /\ finish' = IF finish = "done" THEN finish ELSE "exited"
  /\ sweeper' = FALSE
  /\ busy' = {}
  /\ UNCHANGED <<ctxDone, joining, handle, list, taken, clustered, server, errors,
                 deferred, stopped, expired>>

\* shutdownTimeout or cleanupTimeout has passed.
Expire ==
  /\ pc[Main] \in {"close", "closing", "closed"}
  /\ ~expired
  /\ expired' = TRUE
  /\ UNCHANGED <<pc, nodeVars, clustered, server, errors, busy, deferred, stopped>>

Run ==
  \/ \E s \in Servers : Bind(s) \/ CloseListener(s) \/ Shutdown(s)
  \/ BindFails
  \/ StartPeer
  \/ JoinFailed
  \/ StartRest
  \/ ServeErrors
  \/ RunReturns
  \/ Exit

-----------------------------------------------------------------------------

InCall(c) == Joining(c) \/ CloseCall(c) \/ CloseReturn(c)

Next ==
  \/ Run
  \/ Signal
  \/ Expire
  \/ \E c \in Callers : Call(c) \/ InCall(c)
  \/ Finish
  \/ SweepLoopEnds
  \/ \E s \in Servers : ServeFails(s) \/ Accept(s) \/ Handled(s)

\* run's goroutine and the sweeper run, and timers fire.  Nothing is assumed of
\* signals, handlers, failing servers, finishClose or the calls of Others.
Fairness ==
  WF_vars(Run) /\ WF_vars(Expire) /\ WF_vars(InCall(Main)) /\ WF_vars(SweepLoopEnds)

Spec == Init /\ [][Next]_vars /\ Fairness

-----------------------------------------------------------------------------
(* Safety                                                                  *)

\* When Close reports that it is done, no memberlist is alive, whoever called
\* JoinCluster and however far it had come (the promise of cluster.go:171-173;
\* closeCluster waits for joinDone, cluster.go:299-318).
NoOrphan ==
  finish = "done" =>
    /\ handle = Nobody
    /\ \A c \in Callers : list[c] \in {"none", "shut"}

\* The memberlist run joins with does not advertise a peer server that is bound and
\* not started: the server is started before the memberlist is created (the
\* promise of main.go:124-125).  A server that has not failed by itself is stopped
\* only after that memberlist has left, unless the time to close has run out
\* (main.go:161-171).
PeerReachable ==
  [][/\ clustered /\ list'[Main] = "live" => server'[Peer] # "bound"
     /\ clustered /\ server[Peer] = "serving" /\ server'[Peer] = "closed"
          => list[Main] # "live" \/ expired]_vars

\* However run returns, the process ends with the proxy closed and no listener
\* left open, those of servers that were bound and never started included
\* (main.go:57-65).
NothingOpenAtExit ==
  pc[Main] = "exited" =>
    ctxDone /\ \A s \in Servers : server[s] \in {"unbound", "closed"}

-----------------------------------------------------------------------------
(* Liveness                                                                *)

\* The memberlist's calls return, in finishClose and in a join.
MemberlistReturns == WF_vars(Finish) /\ \A c \in Others : WF_vars(InCall(c))

\* If they do, Close completes unless the process ends first: finishClose waits for
\* a join in progress, the memberlist and the sweeper, and each of them ends
\* (proxy.go:364-390).
CloseCompletes == MemberlistReturns => (ctxDone ~> finish \in {"done", "exited"})

\* A run that has begun to stop ends, though a handler, a join or the memberlist
\* that is to be left may hang: every wait of the way out is bounded by a timeout
\* (main.go:57-65, main.go:161-171).
ProcessEnds == pc[Main] = "close" ~> pc[Main] = "exited"

-----------------------------------------------------------------------------
(* The inductive invariant behind the safety properties (ProcessProofs)    *)

Joins == {"create", "created", "install", "undo", "undone"}

LifeTypeOK ==
  /\ pc \in [Callers -> Joins \cup {"idle", "bind", "enter", "refused", "joined", "running",
                                    "close", "closing", "closed", "exited"}]
  /\ ctxDone \in BOOLEAN /\ clustered \in BOOLEAN /\ deferred \in BOOLEAN /\ expired \in BOOLEAN
  /\ {joining, handle, taken} \subseteq Callers \cup {Nobody}
  /\ list \in [Callers -> {"none", "live", "left", "shut"}]
  /\ finish \in {"none", "closing", "leave", "shut", "wait", "done", "exited"}
  /\ server \in [Plain \cup {Peer} -> {"unbound", "bound", "serving", "failed", "closed"}]
  /\ stopped \subseteq Plain \cup {Peer}

\* One join at a time, while there is no memberlist; none once closeCluster has
\* taken the memberlist.
OneJoin ==
  /\ \A c \in Callers : pc[c] \in Joins => joining = c
  /\ joining # Nobody => handle = Nobody
  /\ finish # "none" => ctxDone
  /\ finish \in {"leave", "shut", "wait", "done"} => joining = Nobody /\ handle = Nobody

\* Somebody will shut down a memberlist that is alive, until the process ends.
ListsOwned ==
  \A c \in Callers : list[c] \in {"live", "left"} =>
    \/ pc[c] \in {"created", "install", "undo"}
    \/ handle = c
    \/ taken = c /\ finish \in {"leave", "shut"}
    \/ finish = "exited"

\* How far run has come on its way out.
WayOut ==
  /\ pc[Main] \in {"closing", "closed", "exited"} => ctxDone
  /\ pc[Main] = "closed" => finish = "done" \/ expired
  /\ deferred =>
       /\ pc[Main] \in {"close", "closing", "closed", "exited"}
       /\ \A s \in stopped : server[s] = "closed"
  /\ pc[Main] = "exited" =>
       deferred /\ \A s \in Servers : s \in stopped \/ server[s] = "unbound"

\* The peer server is up before the join starts.
PeerFirst ==
  clustered /\ (list[Main] = "live" \/ pc[Main] \in Joins \cup {"enter"}) =>
    server[Peer] \notin {"unbound", "bound"}

LifeInv == LifeTypeOK /\ OneJoin /\ ListsOwned /\ WayOut /\ PeerFirst
=============================================================================
