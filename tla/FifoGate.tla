------------------------------- MODULE FifoGate -------------------------------
(***************************************************************************)
(* fifoGate of internal/proxy/scheduler.go: a cancellation-safe, bounded   *)
(* FIFO semaphore of capacity one.  Every critical section of the gate's   *)
(* mutex is one step; between two critical sections other callers run and  *)
(* contexts are cancelled.                                                 *)
(***************************************************************************)
EXTENDS LockOps

CONSTANTS Callers,     \* goroutines that call acquire
          MaxWaiters   \* fifoGate.maxWaiters

ASSUME GateAssumption == None \notin Callers /\ MaxWaiters \in Nat

VARIABLES
  held,     \* fifoGate.held
  waiters,  \* fifoGate.waiters; a waiter is in it while waiter.element # nil
  ready,    \* callers whose waiter.ready channel is closed and not yet read
  ctxDone,  \* whether the context of the caller's current acquire is done
  pc        \* where in acquire or release the caller is

vars == <<held, waiters, ready, ctxDone, pc>>

(***************************************************************************)
(* "out"       not in acquire, holds nothing                               *)
(* "checking"  has been given the gate, about to read ctx.Err()            *)
(* "selecting" queued, in the select on waiter.ready and ctx.Done()        *)
(* "aborting"  took the ctx.Done() case, about to lock the mutex           *)
(* "releasing" about to give back a gate it was given too late             *)
(* "in"        acquire returned nil                                        *)
(* "full"      acquire returned errQueueFull                               *)
(* "cancelled" acquire returned the context's error                        *)
(***************************************************************************)
Outside == {"out", "full", "cancelled"}

Waiting == {"selecting", "aborting"}

Places == Outside \cup Waiting \cup {"checking", "releasing", "in"}

Goto(p, to) == pc' = [pc EXCEPT ![p] = to]

InQueue(p) == p \in Range(waiters)

Init ==
  /\ held = FALSE
  /\ waiters = << >>
  /\ ready = {}
  /\ ctxDone = [p \in Callers |-> FALSE]
  /\ pc = [p \in Callers |-> "out"]

-----------------------------------------------------------------------------
(* acquire(ctx).  The context may be done before the call.                 *)

NewContext(p) == \E done \in BOOLEAN : ctxDone' = [ctxDone EXCEPT ![p] = done]

AcquireFree(p) ==
  /\ pc[p] \in Outside
  /\ ~held
  /\ held' = TRUE
  /\ NewContext(p)
  /\ Goto(p, "checking")
  /\ UNCHANGED <<waiters, ready>>

AcquireFull(p) ==
  /\ pc[p] \in Outside
  /\ held
  /\ Len(waiters) >= MaxWaiters
  /\ Goto(p, "full")
  /\ UNCHANGED <<held, waiters, ready, ctxDone>>

AcquireQueued(p) ==
  /\ pc[p] \in Outside
  /\ held
  /\ Len(waiters) < MaxWaiters
  /\ waiters' = Append(waiters, p)
  /\ NewContext(p)
  /\ Goto(p, "selecting")
  /\ UNCHANGED <<held, ready>>

\* When the channel is closed and the context is done, select picks either.
SelectReady(p) ==
  /\ pc[p] = "selecting"
  /\ p \in ready
  /\ ready' = ready \ {p}
  /\ Goto(p, "checking")
  /\ UNCHANGED <<held, waiters, ctxDone>>

\* Fault: the context is watched only once the gate has been handed over.
SelectDoneLate(p) ==
  /\ pc[p] = "selecting"
  /\ ctxDone[p]
  /\ p \in ready
  /\ Goto(p, "aborting")
  /\ UNCHANGED <<held, waiters, ready, ctxDone>>

SelectDone(p) ==
  /\ pc[p] = "selecting"
  /\ ctxDone[p]
  /\ Goto(p, "aborting")
  /\ UNCHANGED <<held, waiters, ready, ctxDone>>

CheckContext(p) ==
  /\ pc[p] = "checking"
  /\ Goto(p, IF ctxDone[p] THEN "releasing" ELSE "in")
  /\ UNCHANGED <<held, waiters, ready, ctxDone>>

AbortQueued(p) ==
  /\ pc[p] = "aborting"
  /\ InQueue(p)
  /\ waiters' = Without(waiters, p)
  /\ Goto(p, "cancelled")
  /\ UNCHANGED <<held, ready, ctxDone>>

\* Fault: a gate handed over too late is not given back.
AbortGrantedKeeping(p) ==
  /\ pc[p] = "aborting"
  /\ ~InQueue(p)
  /\ ready' = ready \ {p}
  /\ Goto(p, "cancelled")
  /\ UNCHANGED <<held, waiters, ctxDone>>

\* waiter.element is nil: the gate was handed over before the mutex was taken.
AbortGranted(p) ==
  /\ pc[p] = "aborting"
  /\ ~InQueue(p)
  /\ ready' = ready \ {p}
  /\ Goto(p, "releasing")
  /\ UNCHANGED <<held, waiters, ctxDone>>

-----------------------------------------------------------------------------
(* release()                                                               *)

\* Fault: the last waiter is served first.
HandOverLast ==
  IF waiters = << >>
  THEN held' = FALSE /\ UNCHANGED <<waiters, ready>>
  ELSE /\ waiters' = SubSeq(waiters, 1, Len(waiters) - 1)
       /\ ready' = ready \cup {waiters[Len(waiters)]}
       /\ UNCHANGED held

\* Fault: waiter.ready is not closed.
HandOverSilent ==
  IF waiters = << >>
  THEN held' = FALSE /\ UNCHANGED <<waiters, ready>>
  ELSE waiters' = Tail(waiters) /\ UNCHANGED <<held, ready>>

HandOver ==
  IF waiters = << >>
  THEN held' = FALSE /\ UNCHANGED <<waiters, ready>>
  ELSE /\ waiters' = Tail(waiters)
       /\ ready' = ready \cup {Head(waiters)}
       /\ UNCHANGED held

GiveBack(p) ==
  /\ pc[p] = "releasing"
  /\ HandOver
  /\ Goto(p, "cancelled")
  /\ UNCHANGED ctxDone

Release(p) ==
  /\ pc[p] = "in"
  /\ HandOver
  /\ Goto(p, "out")
  /\ UNCHANGED ctxDone

\* The caller's context is cancelled or reaches its deadline.
Cancel(p) ==
  /\ pc[p] \in {"checking", "selecting"}
  /\ ~ctxDone[p]
  /\ ctxDone' = [ctxDone EXCEPT ![p] = TRUE]
  /\ UNCHANGED <<held, waiters, ready, pc>>

\* The steps acquire takes by itself once it has been called.
Proceed(p) ==
  \/ SelectReady(p)
  \/ SelectDone(p)
  \/ CheckContext(p)
  \/ AbortQueued(p)
  \/ AbortGranted(p)
  \/ GiveBack(p)

Next == \E p \in Callers :
  \/ AcquireFree(p)
  \/ AcquireFull(p)
  \/ AcquireQueued(p)
  \/ Proceed(p)
  \/ Release(p)
  \/ Cancel(p)

Spec == Init /\ [][Next]_vars

\* A goroutine that can run does; nothing is assumed of when callers call
\* acquire, cancel, or release a gate they own.
FairSpec == Spec /\ \A p \in Callers : WF_vars(Proceed(p))

-----------------------------------------------------------------------------
(* Safety                                                                  *)

\* Types; the queue never exceeds its bound (maxWaiters, scheduler.go:124-127).
TypeOK ==
  /\ held \in BOOLEAN
  /\ waiters \in Seq(Callers)
  /\ Len(waiters) <= MaxWaiters
  /\ ready \in SUBSET Callers
  /\ ctxDone \in [Callers -> BOOLEAN]
  /\ pc \in [Callers -> Places]

\* The gate is p's to give back: p has it, or it was handed to p's waiter and
\* p has not noticed.
Owns(p) ==
  \/ pc[p] \in {"checking", "releasing", "in"}
  \/ pc[p] \in Waiting /\ p \in ready

\* At most one caller owns the gate, the callers it was handed to but that
\* have not run yet included (acquire and release, scheduler.go:113-166).
OneOwner == \A p, q \in Callers : Owns(p) /\ Owns(q) => p = q

\* held is set exactly while some caller will still call release: a cancelled
\* waiter never swallows a gate that was handed to it (scheduler.go:141-149).
NotLost == held <=> \E p \in Callers : Owns(p)

\* Nobody is queued at a free gate, where no release would ever wake it.
NoneStranded == waiters # << >> => held

\* The gate is never lost: exactly one caller owns it while it is held, nobody
\* else believes to, and only then is anybody queued.
GateSafe == OneOwner /\ NotLost /\ NoneStranded

\* The inductive invariant.  A caller that waits is either queued or has been
\* handed the gate, and never both; the queue holds nobody twice.
WaiterStates ==
  /\ IsInjective(waiters)
  /\ \A p \in Callers :
       /\ pc[p] \in Waiting <=> InQueue(p) \/ p \in ready
       /\ ~(InQueue(p) /\ p \in ready)

GateInv == TypeOK /\ WaiterStates /\ OneOwner /\ NotLost /\ NoneStranded

(***************************************************************************)
(* The gate implements the abstract FIFO lock: callers become owners in    *)
(* the order in which they queued, whatever is cancelled in between.       *)
(***************************************************************************)
Owner == IF \E p \in Callers : Owns(p)
         THEN CHOOSE p \in Callers : Owns(p)
         ELSE None

Lock == INSTANCE FifoLock WITH lock <- [owner |-> Owner, queue |-> waiters]

LockSpec == Lock!Spec

-----------------------------------------------------------------------------
(* Liveness                                                                *)

\* acquire returns once its context is done, and with the context's error,
\* even if the owner never calls release (scheduler.go:133-151).
CancelReturns ==
  \A p \in Callers :
    (pc[p] \in Waiting /\ ctxDone[p]) ~> pc[p] = "cancelled"

\* If every owner eventually calls release, every queued caller eventually
\* leaves the queue: no handover is lost however cancellations interleave.
OwnersRelease == \A p \in Callers : []<>(pc[p] # "in")

WaitersServed ==
  OwnersRelease =>
    \A p \in Callers : []<>(pc[p] \notin Waiting)
=============================================================================
