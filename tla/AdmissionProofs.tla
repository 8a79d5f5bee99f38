--------------------------- MODULE AdmissionProofs ---------------------------
(***************************************************************************)
(* The controls a request is admitted by.                                  *)
(*                                                                         *)
(* The FIFO gate, for any set of callers and any queue bound: it has one   *)
(* owner, is never lost, strands nobody, and implements the abstract lock. *)
(*                                                                         *)
(* The invalid-request guard, for any limit, window, lag and compaction    *)
(* threshold: what it counts is what the last window holds.                *)
(***************************************************************************)
EXTENDS FifoGate, InvalidGuard, DataProofs

\* The provers, and the time each is given for a leaf.
USE ZenonT(10), SMTT(30)

-----------------------------------------------------------------------------
(* The FIFO gate                                                           *)

USE DEF InQueue, Outside, Waiting, Places, Goto

\* The initial state satisfies the invariant.
LEMMA GateInit == Init => GateInv
  <1> SUFFICES ASSUME Init PROVE GateInv
    OBVIOUS
  <1>1. waiters \in Seq(Callers) /\ Len(waiters) = 0 /\ DOMAIN waiters = {}
    BY DEF Init
  <1>2. TypeOK
    <2>1. ctxDone \in [Callers -> BOOLEAN] /\ pc \in [Callers -> Places]
      BY Zenon DEF Init
    <2>2. held \in BOOLEAN /\ ready \in SUBSET Callers
      BY Zenon DEF Init
    <2>3. Len(waiters) <= MaxWaiters
      BY <1>1, GateAssumption
    <2> QED
      BY <2>1, <2>2, <2>3, <1>1 DEF TypeOK
  <1>3. WaiterStates
    BY <1>1 DEF Init, WaiterStates, IsInjective, Range
  <1>4. OneOwner /\ NotLost /\ NoneStranded
    BY DEF Init, OneOwner, NotLost, NoneStranded, Owns
  <1> QED
    BY <1>2, <1>3, <1>4 DEF GateInv

\* The steps that leave the queue and its handovers alone.
LEMMA GateAcquireFree ==
  ASSUME GateInv, NEW p \in Callers, AcquireFree(p)
  PROVE  GateInv'
  <1> USE DEF GateInv
  <1>1. TypeOK'
    BY DEF TypeOK, AcquireFree, NewContext
  <1>2. WaiterStates'
    BY DEF TypeOK, AcquireFree, WaiterStates
  <1>3. Owns(p)' /\ \A q \in Callers \ {p} : ~Owns(q)'
    BY DEF TypeOK, AcquireFree, Owns, NotLost
  <1>4. (OneOwner /\ NotLost /\ NoneStranded)'
    BY <1>3 DEF AcquireFree, OneOwner, NotLost, NoneStranded
  <1> QED
    BY <1>1, <1>2, <1>4

\* acquire of a held gate puts the caller at the end of the queue.
LEMMA GateAcquireQueued ==
  ASSUME GateInv, NEW p \in Callers, AcquireQueued(p)
  PROVE  GateInv'
  <1> USE DEF GateInv
  <1>1. /\ waiters \in Seq(Callers)
        /\ IsInjective(waiters)
        /\ p \notin Range(waiters)
        /\ p \notin ready
    BY DEF TypeOK, AcquireQueued, WaiterStates
  <1>2. /\ waiters' \in Seq(Callers)
        /\ Len(waiters') = Len(waiters) + 1
        /\ IsInjective(waiters')
        /\ \A q : q \in Range(waiters') <=> q \in Range(waiters) \/ q = p
    BY <1>1, AppendQueue DEF AcquireQueued
  <1>3. TypeOK'
    BY <1>1, <1>2, GateAssumption
    DEF TypeOK, AcquireQueued, NewContext
  <1>4. WaiterStates'
    BY <1>1, <1>2 DEF TypeOK, AcquireQueued, WaiterStates
  <1>5. \A q \in Callers : Owns(q)' <=> Owns(q)
    BY <1>1 DEF TypeOK, AcquireQueued, Owns
  <1>6. (OneOwner /\ NotLost /\ NoneStranded)'
    BY <1>5 DEF AcquireQueued, OneOwner, NotLost, NoneStranded
  <1> QED
    BY <1>3, <1>4, <1>6

\* A cancelled waiter that is still queued takes itself out.
LEMMA GateAbortQueued ==
  ASSUME GateInv, NEW p \in Callers, AbortQueued(p)
  PROVE  GateInv'
  <1> USE DEF GateInv
  <1>1. /\ waiters \in Seq(Callers)
        /\ IsInjective(waiters)
        /\ p \in Range(waiters)
        /\ p \notin ready
    BY DEF TypeOK, AbortQueued, WaiterStates
  <1>2. /\ waiters' \in Seq(Callers)
        /\ Len(waiters') = Len(waiters) - 1
        /\ IsInjective(waiters')
        /\ \A q : q \in Range(waiters') <=> q \in Range(waiters) /\ q # p
    BY <1>1, WithoutQueue DEF AbortQueued
  <1>3. TypeOK'
    BY <1>1, <1>2, GateAssumption DEF TypeOK, AbortQueued
  <1>4. WaiterStates'
    BY <1>1, <1>2 DEF TypeOK, AbortQueued, WaiterStates
  <1>5. \A q \in Callers : Owns(q)' <=> Owns(q)
    BY <1>1 DEF TypeOK, AbortQueued, Owns
  <1>6. held
    BY <1>1 DEF NoneStranded, Range
  <1>7. (OneOwner /\ NotLost /\ NoneStranded)'
    BY <1>5, <1>6 DEF AbortQueued, OneOwner, NotLost, NoneStranded
  <1> QED
    BY <1>3, <1>4, <1>7

\* release(), called by the owner p, which is left outside the gate.
LEMMA GateHandOver ==
  ASSUME GateInv, NEW p \in Callers, NEW to \in Outside,
         pc[p] \in {"in", "releasing"},
         HandOver, Goto(p, to), UNCHANGED ctxDone
  PROVE  GateInv'
  <1> USE DEF GateInv
  <1>1. \A q \in Callers : Owns(q) <=> q = p
    BY DEF OneOwner, Owns
  <1>2. p \notin ready /\ p \notin Range(waiters)
    BY DEF WaiterStates, TypeOK
  <1>3. held
    BY <1>1 DEF NotLost
  <1>4. CASE waiters = << >>
    <2>1. held' = FALSE /\ UNCHANGED <<waiters, ready>>
      BY <1>4 DEF HandOver
    <2>2. TypeOK'
      BY <2>1 DEF TypeOK
    <2>3. WaiterStates'
      BY <2>1, <1>2 DEF TypeOK, WaiterStates
    <2>4. \A q \in Callers : ~Owns(q)'
      BY <2>1, <1>1, <1>2 DEF TypeOK, Owns
    <2> QED
      BY <2>1, <2>2, <2>3, <2>4, <1>4 DEF OneOwner, NotLost, NoneStranded
  <1>5. CASE waiters # << >>
    <2> DEFINE h == Head(waiters)
    <2>1. /\ waiters' = Tail(waiters)
          /\ ready' = ready \cup {h}
          /\ held' = held
      BY <1>5 DEF HandOver
    <2>2. waiters \in Seq(Callers) /\ IsInjective(waiters)
      BY DEF TypeOK, WaiterStates
    <2>3. /\ h \in Callers
          /\ h \in Range(waiters)
          /\ waiters' \in Seq(Callers)
          /\ Len(waiters') = Len(waiters) - 1
          /\ IsInjective(waiters')
          /\ \A q : q \in Range(waiters') <=> q \in Range(waiters) /\ q # h
      BY <2>1, <2>2, <1>5, TailQueue
    <2> HIDE DEF h
    <2>4. TypeOK'
      BY <2>1, <2>2, <2>3, GateAssumption DEF TypeOK
    <2>5. WaiterStates'
      BY <2>1, <2>3, <1>2 DEF TypeOK, WaiterStates
    <2>6. h # p /\ pc[h] \in Waiting
      BY <2>3, <1>2 DEF WaiterStates
    <2>7. \A q \in Callers : Owns(q)' <=> q = h
      BY <2>1, <2>3, <2>6, <1>1 DEF TypeOK, Owns
    <2> QED
      BY <2>1, <2>3, <2>4, <2>5, <2>7, <1>3 DEF OneOwner, NotLost, NoneStranded
  <1> QED
    BY <1>4, <1>5

\* The steps that touch neither the queue nor held, and change whose turn it is
\* to act without changing who owns the gate.
LEMMA GateLocal ==
  ASSUME GateInv, NEW p \in Callers,
         \/ SelectReady(p) \/ SelectDone(p) \/ CheckContext(p)
         \/ AbortGranted(p) \/ AcquireFull(p) \/ Cancel(p)
  PROVE  GateInv' /\ \A q \in Callers : Owns(q)' <=> Owns(q)
  <1> USE DEF GateInv
  <1>1. waiters' = waiters /\ held' = held
    BY DEF SelectReady, SelectDone, CheckContext, AbortGranted, AcquireFull, Cancel
  <1>2. TypeOK'
    BY DEF TypeOK, SelectReady, SelectDone, CheckContext, AbortGranted,
           AcquireFull, Cancel
  <1>3. WaiterStates' /\ \A q \in Callers : Owns(q)' <=> Owns(q)
    <2>1. CASE SelectReady(p)
      BY <2>1 DEF TypeOK, WaiterStates, Owns, SelectReady
    <2>2. CASE SelectDone(p)
      BY <2>2 DEF TypeOK, WaiterStates, Owns, SelectDone
    <2>3. CASE CheckContext(p)
      BY <2>3 DEF TypeOK, WaiterStates, Owns, CheckContext
    <2>4. CASE AbortGranted(p)
      BY <2>4 DEF TypeOK, WaiterStates, Owns, AbortGranted
    <2>5. CASE AcquireFull(p)
      BY <2>5 DEF TypeOK, WaiterStates, Owns, AcquireFull
    <2>6. CASE Cancel(p)
      BY <2>6 DEF TypeOK, WaiterStates, Owns, Cancel
    <2> QED
      BY <2>1, <2>2, <2>3, <2>4, <2>5, <2>6
  <1>4. (OneOwner /\ NotLost /\ NoneStranded)'
    BY <1>1, <1>3 DEF OneOwner, NotLost, NoneStranded
  <1> QED
    BY <1>2, <1>3, <1>4

\* Every step of the gate keeps the invariant.
LEMMA GateStep == GateInv /\ [Next]_vars => GateInv'
  <1> SUFFICES ASSUME GateInv, [Next]_vars PROVE GateInv'
    OBVIOUS
  <1>1. CASE UNCHANGED vars
    BY <1>1 DEF vars, GateInv, TypeOK, WaiterStates, OneOwner, NotLost,
                NoneStranded, Owns
  <1>2. ASSUME NEW p \in Callers, AcquireFree(p) PROVE GateInv'
    BY <1>2, GateAcquireFree
  <1>3. ASSUME NEW p \in Callers, AcquireQueued(p) PROVE GateInv'
    BY <1>3, GateAcquireQueued
  <1>4. ASSUME NEW p \in Callers, AbortQueued(p) PROVE GateInv'
    BY <1>4, GateAbortQueued
  <1>5. ASSUME NEW p \in Callers, GiveBack(p) PROVE GateInv'
    BY <1>5, GateHandOver DEF GiveBack
  <1>6. ASSUME NEW p \in Callers, Release(p) PROVE GateInv'
    BY <1>6, GateHandOver DEF Release
  <1>7. ASSUME NEW p \in Callers,
               \/ SelectReady(p) \/ SelectDone(p) \/ CheckContext(p)
               \/ AbortGranted(p) \/ AcquireFull(p) \/ Cancel(p)
        PROVE  GateInv'
    BY <1>7, GateLocal
  <1> QED
    BY <1>1, <1>2, <1>3, <1>4, <1>5, <1>6, <1>7 DEF Next, Proceed

\* GateInv is an invariant of the gate, for any callers and any bound.
THEOREM GateInvariance == Spec => []GateInv
  BY GateInit, GateStep, PTL DEF Spec

\* The gate has at most one owner, is held exactly while it has one, and
\* nobody queues at a free gate (acquire and release of fifoGate).
THEOREM GateSafety == Spec => []GateSafe
  <1>1. GateInv => GateSafe
    BY DEF GateInv, GateSafe
  <1> QED
    BY <1>1, GateInvariance, PTL

\* Queue bound and types (maxWaiters of fifoGate).
THEOREM GateTypes == Spec => []TypeOK
  <1>1. GateInv => TypeOK
    BY DEF GateInv
  <1> QED
    BY <1>1, GateInvariance, PTL
-----------------------------------------------------------------------------
(* The gate implements the abstract lock.                                  *)

\* The owner of the abstract lock is the one caller that owns the gate.
LEMMA OwnerIs ==
  ASSUME GateInv
  PROVE  /\ \A p \in Callers : Owns(p) => Owner = p
         /\ ~held => Owner = None
         /\ held => Owner \in Callers /\ Owns(Owner)
  BY DEF GateInv, OneOwner, NotLost, Owner

\* The same in the next state.
LEMMA NextOwnerIs ==
  ASSUME GateInv', NEW p \in Callers, Owns(p)'
  PROVE  Owner' = p
  BY DEF GateInv, OneOwner, Owner

\* A step after which the same callers own the gate keeps the abstract owner.
LEMMA SameOwner ==
  ASSUME \A q \in Callers : Owns(q)' <=> Owns(q)
  PROVE  Owner' = Owner
  BY DEF Owner

\* A gate nobody has used is a free lock.
LEMMA LockInit == Init => Lock!Init
  BY DEF Init, Owner, Owns, Lock!Init, Lock!Free

\* Every step of the gate is a step of the lock or leaves it alone.
LEMMA LockStep ==
  GateInv /\ GateInv' /\ [Next]_vars
    => [Lock!Next]_[owner |-> Owner, queue |-> waiters]
  <1> DEFINE L == [owner |-> Owner, queue |-> waiters]
  <1> SUFFICES ASSUME GateInv, GateInv', [Next]_vars
               PROVE  Lock!Next \/ L' = L
    OBVIOUS
  <1>0. /\ waiters \in Seq(Callers)
        /\ \A p : p \in Lock!Queued(L) <=> p \in Range(waiters)
    BY DEF GateInv, TypeOK, Lock!Queued, Lock!Range, Range
  <1>1. CASE UNCHANGED vars
    BY <1>1 DEF vars, Owner, Owns
  <1>2. ASSUME NEW p \in Callers, AcquireFree(p) PROVE Lock!Next
    <2>1. Owner = None /\ Owner' = p
      <3>1. Owns(p)'
        BY <1>2 DEF AcquireFree, Owns, GateInv, TypeOK
      <3> QED
        BY <3>1, <1>2, OwnerIs, NextOwnerIs DEF AcquireFree
    <2>2. L.owner = None /\ L' = Lock!Grab(L, p)
      BY <2>1, <1>2 DEF AcquireFree, Lock!Grab
    <2> QED
      BY <2>2 DEF Lock!Next
  <1>3. ASSUME NEW p \in Callers, AcquireQueued(p) PROVE Lock!Next
    <2>1. ~Owns(p) /\ p \notin Range(waiters) /\ held
      BY <1>3 DEF AcquireQueued, Owns, GateInv, WaiterStates, TypeOK
    <2>2. \A q \in Callers : Owns(q)' <=> Owns(q)
      BY <1>3, <2>1 DEF AcquireQueued, Owns, GateInv, WaiterStates, TypeOK
    <2>3. Owner \notin {None, p} /\ Owner' = Owner
      BY <2>1, <2>2, OwnerIs, SameOwner, GateAssumption
    <2>4. L' = Lock!Join(L, p) /\ Len(L.queue) < MaxWaiters
      BY <2>3, <1>3 DEF AcquireQueued, Lock!Join
    <2> QED
      BY <2>1, <2>3, <2>4, <1>0 DEF Lock!Next
  <1>4. ASSUME NEW p \in Callers, AbortQueued(p) PROVE Lock!Next
    <2>1. p \in Range(waiters) /\ p \notin ready
      BY <1>4 DEF AbortQueued, GateInv, WaiterStates
    <2>2. \A q \in Callers : Owns(q)' <=> Owns(q)
      BY <1>4, <2>1 DEF AbortQueued, Owns, GateInv, TypeOK
    <2>3. L' = Lock!Leave(L, p)
      BY <2>2, <1>4, SameOwner
      DEF AbortQueued, Lock!Leave, Lock!Without, Without,
          Lock!Position, Position
    <2> QED
      BY <2>1, <2>3, <1>0 DEF Lock!Next
  <1>5. ASSUME NEW p \in Callers, NEW to \in Outside,
               pc[p] \in {"in", "releasing"}, HandOver, Goto(p, to)
        PROVE  Lock!Next
    <2>1. Owner # None
      BY <1>5, OwnerIs, GateAssumption DEF Owns
    <2>2. p \notin ready /\ p \notin Range(waiters)
      BY <1>5 DEF GateInv, WaiterStates, TypeOK
    <2>3. CASE waiters = << >>
      <3>1. Owner' = None
        BY <2>3, <1>5, OwnerIs DEF HandOver, GateInv, NotLost, Owner
      <3> QED
        BY <2>1, <2>3, <3>1, <1>5 DEF Lock!Next, Lock!Pass, Lock!Free, HandOver
    <2>4. CASE waiters # << >>
      <3>1. Head(waiters) \in Callers /\ Head(waiters) \in Range(waiters)
        BY <2>4, <1>0, TailQueue DEF GateInv, WaiterStates
      <3>2. pc[Head(waiters)] \in Waiting /\ Head(waiters) # p
        BY <3>1, <2>2 DEF GateInv, WaiterStates
      <3>3. PICK h \in Callers : h = Head(waiters)
        BY <3>1
      <3>4. Owner' = h
        <4>1. h \in ready' /\ pc'[h] = pc[h]
          BY <3>2, <3>3, <2>4, <1>5 DEF HandOver, GateInv, TypeOK
        <4>2. Owns(h)'
          BY <4>1, <3>2, <3>3 DEF Owns
        <4> QED
          BY <4>2, NextOwnerIs
      <3>5. L' = Lock!Pass(L)
        BY <3>3, <3>4, <2>4, <1>5 DEF HandOver, Lock!Pass
      <3> QED
        BY <2>1, <3>5 DEF Lock!Next
    <2> QED
      BY <2>3, <2>4
  <1>6. ASSUME NEW p \in Callers,
               \/ SelectReady(p) \/ SelectDone(p) \/ CheckContext(p)
               \/ AbortGranted(p) \/ AcquireFull(p) \/ Cancel(p)
        PROVE  L' = L
    <2>1. waiters' = waiters
      BY <1>6 DEF SelectReady, SelectDone, CheckContext, AbortGranted,
                  AcquireFull, Cancel
    <2>2. Owner' = Owner
      BY <1>6, GateLocal, SameOwner
    <2> QED
      BY <2>1, <2>2
  <1> HIDE DEF L
  <1> QED
    BY <1>1, <1>2, <1>3, <1>4, <1>5, <1>6 DEF Next, Proceed, GiveBack, Release

\* The gate implements the FIFO lock: it is handed over in the order in which
\* callers queued, and queued callers may leave at any time.
THEOREM GateImplementsLock == Spec => LockSpec
  BY GateInvariance, LockInit, LockStep, PTL DEF Spec, LockSpec, Lock!Spec

HIDE DEF InQueue, Outside, Waiting, Places, Goto

-----------------------------------------------------------------------------
(* The invalid-request guard                                               *)

USE GuardAssumption

\* A sequence of numbers, its length and its elements.
LEMMA SeqFacts ==
  ASSUME NEW s \in Seq(Nat)
  PROVE  Len(s) \in Nat /\ \A i \in 1..Len(s) : s[i] \in Nat
OBVIOUS

\* Appending a stamp.
LEMMA AppendFacts ==
  ASSUME NEW s \in Seq(Nat), NEW t \in Nat
  PROVE  /\ Append(s, t) \in Seq(Nat) /\ Len(Append(s, t)) = Len(s) + 1
         /\ \A i \in 1..Len(s) : Append(s, t)[i] = s[i]
         /\ Append(s, t)[Len(s) + 1] = t
OBVIOUS

\* Dropping the first k stamps.
LEMMA DropFacts ==
  ASSUME NEW s \in Seq(Nat), NEW k \in 0..Len(s)
  PROVE  /\ SubSeq(s, k + 1, Len(s)) \in Seq(Nat)
         /\ Len(SubSeq(s, k + 1, Len(s))) = Len(s) - k
         /\ \A i \in 1..Len(s) - k : SubSeq(s, k + 1, Len(s))[i] = s[k + i]
<1>1. Len(s) \in Nat /\ k \in Nat
  BY SeqFacts
<1>2. \A i \in k + 1..Len(s) : s[i] \in Nat
  BY <1>1, SeqFacts
<1>3. /\ SubSeq(s, k + 1, Len(s)) \in Seq(Nat)
      /\ Len(SubSeq(s, k + 1, Len(s))) = IF k + 1 <= Len(s) THEN Len(s) - (k + 1) + 1 ELSE 0
      /\ \A i \in 1..Len(s) - (k + 1) + 1 : SubSeq(s, k + 1, Len(s))[i] = s[(k + 1) + i - 1]
  BY <1>1, <1>2
<1> QED BY <1>1, <1>3

\* prune keeps the stamps from the first unexpired one on, compacted or not.
LEMMA PruneKeeps ==
  ASSUME NEW ts \in Seq(Nat), head \in 0..Len(ts), NEW t \in Nat, Prune(ts, t)
  PROVE  \E k \in head..Len(ts) :
           /\ \A i \in head + 1..k : ts[i] <= t - Window
           /\ k < Len(ts) => ts[k + 1] > t - Window
           /\ timestamps' \in Seq(Nat) /\ head' \in 0..Len(timestamps')
           /\ Retained' = Len(ts) - k
           /\ \A i \in 1..Len(ts) - k : timestamps'[head' + i] = ts[k + i]
<1>1. Len(ts) \in Nat /\ head \in Nat
  BY SeqFacts
<1>2. PICK k \in head..Len(ts) :
        /\ \A i \in head + 1..k : ts[i] <= t - Window
        /\ k < Len(ts) => ts[k + 1] > t - Window
        /\ \/ timestamps' = SubSeq(ts, k + 1, Len(ts)) /\ head' = 0
           \/ timestamps' = ts /\ head' = k
  BY DEF Prune
<1>3. k \in 0..Len(ts) /\ k \in Nat
  BY <1>1
<1>4. /\ timestamps' \in Seq(Nat) /\ head' \in 0..Len(timestamps')
      /\ Len(timestamps') - head' = Len(ts) - k
      /\ \A i \in 1..Len(ts) - k : timestamps'[head' + i] = ts[k + i]
  <2>1. CASE timestamps' = SubSeq(ts, k + 1, Len(ts)) /\ head' = 0
    <3>1. /\ timestamps' \in Seq(Nat) /\ Len(timestamps') = Len(ts) - k
          /\ \A i \in 1..Len(ts) - k : timestamps'[i] = ts[k + i]
      BY <2>1, <1>3, DropFacts
    <3>2. \A i \in 1..Len(ts) - k : head' + i = i
      BY <2>1, <1>1, <1>3
    <3>3. \A i \in 1..Len(ts) - k : timestamps'[head' + i] = ts[k + i]
      BY <3>1, <3>2
    <3>4. Len(timestamps') \in Nat /\ head' \in 0..Len(timestamps')
          /\ Len(timestamps') - head' = Len(ts) - k
      BY <1>1, <1>3, <2>1, <3>1
    <3> QED BY <3>1, <3>3, <3>4
  <2>2. CASE timestamps' = ts /\ head' = k
    BY <2>2, <1>1, <1>3
  <2> QED BY <1>2, <2>1, <2>2
<1> QED BY <1>2, <1>4 DEF Retained

-----------------------------------------------------------------------------
(* Stamps and log as arrays: n stamps with the head at h, l log entries of  *)
(* which d were dropped, e = 0 or 1 new ones; prune moves the head to k.    *)

\* s2 is s with its m elements, and t after them when e = 1.
Extended(s, s2, m, e, t) ==
  /\ \A i \in 1..m : s2[i] = s[i]
  /\ e = 1 => s2[m + 1] = t

\* The m elements of s after h are those of u after d.
SameTail(s, h, u, d, m) == \A i \in 1..m : s[h + i] = u[d + i]

\* All elements of s from a to b are at most x, respectively above x.
NotAbove(s, a, b, x) == \A i \in a..b : s[i] <= x
Above(s, a, b, x) == \A i \in a..b : s[i] > x

\* s has m elements, all numbers.
Numbers(s, m) == \A i \in 1..m : s[i] \in Nat

\* Among the first m elements of s none is more than MaxLag behind an earlier one.
Lag(s, m) == \A i, j \in 1..m : i <= j => s[j] >= s[i] - MaxLag

\* The stamps past the head, then e more, are the log's last ones.
LEMMA Aligned ==
  ASSUME NEW n \in Nat, NEW l \in Nat, NEW h \in Nat, NEW d \in Nat, NEW e \in Nat,
         NEW m \in Nat, m = n + e, h <= n, d = l - (n - h), e = 0 \/ e = 1, NEW t,
         NEW old, NEW ts, NEW lg, NEW lg2,
         Extended(old, ts, n, e, t), Extended(lg, lg2, l, e, t), SameTail(old, h, lg, d, n - h)
  PROVE  SameTail(ts, h, lg2, d, m - h)
<1> SUFFICES ASSUME NEW i \in 1..m - h PROVE ts[h + i] = lg2[d + i]
  BY DEF SameTail
<1>1. i \in Nat /\ i >= 1 /\ (i <= n - h \/ (e = 1 /\ i = n + 1 - h))
  OBVIOUS
<1>2. CASE i <= n - h
  <2>1. h + i \in 1..n /\ d + i \in 1..l /\ i \in 1..n - h
    BY <1>1, <1>2
  <2> QED BY <2>1 DEF Extended, SameTail
<1>3. CASE e = 1 /\ i = n + 1 - h
  <2>1. h + i = n + 1 /\ d + i = l + 1
    BY <1>3
  <2> QED BY <2>1, <1>3 DEF Extended
<1> QED BY <1>1, <1>2, <1>3

\* Moving the head to k keeps them aligned.
LEMMA Realigned ==
  ASSUME NEW h \in Nat, NEW d \in Nat, NEW k \in Nat, NEW m \in Nat, h <= k, k <= m,
         NEW ts, NEW lg, NEW new, NEW g,
         SameTail(ts, h, lg, d, m - h), SameTail(new, g, ts, k, m - k)
  PROVE  SameTail(new, g, lg, d + (k - h), m - k)
<1> SUFFICES ASSUME NEW i \in 1..m - k PROVE new[g + i] = lg[d + (k - h) + i]
  BY DEF SameTail
<1>1. (k - h) + i \in 1..m - h /\ h + ((k - h) + i) = k + i /\ d + ((k - h) + i) = d + (k - h) + i
  OBVIOUS
<1>2. ts[h + ((k - h) + i)] = lg[d + ((k - h) + i)]
  BY <1>1 DEF SameTail
<1>3. new[g + i] = ts[k + i]
  BY DEF SameTail
<1> QED BY <1>1, <1>2, <1>3

\* What is dropped has left the window.
LEMMA DroppedOld ==
  ASSUME NEW h \in Nat, NEW d \in Nat, NEW k \in Nat, NEW m \in Nat, h <= k, k <= m,
         NEW l \in Nat, d <= l, NEW e, NEW x,
         NEW u \in Nat, NEW t \in Nat, t <= u,
         NEW ts, NEW lg, NEW lg2,
         SameTail(ts, h, lg2, d, m - h), Extended(lg, lg2, l, e, x), Numbers(ts, m),
         NotAbove(lg, 1, d, u - Window), NotAbove(ts, h + 1, k, t - Window)
  PROVE  NotAbove(lg2, 1, d + (k - h), u - Window)
<1> SUFFICES ASSUME NEW i \in 1..d + (k - h) PROVE lg2[i] <= u - Window
  BY DEF NotAbove
<1>1. CASE i <= d
  <2>1. i \in 1..d /\ i \in 1..l
    BY <1>1
  <2> QED BY <2>1 DEF NotAbove, Extended
<1>2. CASE i > d
  <2>1. PICK j \in Nat : j = i - d
    BY <1>2
  <2>2. j \in 1..m - h /\ h + j \in h + 1..k /\ h + j \in 1..m /\ d + j = i
    BY <1>2, <2>1
  <2>3. lg2[i] = ts[h + j] /\ ts[h + j] <= t - Window /\ ts[h + j] \in Nat
    BY <2>2 DEF SameTail, NotAbove, Numbers
  <2>4. PICK y \in Nat : y = ts[h + j]
    BY <2>3
  <2>5. y <= u - Window
    BY <2>3, <2>4
  <2> QED BY <2>3, <2>4, <2>5
<1> QED BY <1>1, <1>2

\* A stamp read at most MaxLag ago keeps the log's lag bounded.
LEMMA LagKept ==
  ASSUME NEW l \in Nat, NEW e \in Nat, e = 0 \/ e = 1,
         NEW u \in Nat, NEW t \in Nat, t <= u, u - t <= MaxLag,
         NEW lg, NEW lg2, Extended(lg, lg2, l, e, t), Numbers(lg, l),
         Lag(lg, l), NotAbove(lg, 1, l, u)
  PROVE  Lag(lg2, l + e) /\ NotAbove(lg2, 1, l + e, u)
<1> SUFFICES ASSUME NEW i \in 1..l + e, NEW j \in 1..l + e, i <= j
             PROVE  lg2[j] >= lg2[i] - MaxLag /\ lg2[i] <= u
  BY DEF Lag, NotAbove
<1>1. \/ i \in 1..l /\ j \in 1..l
      \/ i \in 1..l /\ j = l + 1 /\ e = 1
      \/ i = l + 1 /\ j = l + 1 /\ e = 1
  OBVIOUS
<1>2. CASE i \in 1..l /\ j \in 1..l
  BY <1>2 DEF Lag, NotAbove, Extended
<1>3. CASE i \in 1..l /\ j = l + 1 /\ e = 1
  <2>1. lg[i] \in Nat /\ lg2[i] = lg[i] /\ lg[i] <= u /\ lg2[j] = t
    BY <1>3 DEF NotAbove, Extended, Numbers
  <2> QED BY <2>1
<1>4. CASE i = l + 1 /\ j = l + 1 /\ e = 1
  <2>1. lg2[i] = t /\ lg2[j] = t
    BY <1>4 DEF Extended
  <2> QED BY <2>1
<1> QED BY <1>1, <1>2, <1>3, <1>4

\* What remains after pruning at a new latest time t has not outlived t's window
\* by more than the lag: the first remaining stamp is in the window.
LEMMA PrunedFresh ==
  ASSUME NEW m \in Nat, NEW k \in Nat, k <= m, NEW c \in Nat, NEW t \in Nat,
         NEW ts, NEW lg2, Numbers(ts, m),
         k < m => ts[k + 1] > t - Window,
         SameTail(ts, k, lg2, c, m - k), Lag(lg2, c + (m - k))
  PROVE  Above(ts, k + 1, m, t - Window - MaxLag)
<1> SUFFICES ASSUME NEW x \in k + 1..m PROVE ts[x] > t - Window - MaxLag
  BY DEF Above
<1>1. PICK i \in Nat : i = x - k
  OBVIOUS
<1>2. i \in 1..m - k /\ 1 \in 1..m - k /\ k + i = x /\ x \in 1..m /\ k + 1 \in 1..m /\ k < m
  BY <1>1
<1>3. c + 1 \in 1..c + (m - k) /\ c + i \in 1..c + (m - k) /\ c + 1 <= c + i
  BY <1>2
<1>4. lg2[c + i] >= lg2[c + 1] - MaxLag
  BY <1>3 DEF Lag
<1>5. lg2[c + i] = ts[k + i] /\ lg2[c + 1] = ts[k + 1]
  BY <1>2 DEF SameTail
<1>6. ts[x] \in Nat /\ ts[k + 1] \in Nat /\ ts[k + 1] > t - Window /\ ts[x] >= ts[k + 1] - MaxLag
  BY <1>2, <1>4, <1>5 DEF Numbers
<1>7. PICK a \in Nat, b \in Nat : a = ts[x] /\ b = ts[k + 1]
  BY <1>6
<1> QED BY <1>6, <1>7

\* At an older time the new stamp is recent enough by itself.
LEMMA OldFresh ==
  ASSUME NEW n \in Nat, NEW e \in Nat, e = 0 \/ e = 1, NEW h \in Nat, NEW k \in Nat,
         h <= k, k <= n + e,
         NEW u \in Nat, NEW t \in Nat, u - t <= MaxLag, NEW s \in Nat, s <= u,
         NEW old, NEW ts, Extended(old, ts, n, e, t),
         Above(old, h + 1, n, s - Window - MaxLag)
  PROVE  Above(ts, k + 1, n + e, s - Window - MaxLag)
<1> SUFFICES ASSUME NEW x \in k + 1..n + e PROVE ts[x] > s - Window - MaxLag
  BY DEF Above
<1>1. CASE x <= n
  <2>1. x \in h + 1..n /\ x \in 1..n
    BY <1>1
  <2> QED BY <2>1 DEF Above, Extended
<1>2. CASE x > n
  <2>1. e = 1 /\ x = n + 1
    BY <1>2
  <2>2. ts[x] = t
    BY <2>1 DEF Extended
  <2> QED BY <2>2
<1> QED BY <1>1, <1>2

\* The elements after the head, counted from it.
LEMMA AboveTail ==
  ASSUME NEW m \in Nat, NEW k \in Nat, k <= m, NEW g \in Nat, NEW r \in Nat, r - g = m - k,
         NEW ts, NEW new, NEW x, SameTail(new, g, ts, k, m - k), Above(ts, k + 1, m, x)
  PROVE  Above(new, g + 1, r, x)
<1> SUFFICES ASSUME NEW i \in g + 1..r PROVE new[i] > x
  BY DEF Above
<1>1. PICK j \in Nat : j = i - g
  OBVIOUS
<1>2. j \in 1..m - k /\ g + j = i /\ k + j \in k + 1..m
  BY <1>1
<1> QED BY <1>2 DEF SameTail, Above

-----------------------------------------------------------------------------
(* The inductive invariant                                                 *)

\* The initial state satisfies the invariant.
LEMMA GuardStart == GuardInit => GuardInv
<1> SUFFICES ASSUME GuardInit PROVE GuardInv
  OBVIOUS
<1>1. Len(timestamps) = 0 /\ Len(log) = 0 /\ << >> \in Seq(Nat)
  BY DEF GuardInit
<1>2. GuardTypeOK
  BY <1>1 DEF GuardInit, GuardTypeOK
<1>3. WithinLimit /\ Agrees
  BY <1>1 DEF GuardInit, WithinLimit, Agrees, Retained, Dropped
<1>4. Lagging /\ NoOverstay
  BY <1>1 DEF GuardInit, Lagging, NoOverstay
<1> QED BY <1>2, <1>3, <1>4 DEF GuardInv

\* One critical section: e stamps (none or one) enter at the end, then prune(t).
LEMMA GuardSection ==
  ASSUME GuardInv, NEW t \in Readings, NEW e \in {0, 1}, NEW ts \in Seq(Nat),
         Len(ts) = Len(timestamps) + e,
         \A i \in 1..Len(timestamps) : ts[i] = timestamps[i],
         log' \in Seq(Nat), Len(log') = Len(log) + e,
         \A i \in 1..Len(log) : log'[i] = log[i],
         e = 1 => ts[Len(timestamps) + 1] = t /\ log'[Len(log) + 1] = t,
         Prune(ts, t), UNCHANGED now
  PROVE  /\ timestamps' \in Seq(Nat) /\ head' \in 0..Len(timestamps')
         /\ seen' \in 0..now'
         /\ Agrees' /\ Lagging' /\ NoOverstay'
         /\ Retained' \in Nat /\ Retained' <= Retained + e
<1> DEFINE n == Len(timestamps)
           l == Len(log)
           d == Dropped
<1> USE DEF GuardInv
<1>1. /\ n \in Nat /\ l \in Nat /\ d \in Nat /\ head \in Nat /\ head <= n
      /\ d = l - (n - head) /\ d <= l /\ Retained = n - head
  BY SeqFacts DEF GuardTypeOK, Agrees, Dropped, Retained
<1>2. /\ now \in Nat /\ seen \in Nat /\ seen <= now
      /\ t \in Nat /\ t <= now /\ now - t <= MaxLag
  BY DEF GuardTypeOK, Readings
<1>3. e \in Nat /\ (e = 0 \/ e = 1) /\ head \in 0..Len(ts)
  BY <1>1
<1>4. Numbers(ts, n + e) /\ Numbers(log, l)
  BY SeqFacts DEF GuardTypeOK, Numbers
<1>5. Extended(timestamps, ts, n, e, t) /\ Extended(log, log', l, e, t)
  BY DEF Extended
<1>6. SameTail(timestamps, head, log, d, n - head) /\ NotAbove(log, 1, d, now - Window)
  BY <1>1 DEF Agrees, SameTail, NotAbove
<1>7. Lag(log, l) /\ NotAbove(log, 1, l, now)
  BY <1>1 DEF Lagging, Lag, NotAbove
<1>8. Above(timestamps, head + 1, n, seen - Window - MaxLag)
  BY DEF NoOverstay, Above
<1>9. PICK k \in head..Len(ts) :
        /\ \A i \in head + 1..k : ts[i] <= t - Window
        /\ k < Len(ts) => ts[k + 1] > t - Window
        /\ timestamps' \in Seq(Nat) /\ head' \in 0..Len(timestamps')
        /\ Retained' = Len(ts) - k
        /\ \A i \in 1..Len(ts) - k : timestamps'[head' + i] = ts[k + i]
  BY <1>2, <1>3, PruneKeeps
<1> DEFINE m == n + e
           c == d + (k - head)
           r == Len(timestamps')
<1>10. Len(ts) = m /\ Len(log') = l + e /\ m = n + e
  OBVIOUS
<1>11. k \in Nat /\ head <= k /\ k <= m /\ m \in Nat /\ Retained' = m - k
       /\ (k < m => ts[k + 1] > t - Window) /\ c \in Nat
  BY <1>1, <1>3, <1>9, <1>10
<1>12. NotAbove(ts, head + 1, k, t - Window) /\ SameTail(timestamps', head', ts, k, m - k)
  BY <1>9, <1>10 DEF NotAbove, SameTail
<1>13. r \in Nat /\ head' \in Nat /\ r - head' = m - k
  BY <1>9, <1>11, SeqFacts DEF Retained
<1>14. Dropped' = c /\ c + (m - k) = l + e
  BY <1>1, <1>3, <1>10, <1>11 DEF Dropped
<1> HIDE DEF n, l, d, r
<1> HIDE DEF m
<1>15. SameTail(ts, head, log', d, m - head)
  BY ONLY <1>1, <1>3, <1>5, <1>6, <1>10, <1>11, Aligned
<1>16. SameTail(timestamps', head', log', c, m - k)
  BY <1>1, <1>11, <1>12, <1>15, Realigned
<1>17. NotAbove(log', 1, c, now - Window)
  BY <1>1, <1>2, <1>4, <1>5, <1>6, <1>11, <1>12, <1>15, DroppedOld DEF m
<1> HIDE DEF c
<1>18. Lag(log', l + e) /\ NotAbove(log', 1, l + e, now)
  BY <1>1, <1>2, <1>3, <1>4, <1>5, <1>7, LagKept
<1>19. Agrees' /\ Lagging'
  BY <1>10, <1>11, <1>14, <1>16, <1>17, <1>18 DEF Agrees, Lagging, SameTail, NotAbove, Lag
<1>20. seen' \in 0..now' /\ (t > seen => seen' = t) /\ (~(t > seen) => seen' = seen)
  BY <1>2 DEF Prune
<1>21. SameTail(ts, k, log', c, m - k)
  BY <1>12, <1>16 DEF SameTail
<1>22. Above(ts, k + 1, m, seen' - Window - MaxLag)
  <2>1. CASE t > seen
    <3>1. Lag(log', c + (m - k)) /\ Numbers(ts, m)
      BY <1>4, <1>14, <1>18 DEF m
    <3>2. Above(ts, k + 1, m, t - Window - MaxLag)
      BY <1>2, <1>11, <1>21, <3>1, PrunedFresh
    <3> QED BY <1>20, <2>1, <3>2
  <2>2. CASE ~(t > seen)
    <3>1. Above(ts, k + 1, m, seen - Window - MaxLag)
      BY <1>1, <1>2, <1>3, <1>5, <1>8, <1>11, OldFresh DEF m
    <3> QED BY <1>20, <2>2, <3>1
  <2> QED BY <2>1, <2>2
<1>23. Above(timestamps', head' + 1, r, seen' - Window - MaxLag)
  BY <1>11, <1>12, <1>13, <1>22, AboveTail
<1>24. NoOverstay'
  BY <1>23 DEF NoOverstay, Above, r
<1>25. Retained' \in Nat /\ Retained' <= Retained + e
  BY <1>1, <1>3, <1>11 DEF m
<1> QED BY <1>9, <1>19, <1>20, <1>24, <1>25

\* Every action preserves the invariant.
LEMMA GuardStep == GuardInv /\ [GuardNext]_guardVars => GuardInv'
<1> SUFFICES ASSUME GuardInv, [GuardNext]_guardVars PROVE GuardInv'
  OBVIOUS
<1>1. /\ timestamps \in Seq(Nat) /\ log \in Seq(Nat) /\ reserved \in Nat /\ now \in Nat
      /\ Len(timestamps) \in Nat /\ Len(log) \in Nat /\ head \in 0..Len(timestamps)
      /\ Retained \in Nat /\ Retained + reserved <= Limit
  BY SeqFacts DEF GuardInv, GuardTypeOK, WithinLimit, Retained
<1>2. ASSUME NEW t \in Readings, Prune(timestamps, t), log' = log, now' = now
      PROVE  /\ timestamps' \in Seq(Nat) /\ head' \in 0..Len(timestamps')
             /\ seen' \in 0..now' /\ Agrees' /\ Lagging' /\ NoOverstay'
             /\ Retained' \in Nat /\ Retained' <= Retained
  <2>1. /\ Len(timestamps) = Len(timestamps) + 0 /\ Len(log') = Len(log) + 0
        /\ \A i \in 1..Len(timestamps) : timestamps[i] = timestamps[i]
        /\ \A i \in 1..Len(log) : log'[i] = log[i]
        /\ log' \in Seq(Nat) /\ 0 \in {0, 1} /\ ~(0 = 1)
    BY <1>1, <1>2
  <2>2. /\ timestamps' \in Seq(Nat) /\ head' \in 0..Len(timestamps')
        /\ seen' \in 0..now' /\ Agrees' /\ Lagging' /\ NoOverstay'
        /\ Retained' \in Nat /\ Retained' <= Retained + 0
    BY <1>1, <1>2, <2>1, GuardSection
  <2> QED BY <1>1, <2>2
<1>3. ASSUME NEW t \in Readings, Reserve(t) PROVE GuardInv'
  <2>1. Prune(timestamps, t) /\ log' = log /\ now' = now /\ reserved' = reserved + 1
        /\ Retained' + reserved < Limit
    BY <1>3 DEF Reserve, Retained
  <2>2. GuardTypeOK'
    BY <1>1, <1>2, <2>1 DEF GuardTypeOK
  <2>3. WithinLimit'
    BY <1>1, <1>2, <2>1 DEF WithinLimit
  <2> QED BY <1>2, <2>1, <2>2, <2>3 DEF GuardInv
<1>4. ASSUME NEW t \in Readings, Look(t) PROVE GuardInv'
  <2>1. Prune(timestamps, t) /\ log' = log /\ now' = now /\ reserved' = reserved
    BY <1>4 DEF Look
  <2>2. GuardTypeOK'
    BY <1>1, <1>2, <2>1 DEF GuardTypeOK
  <2>3. WithinLimit'
    BY <1>1, <1>2, <2>1 DEF WithinLimit
  <2> QED BY <1>2, <2>1, <2>2, <2>3 DEF GuardInv
<1>5. ASSUME NEW t \in Readings, Complete(t, FALSE) PROVE GuardInv'
  <2>1. Prune(timestamps, t) /\ log' = log /\ now' = now /\ reserved > 0 /\ reserved' = reserved - 1
    BY <1>5 DEF Complete
  <2>2. GuardTypeOK'
    BY <1>1, <1>2, <2>1 DEF GuardTypeOK
  <2>3. WithinLimit'
    BY <1>1, <1>2, <2>1 DEF WithinLimit
  <2> QED BY <1>2, <2>1, <2>2, <2>3 DEF GuardInv
<1>6. ASSUME NEW t \in Readings, Complete(t, TRUE) PROVE GuardInv'
  <2>1. Prune(Append(timestamps, t), t) /\ log' = Append(log, t) /\ now' = now
        /\ reserved > 0 /\ reserved' = reserved - 1
    BY <1>6 DEF Complete
  <2>2. t \in Nat
    BY <1>1 DEF Readings
  <2>3. /\ Append(timestamps, t) \in Seq(Nat)
        /\ Len(Append(timestamps, t)) = Len(timestamps) + 1
        /\ \A i \in 1..Len(timestamps) : Append(timestamps, t)[i] = timestamps[i]
        /\ Append(timestamps, t)[Len(timestamps) + 1] = t
    BY <1>1, <2>2, AppendFacts
  <2>4. /\ log' \in Seq(Nat) /\ Len(log') = Len(log) + 1
        /\ \A i \in 1..Len(log) : log'[i] = log[i]
        /\ log'[Len(log) + 1] = t
    BY <1>1, <2>1, <2>2, AppendFacts
  <2>5. PICK ts \in Seq(Nat) : ts = Append(timestamps, t)
    BY <2>3
  <2>6. /\ Len(ts) = Len(timestamps) + 1
        /\ \A i \in 1..Len(timestamps) : ts[i] = timestamps[i]
        /\ ts[Len(timestamps) + 1] = t /\ Prune(ts, t) /\ 1 \in {0, 1}
    BY <2>1, <2>3, <2>5
  <2>7. /\ timestamps' \in Seq(Nat) /\ head' \in 0..Len(timestamps')
        /\ seen' \in 0..now' /\ Agrees' /\ Lagging' /\ NoOverstay'
        /\ Retained' \in Nat /\ Retained' <= Retained + 1
    BY <2>1, <2>4, <2>6, GuardSection
  <2>8. GuardTypeOK'
    BY <1>1, <2>1, <2>4, <2>7 DEF GuardTypeOK
  <2>9. WithinLimit'
    <3>1. PICK x \in Nat, y \in Nat : x = Retained /\ y = Retained' /\ y <= x + 1
      BY <1>1, <2>7
    <3>2. PICK p \in Nat, q \in Nat : p = reserved /\ q = reserved' /\ p = q + 1
      BY <1>1, <2>1
    <3>3. x + p <= Limit
      BY <1>1, <3>1, <3>2
    <3>4. y <= x + 1 /\ p = q + 1
      BY <3>1, <3>2
    <3>5. y + q <= Limit
      BY ONLY x \in Nat, y \in Nat, p \in Nat, q \in Nat, <3>3, <3>4, GuardAssumption
    <3> QED BY <3>1, <3>2, <3>5 DEF WithinLimit
  <2> QED BY <2>7, <2>8, <2>9 DEF GuardInv
<1>7. CASE Tick
  <2>1. now' = now + 1 /\ UNCHANGED <<timestamps, head, reserved, log, seen>>
    BY <1>7 DEF Tick
  <2>2. GuardTypeOK'
    BY <1>1, <2>1 DEF GuardInv, GuardTypeOK
  <2>3. WithinLimit' /\ NoOverstay'
    BY <2>1 DEF GuardInv, WithinLimit, NoOverstay, Retained
  <2>4. Numbers(log, Len(log))
    BY <1>1, SeqFacts DEF Numbers
  <2>5. Lagging'
    <3>1. \A i \in 1..Len(log) : log[i] \in Nat
      BY <2>4 DEF Numbers
    <3> QED BY <1>1, <2>1, <3>1 DEF GuardInv, Lagging
  <2>6. Agrees'
    <3>1. Dropped \in Nat /\ Dropped <= Len(log) /\ Dropped' = Dropped /\ Retained' = Retained
      BY <1>1, <2>1 DEF GuardInv, Agrees, Dropped, Retained
    <3>2. ASSUME NEW i \in 1..Dropped PROVE log[i] <= now' - Window
      <4>1. log[i] <= now - Window /\ log[i] \in Nat
        BY <1>1, <2>4, <3>1 DEF GuardInv, Agrees, Numbers
      <4> QED BY <1>1, <2>1, <4>1
    <3> QED BY <2>1, <3>1, <3>2 DEF GuardInv, Agrees
  <2> QED BY <2>2, <2>3, <2>5, <2>6 DEF GuardInv
<1>8. CASE UNCHANGED guardVars
  BY <1>8 DEF guardVars, GuardInv, GuardTypeOK, WithinLimit, Agrees, Lagging, NoOverstay, Retained, Dropped
<1>9. CASE GuardNext
  <2>1. CASE \E t \in Readings : Reserve(t) \/ Look(t)
    BY <1>3, <1>4, <2>1
  <2>2. CASE \E t \in Readings, invalid \in BOOLEAN : Complete(t, invalid)
    BY <1>5, <1>6, <2>2
  <2> QED BY <1>7, <1>9, <2>1, <2>2 DEF GuardNext
<1> QED BY <1>8, <1>9

\* The responses in the window are among the last Retained entries of the log.
LEMMA WindowCounted == GuardInv => WindowBudget
<1> SUFFICES ASSUME GuardInv PROVE WindowBudget
  OBVIOUS
<1> DEFINE l == Len(log)
<1>1. /\ l \in Nat /\ Retained \in Nat /\ Dropped \in Nat /\ Dropped = l - Retained
      /\ reserved \in Nat /\ now \in Nat /\ Retained + reserved <= Limit
      /\ \A i \in 1..l : log[i] \in Nat
  BY SeqFacts DEF GuardInv, GuardTypeOK, WithinLimit, Agrees, Retained, Dropped
<1>2. InWindow \subseteq Dropped + 1..l
  <2> SUFFICES ASSUME NEW i \in InWindow PROVE i \in Dropped + 1..l
    OBVIOUS
  <2>1. i \in 1..l /\ log[i] > now - Window
    BY DEF InWindow
  <2>2. ~(i \in 1..Dropped)
    <3> SUFFICES ASSUME i \in 1..Dropped PROVE FALSE
      OBVIOUS
    <3>1. log[i] <= now - Window /\ log[i] \in Nat
      BY <1>1, <2>1 DEF GuardInv, Agrees
    <3> QED BY <1>1, <2>1, <3>1
  <2> QED BY <1>1, <2>1, <2>2
<1>3. /\ IsFiniteSet(Dropped + 1..l)
      /\ Cardinality(Dropped + 1..l) = IF Dropped + 1 > l THEN 0 ELSE l - (Dropped + 1) + 1
  <2>1. PICK a \in Int, b \in Int : a = Dropped + 1 /\ b = l
    BY <1>1
  <2>2. IsFiniteSet(a..b) /\ Cardinality(a..b) = IF a > b THEN 0 ELSE b - a + 1
    BY FS_Interval
  <2> QED BY <2>1, <2>2
<1>4. IsFiniteSet(InWindow) /\ Cardinality(InWindow) <= Cardinality(Dropped + 1..l)
  BY <1>2, <1>3, FS_Subset
<1>5. Cardinality(InWindow) \in Nat
  BY <1>4, FS_CardinalityType
<1>6. Cardinality(Dropped + 1..l) = Retained
  BY <1>1, <1>3
<1> QED BY <1>1, <1>4, <1>5, <1>6 DEF WindowBudget

-----------------------------------------------------------------------------
(* Theorems                                                                *)

\* The inductive invariant holds in every state.
THEOREM GuardInvariance == GuardSpec => []GuardInv
<1>1. GuardInit => GuardInv
  BY GuardStart
<1>2. GuardInv /\ [GuardNext]_guardVars => GuardInv'
  BY GuardStep
<1> QED BY <1>1, <1>2, PTL DEF GuardSpec

\* The guard's state keeps its types, its head never passes the end of its stamps
\* and its reservations are never returned twice.
THEOREM GuardTypes == GuardSpec => []GuardTypeOK
<1>1. GuardInv => GuardTypeOK
  BY DEF GuardInv
<1> QED BY <1>1, GuardInvariance, PTL

\* Retained stamps and reservations stay within the limit.
THEOREM GuardLimit == GuardSpec => []WithinLimit
<1>1. GuardInv => WithinLimit
  BY DEF GuardInv
<1> QED BY <1>1, GuardInvariance, PTL

\* The invalid responses of any window and the attempts in progress together
\* never exceed the limit, whatever the order of callers and the compaction.
THEOREM GuardWindow == GuardSpec => []WindowBudget
BY WindowCounted, GuardInvariance, PTL

\* No stamp is retained beyond the window by more than the callers' lag.
THEOREM GuardExpiry == GuardSpec => []NoOverstay
<1>1. GuardInv => NoOverstay
  BY DEF GuardInv
<1> QED BY <1>1, GuardInvariance, PTL

\* The nodes of a cluster that is not over its maximum have no more places
\* together than one process would, for every maximum that config.go allows.
THEOREM ClusterBudget ==
  ASSUME NEW total \in Nat \ {0}, NEW nodes \in 1..total, NEW n \in 0..nodes
  PROVE  n * NodeLimit(total, nodes) <= total
<1> DEFINE share == total \div nodes
<1>1. share \in Nat /\ share * nodes <= total
  OBVIOUS
<1>2. share >= 1
  OBVIOUS
<1>3. NodeLimit(total, nodes) = share
  BY <1>1, <1>2 DEF NodeLimit
<1> HIDE DEF share
<1>4. n * share <= nodes * share
  BY <1>1
<1>5. n * share \in Nat /\ nodes * share = share * nodes
  BY <1>1
<1> QED BY <1>1, <1>3, <1>4, <1>5

=============================================================================
