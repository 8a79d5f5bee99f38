------------------------------- MODULE FifoLock -------------------------------
(***************************************************************************)
(* What fifoGate promises its callers: a lock with one owner and a bounded *)
(* queue, handed over in arrival order, that a queued process may leave at *)
(* any time.                                                               *)
(***************************************************************************)
EXTENDS LockOps

CONSTANTS Callers,     \* the processes that use the lock
          MaxWaiters   \* the most processes that may be queued

VARIABLE lock

Init == lock = Free

Next ==
  \/ \E p \in Callers :
       \/ /\ lock.owner = None
          /\ lock' = Grab(lock, p)
       \/ /\ lock.owner \notin {None, p}
          /\ p \notin Queued(lock)
          /\ Len(lock.queue) < MaxWaiters
          /\ lock' = Join(lock, p)
       \/ /\ p \in Queued(lock)
          /\ lock' = Leave(lock, p)
  \/ /\ lock.owner # None
     /\ lock' = Pass(lock)

Spec == Init /\ [][Next]_lock
=============================================================================
