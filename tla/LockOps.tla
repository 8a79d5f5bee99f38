------------------------------- MODULE LockOps -------------------------------
(***************************************************************************)
(* The values a bounded FIFO lock goes through.  A lock is a record with   *)
(* the process that owns it and the processes queued behind the owner.     *)
(* FifoLock is the lock as a state machine, FifoGate is shown to implement *)
(* it, and the modules that hold many gates (one per rate-limit bucket)    *)
(* store one such record per gate.                                         *)
(***************************************************************************)
EXTENDS Naturals, Sequences, Functions

CONSTANT None          \* the owner of a free lock

Free == [owner |-> None, queue |-> << >>]

\* The place of p in a queue that holds it.
Position(s, p) == CHOOSE i \in 1..Len(s) : s[i] = p

\* A queue without the entry of p: list.Remove of a waiter's own element.
Without(s, p) == LET k == Position(s, p)
                 IN  SubSeq(s, 1, k - 1) \o SubSeq(s, k + 1, Len(s))

Queued(l) == Range(l.queue)

Grab(l, p)  == [owner |-> p, queue |-> l.queue]

Join(l, p)  == [owner |-> l.owner, queue |-> Append(l.queue, p)]

Leave(l, p) == [owner |-> l.owner, queue |-> Without(l.queue, p)]

\* The owner lets go: the lock goes straight to the head of the queue and is
\* free only if nobody waits.
Pass(l) == IF l.queue = << >>
           THEN Free
           ELSE [owner |-> Head(l.queue), queue |-> Tail(l.queue)]

-----------------------------------------------------------------------------

\* p owns the lock or waits for it.
Inside(l, p) == l.owner = p \/ p \in Queued(l)

\* A lock of the processes S: nobody is in it twice, and nobody waits for a free
\* one.
LockOK(l, S) ==
  /\ l.owner \in S \cup {None}
  /\ l.queue \in Seq(S)
  /\ IsInjective(l.queue)
  /\ l.owner \notin Queued(l)
  /\ l.owner = None => l.queue = << >>
=============================================================================
