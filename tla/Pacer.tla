-------------------------------- MODULE Pacer --------------------------------
(***************************************************************************)
(* pacer of internal/proxy/ratelimit.go: ordinary requests of a credential *)
(* pass one at a time, at least interval apart, and not before the end of  *)
(* a global cooldown.  The gate is the abstract lock of FifoLock.  Every   *)
(* critical section of the pacer's mutex is one step; a sleeping owner is  *)
(* woken by its timer, by blockFor through the wake channel it read, or by *)
(* its context.                                                            *)
(***************************************************************************)
EXTENDS LockOps, Integers

CONSTANTS
  Callers,     \* goroutines that call waitFor
  MaxWaiters,  \* the bound of the pacer's gate
  Second,      \* time.Second, in clock units
  PerSecond,   \* newPacer's limit
  Slack,       \* globalPacingSlack
  MinDelay,    \* minimumRetryDelay
  Reserve,     \* waitFor's reserve: the time one attempt needs
  MaxDelay,    \* bound: the longest cooldown blockFor is called with
  MaxPatience, \* bound: the most time left to a caller's deadline
  MaxTime      \* bound: the clock stops here

ASSUME PacerAssumption ==
  /\ None \notin Callers
  /\ MaxWaiters \in Nat
  /\ Second \in Nat \ {0} /\ PerSecond \in Nat \ {0} /\ Slack \in Nat \ {0}
  /\ MinDelay \in Nat /\ Reserve \in Nat
  /\ MaxDelay \in Nat /\ MaxPatience \in Nat /\ MaxTime \in Nat

\* Fault: the share is rounded down.
ShareFloor == Second \div PerSecond

\* newPacer: the limit's share of a second rounded up, and a little more.
Share == (Second + PerSecond - 1) \div PerSecond
Interval == Share + (Share \div Slack)

VARIABLES
  now,           \* the clock
  gate,          \* pacer.gate
  next,          \* pacer.next
  blockedUntil,  \* pacer.blockedUntil
  pc,            \* where in waitFor the caller is
  deadline,      \* the deadline of the caller's context, 0 outside waitFor
  until,         \* when the timer of the gate's owner fires
  woken,         \* the wake channel the owner read is closed
  grants         \* history: when waitFor let a caller pass

vars == <<now, gate, next, blockedUntil, pc, deadline, until, woken, grants>>

(***************************************************************************)
(* "out"      not in waitFor                                               *)
(* "queued"   in gate.acquire                                              *)
(* "looking"  owns the gate, at the top of the loop                        *)
(* "sleeping" owns the gate, in the select                                 *)
(* "leaving"  owns the gate, about to release it and return                *)
(***************************************************************************)
Places == {"out", "queued", "looking", "sleeping", "leaving"}

Goto(p, to) == pc' = [pc EXCEPT ![p] = to]

Latest(s, t) == IF t > s THEN t ELSE s

ReadyAt == Latest(next, blockedUntil)

Init ==
  /\ now = 0
  /\ gate = Free
  /\ next = 0
  /\ blockedUntil = 0
  /\ pc = [p \in Callers |-> "out"]
  /\ deadline = [p \in Callers |-> 0]
  /\ until = 0
  /\ woken = FALSE
  /\ grants = << >>

-----------------------------------------------------------------------------
(* waitFor(ctx, reserve)                                                   *)

Enter(p) ==
  /\ pc[p] = "out"
  /\ gate.owner = None \/ Len(gate.queue) < MaxWaiters
  /\ gate' = IF gate.owner = None THEN Grab(gate, p) ELSE Join(gate, p)
  /\ \E d \in 0..MaxPatience : deadline' = [deadline EXCEPT ![p] = now + d]
  /\ Goto(p, "queued")
  /\ UNCHANGED <<now, next, blockedUntil, until, woken, grants>>

Acquired(p) ==
  /\ pc[p] = "queued"
  /\ gate.owner = p
  /\ Goto(p, "looking")
  /\ UNCHANGED <<now, gate, next, blockedUntil, deadline, until, woken, grants>>

\* The context ends while p is queued.
Abandon(p) ==
  /\ pc[p] = "queued"
  /\ gate' = IF gate.owner = p THEN Pass(gate) ELSE Leave(gate, p)
  /\ deadline' = [deadline EXCEPT ![p] = 0]
  /\ Goto(p, "out")
  /\ UNCHANGED <<now, next, blockedUntil, until, woken, grants>>

\* Fault: the next slot is counted from the last slot, not from now.
GrantCatchingUp(p) ==
  /\ pc[p] = "looking"
  /\ ReadyAt <= now
  /\ next' = next + Interval
  /\ grants' = Append(grants, now)
  /\ Goto(p, "leaving")
  /\ UNCHANGED <<now, gate, blockedUntil, deadline, until, woken>>

Grant(p) ==
  /\ pc[p] = "looking"
  /\ ReadyAt <= now
  /\ next' = now + Interval
  /\ grants' = Append(grants, now)
  /\ Goto(p, "leaving")
  /\ UNCHANGED <<now, gate, blockedUntil, deadline, until, woken>>

\* blockedDelay > 0 && blockedDelay+reserve >= time.Until(deadline)
Hopeless(p) == blockedUntil > now /\ blockedUntil + Reserve >= deadline[p]

Sleep(p) ==
  /\ pc[p] = "looking"
  /\ ReadyAt > now
  /\ ~Hopeless(p)
  /\ until' = ReadyAt
  /\ woken' = FALSE
  /\ Goto(p, "sleeping")
  /\ UNCHANGED <<now, gate, next, blockedUntil, deadline, grants>>

\* Return the cooldown instead of waiting for it.
Refuse(p) ==
  /\ pc[p] = "looking"
  /\ ReadyAt > now
  /\ Hopeless(p)
  /\ Goto(p, "leaving")
  /\ UNCHANGED <<now, gate, next, blockedUntil, deadline, until, woken, grants>>

\* The timer and the channel are the select's own.
EndSelect == until' = 0 /\ woken' = FALSE

Wake(p) ==
  /\ pc[p] = "sleeping"
  /\ until <= now \/ woken
  /\ EndSelect
  /\ Goto(p, "looking")
  /\ UNCHANGED <<now, gate, next, blockedUntil, deadline, grants>>

\* The context ends in the loop.
GiveUp(p) ==
  /\ pc[p] \in {"looking", "sleeping"}
  /\ EndSelect
  /\ Goto(p, "leaving")
  /\ UNCHANGED <<now, gate, next, blockedUntil, deadline, grants>>

Exit(p) ==
  /\ pc[p] = "leaving"
  /\ gate' = Pass(gate)
  /\ deadline' = [deadline EXCEPT ![p] = 0]
  /\ Goto(p, "out")
  /\ UNCHANGED <<now, next, blockedUntil, until, woken, grants>>

-----------------------------------------------------------------------------

\* Fault: the wake channel is not closed.
BlockForSilent(d) ==
  LET readyAt == now + Latest(MinDelay, d) IN
  /\ readyAt > blockedUntil
  /\ blockedUntil' = readyAt
  /\ UNCHANGED <<now, gate, next, pc, deadline, until, woken, grants>>

\* blockFor(delay): a cooldown is only ever extended, and then wakes sleepers.
BlockFor(d) ==
  LET readyAt == now + Latest(MinDelay, d) IN
  /\ readyAt > blockedUntil
  /\ blockedUntil' = readyAt
  /\ woken' = (\E p \in Callers : pc[p] = "sleeping")
  /\ UNCHANGED <<now, gate, next, pc, deadline, until, grants>>

Tick ==
  /\ now < MaxTime
  /\ now' = now + 1
  /\ UNCHANGED <<gate, next, blockedUntil, pc, deadline, until, woken, grants>>

Step(p) ==
  \/ Enter(p)
  \/ Acquired(p)
  \/ Abandon(p)
  \/ Grant(p)
  \/ Sleep(p)
  \/ Refuse(p)
  \/ Wake(p)
  \/ GiveUp(p)
  \/ Exit(p)

Next ==
  \/ \E p \in Callers : Step(p)
  \/ \E d \in 0..MaxDelay : BlockFor(d)
  \/ Tick

Spec == Init /\ [][Next]_vars

-----------------------------------------------------------------------------
(* Safety                                                                  *)

\* Types; no time the pacer keeps is before its start (pacer, ratelimit.go:90-98).
TypeOK ==
  /\ now \in Nat /\ next \in Nat /\ blockedUntil \in Nat /\ until \in Nat
  /\ gate.owner \in Callers \cup {None} /\ gate.queue \in Seq(Callers)
  /\ pc \in [Callers -> Places]
  /\ deadline \in [Callers -> Nat]
  /\ woken \in BOOLEAN
  /\ grants \in Seq(Nat)

\* Any n consecutive grants take at least n - 1 intervals: never a burst, though
\* callers queue, give up and are refused in between (ratelimit.go:122-172).
Spaced ==
  \A i, j \in 1..Len(grants) :
    i <= j => grants[j] - grants[i] >= (j - i) * Interval

\* No window of a second holds more than PerSecond grants: the promise of
\* ratelimit.go:88-89, with newPacer's rounding.
WindowBound ==
  \A i \in 1..Len(grants) :
    i + PerSecond <= Len(grants) => grants[i + PerSecond] - grants[i] >= Second

\* A sleeping owner sleeps for what the pacer now asks, or is about to wake: no
\* cooldown announced between the unlock and the select is slept through or cut
\* short (ratelimit.go:143-171).
NoStaleSleep ==
  \A p \in Callers : pc[p] = "sleeping" /\ ~woken => until = ReadyAt

\* Nobody sleeps through a cooldown that leaves no time for an attempt before
\* its deadline, whenever that cooldown was announced (CONFIG.md:45).
NoHopelessSleep ==
  \A p \in Callers : pc[p] = "sleeping" /\ ~woken => ~Hopeless(p)

\* The owner of the pacer's gate, who holds up everyone behind it, sleeps for a
\* good reason and for as long as it is good (ratelimit.go:143-171).
SleepSound == NoStaleSleep /\ NoHopelessSleep

-----------------------------------------------------------------------------
(* The inductive invariant.                                                *)

\* Who is in waitFor is in the gate, and whoever got past acquire owns it.
GateOK ==
  /\ LockOK(gate, Callers)
  /\ \A p \in Callers :
       /\ pc[p] # "out" <=> Inside(gate, p)
       /\ pc[p] \in {"looking", "sleeping", "leaving"} => gate.owner = p

\* The next slot is an interval after the last grant.
NextAhead == grants # << >> => next = grants[Len(grants)] + Interval

PacerInv == TypeOK /\ GateOK /\ NextAhead /\ Spaced /\ NoStaleSleep /\ NoHopelessSleep

=============================================================================
