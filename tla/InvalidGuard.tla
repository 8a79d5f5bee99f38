---------------------------- MODULE InvalidGuard ----------------------------
(***************************************************************************)
(* invalidRequestGuard of internal/proxy/ratelimit.go: a process-wide      *)
(* budget of responses Discord counts as invalid (401, 403, 429 of its own *)
(* scope) in a rolling window.  An attempt reserves a place, and its       *)
(* outcome either gives the place back or fills it until the response has  *)
(* left the window.                                                        *)
(*                                                                         *)
(* Callers read the clock before they take the mutex, so that operations   *)
(* may run, and responses be stamped, in another order than the clock's.   *)
(***************************************************************************)
EXTENDS Integers, Sequences, FiniteSets

CONSTANTS
  Limit,    \* invalidRequestGuard.limit
  Window,   \* invalidRequestGuard.window
  Compact,  \* the 4096 of prune: a dead prefix this short is kept
  MaxLag,   \* bound: how long ago a caller waiting for the mutex read the clock
  MaxTime   \* bound: the clock stops here

\* The limit of each node of a cluster of at most nodes, of a total for all.
NodeLimit(total, nodes) == IF total \div nodes > 1 THEN total \div nodes ELSE 1

ASSUME GuardAssumption ==
  /\ Limit \in Nat /\ Window \in Nat \ {0} /\ Compact \in Nat
  /\ MaxLag \in Nat /\ MaxTime \in Nat

VARIABLES
  now,         \* the clock
  timestamps,  \* invalidRequestGuard.timestamps
  head,        \* invalidRequestGuard.head
  reserved,    \* invalidRequestGuard.reserved
  log,         \* history: the stamp of every invalid response, in order of entry
  seen         \* history: the latest time prune was called with

guardVars == <<now, timestamps, head, reserved, log, seen>>

GuardInit ==
  /\ now = 0
  /\ timestamps = << >>
  /\ head = 0
  /\ reserved = 0
  /\ log = << >>
  /\ seen = 0

\* What a caller may have read from the clock before it got the mutex.
Readings == {t \in 0..now : now - t <= MaxLag}

\* Fault: the compaction drops the first live stamp too.
PruneShort(ts, t) ==
  /\ \E k \in head..Len(ts) :
       /\ \A i \in head + 1..k : ts[i] <= t - Window
       /\ k < Len(ts) => ts[k + 1] > t - Window
       /\ IF k > Compact /\ k * 2 > Len(ts)
          THEN timestamps' = SubSeq(ts, k + 2, Len(ts)) /\ head' = 0
          ELSE timestamps' = ts /\ head' = k
  /\ seen' = IF t > seen THEN t ELSE seen

\* Fault: a stamp as old as the window is not dropped.
PruneLate(ts, t) ==
  /\ \E k \in head..Len(ts) :
       /\ \A i \in head + 1..k : ts[i] < t - Window
       /\ k < Len(ts) => ts[k + 1] >= t - Window
       /\ IF k > Compact /\ k * 2 > Len(ts)
          THEN timestamps' = SubSeq(ts, k + 1, Len(ts)) /\ head' = 0
          ELSE timestamps' = ts /\ head' = k
  /\ seen' = IF t > seen THEN t ELSE seen

\* prune(t) of the stamps ts: move the head past the expired ones, up to the
\* first that is not, and drop a long dead prefix.
Prune(ts, t) ==
  /\ \E k \in head..Len(ts) :
       /\ \A i \in head + 1..k : ts[i] <= t - Window
       /\ k < Len(ts) => ts[k + 1] > t - Window
       /\ IF k > Compact /\ k * 2 > Len(ts)
          THEN timestamps' = SubSeq(ts, k + 1, Len(ts)) /\ head' = 0
          ELSE timestamps' = ts /\ head' = k
  /\ seen' = IF t > seen THEN t ELSE seen

\* reserve(t) finds room.
Reserve(t) ==
  /\ Prune(timestamps, t)
  /\ Len(timestamps') - head' + reserved < Limit
  /\ reserved' = reserved + 1
  /\ UNCHANGED <<now, log>>

\* available(t), or reserve(t) without room.
Look(t) ==
  /\ Prune(timestamps, t)
  /\ UNCHANGED <<now, reserved, log>>

\* complete(t, invalid): an attempt has ended.
Complete(t, invalid) ==
  /\ reserved > 0
  /\ reserved' = reserved - 1
  /\ Prune(IF invalid THEN Append(timestamps, t) ELSE timestamps, t)
  /\ log' = IF invalid THEN Append(log, t) ELSE log
  /\ UNCHANGED now

Tick ==
  /\ now < MaxTime
  /\ now' = now + 1
  /\ UNCHANGED <<timestamps, head, reserved, log, seen>>

GuardNext ==
  \/ \E t \in Readings :
       \/ Reserve(t)
       \/ Look(t)
       \/ \E invalid \in BOOLEAN : Complete(t, invalid)
  \/ Tick

GuardSpec == GuardInit /\ [][GuardNext]_guardVars

-----------------------------------------------------------------------------
(* Safety                                                                  *)

\* Types; the head stays within the stamps (ratelimit.go:70-79) and no reservation
\* is returned twice.
GuardTypeOK ==
  /\ now \in Nat /\ seen \in 0..now
  /\ timestamps \in Seq(Nat)
  /\ head \in 0..Len(timestamps)
  /\ reserved \in Nat
  /\ log \in Seq(Nat)

\* How many stamps the guard retains.
Retained == Len(timestamps) - head

\* What the guard retains and what it has reserved stay within the limit.
WithinLimit == Retained + reserved <= Limit

\* The invalid responses of the window that ends now.
InWindow == {i \in 1..Len(log) : log[i] > now - Window}

\* The responses of the last window, and the attempts that may still add to
\* them, are never more than the limit: no stamp is dropped early by pruning,
\* compaction or a caller with an old reading (ratelimit.go:42-79, README.md:30).
WindowBudget == Cardinality(InWindow) + reserved <= Limit

\* A retained stamp has not outlived the window by more than the lag between
\* callers: out-of-order stamps do not pin the budget (ratelimit.go:70-74,
\* CONFIG.md:89 "resets continuously as old responses expire").
NoOverstay ==
  \A i \in head + 1..Len(timestamps) : timestamps[i] > seen - Window - MaxLag

-----------------------------------------------------------------------------
(* The inductive invariant                                                 *)

\* The stamps no longer retained.
Dropped == Len(log) - Retained

\* The retained stamps are the end of the log, and what was dropped before them
\* has left the window.
Agrees ==
  /\ Dropped \in Nat
  /\ \A i \in 1..Retained : timestamps[head + i] = log[Dropped + i]
  /\ \A i \in 1..Dropped : log[i] <= now - Window

\* Stamps are from the past, and no stamp is more than the lag behind an earlier
\* one.
Lagging ==
  \A i, j \in 1..Len(log) : i <= j => log[j] >= log[i] - MaxLag /\ log[i] <= now

GuardInv == GuardTypeOK /\ WithinLimit /\ Agrees /\ Lagging /\ NoOverstay
=============================================================================
