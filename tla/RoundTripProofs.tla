-------------------------- MODULE RoundTripProofs ---------------------------
(***************************************************************************)
(* A request's way through RoundTrip is a way through the buckets of       *)
(* BucketTable, so what is proved of them holds here.  The invariant of    *)
(* RoundTrip then counts the attempts, says who is in the two gates and who *)
(* may settle the validity of the credential, what a retry still has to wait *)
(* for, and what a request that has returned has left behind.              *)
(***************************************************************************)
EXTENDS RoundTrip, BucketTableProofs

\* The provers, and the time each is given for a leaf.
USE ZenonT(10), SMTT(30)

-----------------------------------------------------------------------------
(* Every step is a step of the buckets, or none                            *)

\* A request that moves is at another place afterwards.
LEMMA Moved ==
  ASSUME TypeOK, NEW q \in Requests,
         Lookup(q) \/ Move(q) \/ Granted(q) \/ Cancelled(q) \/ WaitDone(q) \/ Dispatch(q)
           \/ GiveUp(q) \/ Respond(q) \/ LearnSome(q)
  PROVE  Next /\ pc' # pc /\ \A p \in Requests \ {q} : pc'[p] = pc[p]
<1>1. Next
  BY DEF Next
<1>2. ASSUME NEW to, Goto(q, to), pc[q] # to
      PROVE  pc' # pc /\ \A p \in Requests \ {q} : pc'[p] = pc[p]
  BY <1>2 DEF Goto, TypeOK
<1>3. \E to : Goto(q, to) /\ pc[q] # to
  <2>1. CASE Move(q)
    <3>1. CASE Enter(q) \/ EnterFull(q)
      BY <3>1 DEF Enter, EnterFull
    <3>2. CASE Recheck(q) \/ RecheckNoSlot(q)
      BY <3>2 DEF Recheck, RecheckNoSlot
    <3>3. CASE LetGo(q) \/ PassGate(q)
      BY <3>3 DEF LetGo, PassGate
    <3> QED BY <2>1, <3>1, <3>2, <3>3 DEF Move
  <2>2. CASE LearnSome(q)
    <3>1. CASE LearnNothing(q)
      BY <3>1 DEF LearnNothing
    <3>2. ASSUME NEW d, Learn(q, d) \/ LearnNoSlot(q, d)
          PROVE  \E to : Goto(q, to) /\ pc[q] # to
      BY <3>2 DEF Learn, LearnNoSlot
    <3> QED BY <2>2, <3>1, <3>2 DEF LearnSome
  <2>3. CASE Lookup(q) \/ Granted(q) \/ Cancelled(q)
    BY <2>3 DEF Lookup, Granted, Cancelled
  <2>4. CASE WaitDone(q) \/ Dispatch(q) \/ GiveUp(q) \/ Respond(q)
    BY <2>4 DEF WaitDone, Dispatch, GiveUp, Respond, Observe
  <2> QED BY <2>1, <2>2, <2>3, <2>4
<1> QED BY <1>1, <1>2, <1>3

\* What a step of RoundTrip is for the buckets.  Only Forward lets time pass.
LEMMA TableStep ==
  ASSUME TableInv, FlowNext
  PROVE  \/ UNCHANGED vars
         \/ Forward /\ Tick
         \/ Next /\ (pc' # pc \/ UNCHANGED left)
<1>1. TypeOK
  BY Parts
<1>2. ASSUME NEW q \in Requests, Advance(q)
      PROVE  UNCHANGED vars \/ (Next /\ pc' # pc)
  <2>1. CASE Acquire(q)
    BY <2>1, <1>1, Moved DEF Acquire
  <2>2. CASE AcquireNoSlot(q)
    BY <2>2 DEF AcquireNoSlot, NoSlot, vars, tableVars, bucketVars
  <2>3. CASE \/ LoadValidity(q) \/ EnterValidation(q)
             \/ Validate(q) \/ ValidateCancelled(q) \/ Checked(q)
    BY <2>3, <1>1, Moved DEF LoadValidity, EnterValidation, Validate, ValidateCancelled, Checked, Return
  <2>4. CASE WaitBucket(q) \/ WaitGivenUp(q) \/ Paced(q) \/ PaceGivenUp(q)
    BY <2>4, <1>1, Moved DEF WaitBucket, WaitGivenUp, Paced, PaceGivenUp, Return
  <2>5. CASE Send(q) \/ SendRefused(q) \/ NoAnswer(q)
    BY <2>5, <1>1, Moved DEF Send, SendRefused, NoAnswer, Return
  <2>6. ASSUME NEW s \in Replies, NEW n \in 0..MaxBlock, Answer(q, s, n)
        PROVE  Next /\ pc' # pc
    <3>1. Respond(q)
      BY <2>6, TableAssumption DEF Answer, Respond
    <3> QED BY <3>1, <1>1, Moved
  <2>7. CASE LearnReply(q) \/ Judge(q) \/ DropValidation(q) \/ ReleaseBucket(q)
    BY <2>7, <1>1, Moved DEF LearnReply, Judge, DropValidation, ReleaseBucket
  <2> QED BY <1>2, <2>1, <2>2, <2>3, <2>4, <2>5, <2>6, <2>7 DEF Advance
<1>3. ASSUME NEW q \in Requests, Begin(q) \/ EndContext(q)
      PROVE  UNCHANGED vars
  BY <1>3 DEF Begin, EndContext
<1>4. CASE Forget
  BY <1>4 DEF Forget
<1>5. CASE Forward
  <2>1. CASE \E b \in Buckets : left[b] > 0
    BY <1>5, <2>1 DEF Forward, Tick
  <2>2. CASE ~\E b \in Buckets : left[b] > 0
    <3>1. left \in [Buckets -> 0..MaxBlock] /\ MaxBlock \in Nat
      BY <1>1, TableAssumption DEF TypeOK
    <3>2. \A b \in Buckets : Later(left[b] - 1, 0) = left[b]
      BY <2>2, <3>1 DEF Later
    <3>3. left' = left
      BY <1>5, <3>1, <3>2 DEF Forward
    <3> QED BY <1>5, <3>3 DEF Forward, vars, tableVars
  <2> QED BY <1>5, <2>1, <2>2
<1>6. CASE SweepIdle
  BY <1>6 DEF SweepIdle, Sweep, Age, bucketVars, Next
<1>7. CASE Evict
  BY <1>7 DEF Evict, Clear, bucketVars, Next
<1> QED BY <1>2, <1>3, <1>4, <1>5, <1>6, <1>7 DEF FlowNext

\* A request in RoundTrip uses the buckets as BucketTable says: the composed system
\* implements the table, whatever the gates, the guard and the pacer add to it
\* (transport.go:98-304).
THEOREM FlowUsesTable == FlowSpec => Spec
<1>1. FlowInit => Init
  BY DEF FlowInit
<1>2. TableInv /\ [FlowNext]_allVars => [Next]_vars
  <2>1. UNCHANGED allVars => UNCHANGED vars
    BY DEF allVars
  <2>2. TableInv /\ FlowNext => [Next]_vars
    BY TableStep DEF Next
  <2> QED BY <2>1, <2>2
<1>3. FlowInit => TableInv
  BY <1>1, TableInit
<1>4. TableInv /\ [FlowNext]_allVars => TableInv'
  BY <1>2, TableNext
<1> QED BY <1>1, <1>2, <1>3, <1>4, PTL DEF FlowSpec, Spec

-----------------------------------------------------------------------------
(* The parts of the invariant                                              *)

\* The types that no counting and no gate decides.
Locals ==
  /\ stage \in [Requests -> Stages]
  /\ validity \in {"unknown", "valid", "invalid"}
  /\ blocked \in 0..MaxBlock /\ spent \in Nat
  /\ reply \in [Requests -> Replies \cup {None}]
  /\ again \in SUBSET Requests /\ ctxDone \in SUBSET Requests
  /\ told \in [Requests -> 0..MaxBlock]

\* The invariant is made of its parts.
LEMMA FlowParts ==
  FlowInv <=> Locals /\ Attempts /\ Validators /\ Pacing /\ Probed /\ Owed /\ AtRest
<1>1. FlowInv => Locals
  BY FlowAssumption DEF FlowInv, FlowTypeOK, Locals
<1>2. ASSUME Locals, Attempts, Validators, Pacing
      PROVE  FlowTypeOK
  <2>1. reserved \in Nat
    BY <1>2, FS_CardinalityType DEF Attempts
  <2>2. reserved \in 0..Limit /\ spent \in 0..Limit
    BY <1>2, <2>1, FlowAssumption DEF Attempts, Locals
  <2>3. /\ vgate.owner \in Requests \cup {None} /\ vgate.queue \in Seq(Requests)
        /\ pgate.owner \in Requests \cup {None} /\ pgate.queue \in Seq(Requests)
    BY <1>2 DEF Validators, Pacing, LockOK
  <2> QED BY <1>2, <2>2, <2>3, Zenon DEF FlowTypeOK, Locals
<1> QED BY <1>1, <1>2, Zenon DEF FlowInv

\* The same of the state after a step.
LEMMA FlowPartsNext ==
  ASSUME Locals', Attempts', Validators', Pacing', Probed', Owed', AtRest'
  PROVE  FlowInv'
<1>1. reserved' \in Nat
  BY FS_CardinalityType DEF Attempts
<1>2. reserved' \in 0..Limit /\ spent' \in 0..Limit
  BY <1>1, FlowAssumption DEF Attempts, Locals
<1>3. /\ vgate'.owner \in Requests \cup {None} /\ vgate'.queue \in Seq(Requests)
      /\ pgate'.owner \in Requests \cup {None} /\ pgate'.queue \in Seq(Requests)
  BY DEF Validators, Pacing, LockOK
<1>4. FlowTypeOK'
  BY <1>2, <1>3, Zenon DEF FlowTypeOK, Locals
<1> QED BY <1>4, Zenon DEF FlowInv

\* The invariant holds before the first request.
LEMMA FlowStart == FlowInit => FlowInv
<1> SUFFICES ASSUME FlowInit PROVE FlowInv
  OBVIOUS
<1>1. Sent = {}
  BY DEF Sent, FlowInit
<1>2. Attempts
  <2>1. IsFiniteSet(Sent) /\ Cardinality(Sent) = 0
    BY <1>1, FS_EmptySet, Zenon
  <2> QED BY <2>1, FlowAssumption DEF FlowInit, Attempts
<1>3. /\ LockOK(vgate, Requests) /\ LockOK(pgate, Requests)
      /\ \A q \in Requests : ~Inside(vgate, q) /\ ~Inside(pgate, q)
  BY FreeLock, TableAssumption DEF FlowInit
<1>4. Validators /\ Pacing
  BY <1>3 DEF FlowInit, Validators, Pacing, Inside
<1>5. Locals
  BY TableAssumption DEF FlowInit, Locals, Stages
<1>6. Probed
  BY DEF FlowInit, Probed, Free, Probing
<1>7. Owed
  <2>1. \A r \in Routes : Remaining(r) = 0
    BY TableAssumption DEF FlowInit, Init, Remaining, Resolve, KeyOf, Keys
  <2> QED BY <2>1, TableAssumption DEF Owed, Due, FlowInit, Later
<1>8. AtRest
  BY DEF FlowInit, Init, AtRest
<1> QED BY <1>2, <1>4, <1>5, <1>6, <1>7, <1>8, FlowParts

\* A request that changes its stage changes no other's.
LEMMA StageOf ==
  ASSUME Locals, NEW q \in Requests, NEW to, Stage(q, to)
  PROVE  stage'[q] = to /\ \A p \in Requests \ {q} : stage'[p] = stage[p]
BY DEF Stage, Locals

-----------------------------------------------------------------------------
(* The types                                                               *)

\* The larger of two times in range is in range, and time that passes stays in it.
LEMMA LaterTypes ==
  \A m \in 0..MaxBlock, n \in 0..MaxBlock : Later(m, n) \in 0..MaxBlock /\ Later(m - 1, 0) \in 0..MaxBlock
BY TableAssumption DEF Later

\* A request that only moves on.
LEMMA LocalsMove ==
  ASSUME Locals, NEW q \in Requests, NEW to \in Stages, Stage(q, to),
         again' \in SUBSET Requests, ctxDone' \in SUBSET Requests,
         told' \in [Requests -> 0..MaxBlock], UNCHANGED <<validity, blocked, spent, reply>>
  PROVE  Locals'
<1>1. stage' \in [Requests -> Stages]
  BY DEF Locals, Stage
<1> QED BY <1>1, Zenon DEF Locals

\* A request that returns.
LEMMA LocalsReturn ==
  ASSUME Locals, NEW q \in Requests, Returned(q), UNCHANGED <<validity, blocked, spent, reply>>
  PROVE  Locals'
<1>1. told' \in [Requests -> 0..MaxBlock]
  BY TableAssumption DEF Returned, Locals
<1>2. again' \in SUBSET Requests /\ ctxDone' \in SUBSET Requests
  BY DEF Returned, Locals
<1> QED BY <1>1, <1>2, LocalsMove DEF Returned, Stages

\* Every step keeps the types.
LEMMA LocalsNext ==
  ASSUME FlowInv, FlowNext
  PROVE  Locals'
<1>1. Locals
  BY FlowParts
<1>2. ASSUME NEW q \in Requests, Advance(q)
      PROVE  Locals'
  <2>1. CASE Acquire(q) \/ ReleaseBucket(q)
    <3>1. CASE Returned(q)
      BY <2>1, <3>1, <1>1, LocalsReturn DEF Acquire, ReleaseBucket
    <3>2. CASE UNCHANGED <<stage, again, ctxDone, told>>
      BY <2>1, <3>2, <1>1 DEF Acquire, ReleaseBucket, Locals
    <3>3. CASE \E to \in {"ready", "check", "queue"} : Stage(q, to) /\ UNCHANGED <<again, ctxDone, told>>
      <4>1. UNCHANGED <<validity, blocked, spent, reply>>
        BY <2>1 DEF Acquire, ReleaseBucket
      <4> QED BY <3>3, <4>1, <1>1, LocalsMove DEF Stages, Locals
    <3> QED BY <2>1, <3>1, <3>2, <3>3 DEF Acquire, ReleaseBucket
  <2>2. CASE AcquireNoSlot(q)
    BY <2>2, <1>1, LocalsReturn DEF AcquireNoSlot
  <2>3. ASSUME Return(q), UNCHANGED <<validity, blocked, spent, reply, ctxDone, told>>
        PROVE  Locals'
    BY <2>3, <1>1, LocalsMove DEF Return, Stages, Locals
  <2>4. CASE EnterValidation(q) \/ ValidateCancelled(q) \/ Checked(q)
    BY <2>4, <2>3, <1>1, LocalsMove DEF EnterValidation, ValidateCancelled, Checked, Stages, Locals
  <2>5. CASE LoadValidity(q) \/ Validate(q) \/ WaitBucket(q) \/ Paced(q)
    BY <2>5, <1>1, LocalsMove DEF LoadValidity, Validate, WaitBucket, Paced, Stages, Locals
  <2>6. CASE WaitGivenUp(q) \/ PaceGivenUp(q) \/ SendRefused(q) \/ NoAnswer(q)
    BY <2>6, <2>3 DEF WaitGivenUp, PaceGivenUp, SendRefused, NoAnswer
  <2>7. CASE Send(q) \/ LearnReply(q)
    BY <2>7, <1>1, LocalsMove DEF Send, LearnReply, Stages, Locals
  <2>8. ASSUME NEW s \in Replies, NEW n \in 0..MaxBlock, Answer(q, s, n)
        PROVE  Locals'
    <3>1. blocked' \in 0..MaxBlock
      BY <2>8, <1>1, LaterTypes DEF Answer, Locals
    <3>2. told' \in [Requests -> 0..MaxBlock]
      BY <2>8, <1>1, TableAssumption DEF Answer, Locals
    <3>3. spent' \in Nat /\ validity' \in {"unknown", "valid", "invalid"}
      BY <2>8, <1>1 DEF Answer, One, Locals
    <3>4. reply' \in [Requests -> Replies \cup {None}] /\ stage' \in [Requests -> Stages]
      BY <2>8, <1>1 DEF Answer, Stage, Stages, Locals
    <3>5. again' \in SUBSET Requests /\ ctxDone' \in SUBSET Requests
      BY <2>8, <1>1 DEF Answer, Locals
    <3> QED BY <3>1, <3>2, <3>3, <3>4, <3>5, Zenon DEF Locals
  <2>9. CASE Judge(q)
    BY <2>9, <1>1 DEF Judge, Stage, Stages, Locals
  <2>10. CASE DropValidation(q)
    BY <2>10, <1>1 DEF DropValidation, Locals
  <2> QED BY <1>2, <2>1, <2>2, <2>4, <2>5, <2>6, <2>7, <2>8, <2>9, <2>10 DEF Advance
<1>3. ASSUME NEW q \in Requests, Begin(q) \/ EndContext(q)
      PROVE  Locals'
  BY <1>3, <1>1 DEF Begin, EndContext, Stage, Stages, Locals
<1>4. CASE Forget
  BY <1>4, <1>1 DEF Forget, Locals
<1>5. CASE Forward
  <2>1. blocked' \in 0..MaxBlock /\ told' \in [Requests -> 0..MaxBlock]
    BY <1>5, <1>1, LaterTypes DEF Forward, Locals
  <2> QED BY <1>5, <1>1, <2>1 DEF Forward, Locals
<1>6. CASE SweepIdle \/ Evict
  BY <1>6, <1>1 DEF SweepIdle, Evict, flowVars, Locals
<1> QED BY <1>2, <1>3, <1>4, <1>5, <1>6 DEF FlowNext

-----------------------------------------------------------------------------
(* The reservations of the attempts                                        *)

\* A step that sends nothing and gets no answer.
LEMMA KeepAttempts ==
  ASSUME Locals, Attempts, NEW q \in Requests, NEW to, Stage(q, to) \/ (UNCHANGED stage /\ to = "new"),
         stage[q] # "sent" \/ UNCHANGED stage, to # "sent", UNCHANGED <<reserved, spent>>
  PROVE  Attempts'
<1>1. Sent' = Sent
  BY StageOf DEF Sent
<1> QED BY <1>1 DEF Attempts

\* The attempts with Discord, and no others, hold a reservation after every step.
LEMMA AttemptsNext ==
  ASSUME FlowInv, FlowNext
  PROVE  Attempts'
<1>1. Locals /\ Attempts
  BY FlowParts
<1>2. ASSUME NEW q \in Requests, Advance(q)
      PROVE  Attempts'
  <2>1. CASE Acquire(q) \/ AcquireNoSlot(q) \/ ReleaseBucket(q)
    BY <2>1, <1>1, KeepAttempts DEF Acquire, AcquireNoSlot, ReleaseBucket, Returned
  <2>2. CASE \/ LoadValidity(q) \/ EnterValidation(q)
             \/ Validate(q) \/ ValidateCancelled(q) \/ Checked(q)
    BY <2>2, <1>1, KeepAttempts DEF LoadValidity, EnterValidation, Validate, ValidateCancelled, Checked, Return
  <2>3. CASE WaitBucket(q) \/ WaitGivenUp(q) \/ Paced(q) \/ PaceGivenUp(q) \/ SendRefused(q)
    BY <2>3, <1>1, KeepAttempts DEF WaitBucket, WaitGivenUp, Paced, PaceGivenUp, SendRefused, Return
  <2>4. CASE LearnReply(q) \/ Judge(q) \/ DropValidation(q)
    BY <2>4, <1>1, KeepAttempts DEF LearnReply, Judge, DropValidation
  <2>5. CASE Send(q)
    <3>1. Sent' = Sent \cup {q} /\ q \notin Sent
      BY <2>5, <1>1, StageOf DEF Send, Sent
    <3>2. IsFiniteSet(Sent') /\ Cardinality(Sent') = Cardinality(Sent) + 1
      BY <3>1, <1>1, FS_AddElement DEF Attempts
    <3>3. reserved \in Nat /\ spent \in Nat /\ Limit \in Nat
      BY <1>1, FS_CardinalityType, FlowAssumption DEF Attempts, Locals
    <3> QED BY <2>5, <3>2, <3>3, <1>1 DEF Send, Attempts
  <2>6. ASSUME stage[q] = "sent", NEW to, Stage(q, to), to # "sent", reserved' = reserved - 1,
               spent' = spent \/ spent' = spent + 1
        PROVE  Attempts'
    <3>1. Sent' = Sent \ {q} /\ q \in Sent
      BY <2>6, <1>1, StageOf DEF Sent
    <3>2. IsFiniteSet(Sent') /\ Cardinality(Sent') = Cardinality(Sent) - 1
      BY <3>1, <1>1, FS_RemoveElement DEF Attempts
    <3>3. reserved \in Nat /\ spent \in Nat /\ Limit \in Nat
      BY <1>1, FS_CardinalityType, FlowAssumption DEF Attempts, Locals
    <3> QED BY <2>6, <3>2, <3>3, <1>1 DEF Attempts
  <2>7. CASE NoAnswer(q)
    BY <2>7, <2>6 DEF NoAnswer, Return
  <2>8. ASSUME NEW s \in Replies, NEW n \in 0..MaxBlock, Answer(q, s, n)
        PROVE  Attempts'
    <3>1. spent' = spent \/ spent' = spent + 1
      BY <2>8, <1>1 DEF Answer, One, Locals
    <3> QED BY <2>8, <3>1, <2>6 DEF Answer
  <2> QED BY <1>2, <2>1, <2>2, <2>3, <2>4, <2>5, <2>7, <2>8 DEF Advance
<1>3. ASSUME NEW q \in Requests, Begin(q) \/ EndContext(q)
      PROVE  Attempts'
  BY <1>3, <1>1, KeepAttempts DEF Begin, EndContext
<1>4. CASE Forget
  <2>1. Sent' = Sent
    BY <1>4 DEF Forget, Sent
  <2>2. reserved \in Nat /\ spent \in Nat /\ Limit \in Nat
    BY <1>1, FS_CardinalityType, FlowAssumption DEF Attempts, Locals
  <2> QED BY <1>4, <2>1, <2>2, <1>1 DEF Forget, Attempts
<1>5. CASE Forward \/ SweepIdle \/ Evict
  <2>1. Sent' = Sent /\ UNCHANGED <<reserved, spent>>
    BY <1>5 DEF Forward, SweepIdle, Evict, flowVars, Sent
  <2> QED BY <2>1, <1>1 DEF Attempts
<1> QED BY <1>2, <1>3, <1>4, <1>5 DEF FlowNext

-----------------------------------------------------------------------------
(* The pacer's gate                                                        *)

\* acquire, at a gate with room.
LEMMA EnterLock ==
  ASSUME NEW q \in Requests, NEW l, LockOK(l, Requests), ~Inside(l, q)
  PROVE  LET k == IF l.owner = None THEN Grab(l, q) ELSE Join(l, q) IN
         /\ LockOK(k, Requests)
         /\ \A p \in Requests : Inside(k, p) <=> Inside(l, p) \/ p = q
         /\ IF l.owner = None THEN k.owner = q ELSE k.owner = l.owner
<1>1. None \notin Requests
  BY TableAssumption
<1>2. CASE l.owner = None
  <2>1. Range(<< >>) = {}
    BY DEF Range
  <2>2. \A p \in Requests : ~Inside(l, p)
    BY <1>1, <1>2, <2>1 DEF LockOK, Inside, Queued
  <2>3. /\ LockOK(Grab(l, q), Requests) /\ Grab(l, q).owner = q
        /\ \A p \in Requests : Inside(Grab(l, q), p) <=> p = q
    BY <1>1, <1>2, GrabLock
  <2> QED BY <1>2, <2>2, <2>3
<1>3. CASE l.owner # None
  BY <1>1, <1>3, JoinLock
<1> QED BY <1>2, <1>3

\* The owner lets go, or one who waits leaves the queue.
LEMMA ExitLock ==
  ASSUME NEW q \in Requests, NEW l, LockOK(l, Requests), Inside(l, q)
  PROVE  LET k == IF l.owner = q THEN Pass(l) ELSE Leave(l, q) IN
         /\ LockOK(k, Requests)
         /\ \A p \in Requests : Inside(k, p) <=> Inside(l, p) /\ p # q
         /\ l.owner # q => k.owner = l.owner
<1>1. None \notin Requests
  BY TableAssumption
<1>2. CASE l.owner = q
  BY <1>1, <1>2, PassLock
<1>3. CASE l.owner # q
  <2>1. q \in Queued(l)
    BY <1>3 DEF Inside
  <2> QED BY <1>1, <1>3, <2>1, LeaveLock
<1> QED BY <1>2, <1>3

\* A step that leaves the pacer's gate alone, outside waitFor.
LEMMA KeepPacing ==
  ASSUME Locals, Pacing, UNCHANGED pgate, NEW q \in Requests, NEW to,
         \/ UNCHANGED stage
         \/ Stage(q, to) /\ stage[q] # "pacing" /\ to # "pacing"
  PROVE  Pacing'
<1>1. \A p \in Requests : stage'[p] = "pacing" <=> stage[p] = "pacing"
  BY StageOf
<1> QED BY <1>1 DEF Pacing

\* The pacer's gate is held and waited for in waitFor only, after every step.
LEMMA PacingNext ==
  ASSUME FlowInv, FlowNext
  PROVE  Pacing'
<1>1. Locals /\ Pacing
  BY FlowParts
<1>2. ASSUME NEW q \in Requests, Advance(q)
      PROVE  Pacing'
  <2>1. CASE Acquire(q) \/ AcquireNoSlot(q) \/ ReleaseBucket(q)
    BY <2>1, <1>1, KeepPacing DEF Acquire, AcquireNoSlot, ReleaseBucket, Returned
  <2>2. CASE \/ LoadValidity(q) \/ EnterValidation(q)
             \/ Validate(q) \/ ValidateCancelled(q) \/ Checked(q)
    BY <2>2, <1>1, KeepPacing DEF LoadValidity, EnterValidation, Validate, ValidateCancelled, Checked, Return
  <2>3. CASE WaitGivenUp(q) \/ Send(q) \/ SendRefused(q) \/ NoAnswer(q)
    BY <2>3, <1>1, KeepPacing DEF WaitGivenUp, Send, SendRefused, NoAnswer, Return
  <2>4. CASE \E s \in Replies, n \in 0..MaxBlock : Answer(q, s, n)
    BY <2>4, <1>1, KeepPacing DEF Answer
  <2>5. CASE LearnReply(q) \/ Judge(q) \/ DropValidation(q)
    BY <2>5, <1>1, KeepPacing DEF LearnReply, Judge, DropValidation
  <2>6. CASE WaitBucket(q)
    <3>1. CASE Stage(q, "reserve") /\ UNCHANGED pgate
      BY <2>6, <3>1, <1>1, KeepPacing DEF WaitBucket
    <3>2. CASE /\ Stage(q, "pacing")
               /\ pgate' = IF pgate.owner = None THEN Grab(pgate, q) ELSE Join(pgate, q)
      <4>1. ~Inside(pgate, q) /\ LockOK(pgate, Requests)
        BY <2>6, <1>1 DEF WaitBucket, Pacing
      <4>2. /\ LockOK(pgate', Requests)
            /\ \A p \in Requests : Inside(pgate', p) <=> Inside(pgate, p) \/ p = q
        BY <3>2, <4>1, EnterLock
      <4> QED BY <3>2, <4>2, <1>1, StageOf DEF Pacing
    <3> QED BY <2>6, <3>1, <3>2 DEF WaitBucket
  <2>7. CASE Paced(q) \/ PaceGivenUp(q)
    <3>1. /\ pgate' = IF pgate.owner = q THEN Pass(pgate) ELSE Leave(pgate, q)
          /\ stage[q] = "pacing" /\ \E to : Stage(q, to) /\ to # "pacing"
      BY <2>7 DEF Paced, PaceGivenUp, Return
    <3>2. Inside(pgate, q) /\ LockOK(pgate, Requests)
      BY <3>1, <1>1 DEF Pacing
    <3>3. /\ LockOK(pgate', Requests)
          /\ \A p \in Requests : Inside(pgate', p) <=> Inside(pgate, p) /\ p # q
      BY <3>1, <3>2, ExitLock
    <3> QED BY <3>1, <3>3, <1>1, StageOf DEF Pacing
  <2> QED BY <1>2, <2>1, <2>2, <2>3, <2>4, <2>5, <2>6, <2>7 DEF Advance
<1>3. ASSUME NEW q \in Requests, Begin(q) \/ EndContext(q)
      PROVE  Pacing'
  BY <1>3, <1>1, KeepPacing DEF Begin, EndContext
<1>4. CASE Forget \/ Forward \/ SweepIdle
  <2>1. UNCHANGED <<pgate, stage>>
    BY <1>4 DEF Forget, Forward, SweepIdle, flowVars
  <2> QED BY <2>1, <1>1 DEF Pacing
<1>5. CASE Evict
  <2>1. LockOK(pgate', Requests) /\ \A q \in Requests : ~Inside(pgate', q)
    BY <1>5, FreeLock, TableAssumption DEF Evict
  <2> QED BY <1>5, <2>1 DEF Evict, Pacing
<1> QED BY <1>2, <1>3, <1>4, <1>5 DEF FlowNext

-----------------------------------------------------------------------------
(* The validation gate                                                     *)

\* A step that leaves the validation gate alone, outside validation.acquire.
LEMMA KeepValidators ==
  ASSUME Locals, Validators, UNCHANGED vgate, NEW q \in Requests, NEW to,
         \/ UNCHANGED stage
         \/ /\ Stage(q, to) /\ stage[q] # "validate" /\ to # "validate"
            /\ vgate.owner = q => to \in Probing \cup {"checked", "leave"}
  PROVE  Validators'
<1>1. CASE UNCHANGED stage
  BY <1>1 DEF Validators
<1>2. CASE ~UNCHANGED stage
  BY <1>2, StageOf DEF Validators
<1> QED BY <1>1, <1>2

\* The owner of the gate passes it on, or one who waits for it leaves.
LEMMA ExitValidators ==
  ASSUME Locals, Validators, NEW q \in Requests, Inside(vgate, q), NEW to, to # "validate",
         vgate' = IF vgate.owner = q THEN Pass(vgate) ELSE Leave(vgate, q),
         Stage(q, to) \/ (UNCHANGED stage /\ stage[q] = to)
  PROVE  Validators' /\ vgate'.owner # q
<1>1. LockOK(vgate, Requests) /\ None \notin Requests
  BY TableAssumption DEF Validators
<1>2. /\ LockOK(vgate', Requests)
      /\ \A p \in Requests : Inside(vgate', p) <=> Inside(vgate, p) /\ p # q
      /\ vgate.owner # q => vgate'.owner = vgate.owner
  BY <1>1, ExitLock
<1>3. stage'[q] = to /\ \A p \in Requests \ {q} : stage'[p] = stage[p]
  BY StageOf
<1>4. \A p \in Requests : vgate'.owner = p => Inside(vgate, p) /\ p # q
  BY <1>2 DEF Inside
<1>5. ASSUME NEW p \in Requests
      PROVE  /\ stage'[p] = "validate" => Inside(vgate', p)
             /\ Inside(vgate', p) /\ vgate'.owner # p => stage'[p] = "validate"
             /\ vgate'.owner = p => stage'[p] \in Probing \cup {"validate", "checked", "leave"}
  <2>1. CASE p = q
    BY <2>1, <1>2, <1>3, <1>4
  <2>2. CASE p # q
    <3>1. stage'[p] = stage[p] /\ (Inside(vgate', p) <=> Inside(vgate, p))
      BY <2>2, <1>2, <1>3
    <3>2. /\ stage[p] = "validate" => Inside(vgate, p)
          /\ Inside(vgate, p) /\ vgate.owner # p => stage[p] = "validate"
          /\ vgate.owner = p => stage[p] \in Probing \cup {"validate", "checked", "leave"}
      BY DEF Validators
    <3>3. CASE vgate.owner = p
      BY <3>1, <3>2, <3>3, <2>2, <1>2
    <3>4. CASE vgate.owner # p
      BY <3>1, <3>2, <3>4, <1>4
    <3> QED BY <3>3, <3>4
  <2> QED BY <2>1, <2>2
<1>6. Validators'
  BY <1>2, <1>5 DEF Validators
<1> QED BY <1>4, <1>6

\* Who waits for the validation gate is in validation.acquire, and its owner is
\* between there and the deferred release, after every step.
LEMMA ValidatorsNext ==
  ASSUME FlowInv, FlowNext
  PROVE  Validators'
<1>1. Locals /\ Validators
  BY FlowParts
<1>2. ASSUME NEW q \in Requests, Advance(q)
      PROVE  Validators'
  <2>1. ASSUME stage[q] \notin Probing \cup {"validate", "checked", "leave"}
        PROVE  vgate.owner # q /\ ~Inside(vgate, q)
    BY <2>1, <1>1 DEF Validators
  <2>2. CASE Acquire(q) \/ AcquireNoSlot(q)
    <3>1. vgate.owner # q
      BY <2>1, <2>2 DEF Acquire, AcquireNoSlot, Probing
    <3> QED BY <2>2, <3>1, <1>1, KeepValidators DEF Acquire, AcquireNoSlot, Returned
  <2>3. CASE ReleaseBucket(q)
    BY <2>3, <1>1, KeepValidators DEF ReleaseBucket, Returned
  <2>3a. CASE LoadValidity(q)
    <3>1. vgate.owner # q /\ stage[q] = "check" /\ UNCHANGED vgate
      BY <2>1, <2>3a DEF LoadValidity, Probing
    <3>2. \E to \in {"enter", "checked"} : Stage(q, to)
      BY <2>3a DEF LoadValidity
    <3> QED BY <3>1, <3>2, <1>1, KeepValidators
  <2>4. CASE EnterValidation(q)
    <3>1. vgate.owner # q /\ ~Inside(vgate, q) /\ stage[q] = "enter"
      BY <2>1, <2>4 DEF EnterValidation, Probing
    <3>2. CASE UNCHANGED vgate /\ Stage(q, "leave")
      BY <3>1, <3>2, <1>1, KeepValidators
    <3>3. CASE /\ Stage(q, "validate")
               /\ vgate' = IF vgate.owner = None THEN Grab(vgate, q) ELSE Join(vgate, q)
      <4>1. /\ LockOK(vgate', Requests)
            /\ \A p \in Requests : Inside(vgate', p) <=> Inside(vgate, p) \/ p = q
            /\ IF vgate.owner = None THEN vgate'.owner = q ELSE vgate'.owner = vgate.owner
        BY <3>1, <3>3, <1>1, EnterLock DEF Validators
      <4>2. stage'[q] = "validate" /\ \A p \in Requests \ {q} : stage'[p] = stage[p]
        BY <3>3, <1>1, StageOf
      <4>3. \A p \in Requests \ {q} : Inside(vgate, p) => vgate.owner # None
        <5>1. Range(<< >>) = {}
          BY DEF Range
        <5> QED BY <5>1, <1>1, TableAssumption DEF Validators, LockOK, Inside, Queued
      <4> QED BY <4>1, <4>2, <4>3, <1>1 DEF Validators
    <3> QED BY <2>4, <3>2, <3>3 DEF EnterValidation, Return
  <2>5. CASE Validate(q)
    <3>1. vgate.owner = q /\ Inside(vgate, q) /\ Stage(q, "checked")
      BY <2>5 DEF Validate, Inside
    <3>2. CASE vgate' = Pass(vgate)
      BY <3>1, <3>2, <1>1, ExitValidators
    <3>3. CASE vgate' = vgate
      <4>1. stage'[q] = "checked" /\ \A p \in Requests \ {q} : stage'[p] = stage[p]
        BY <3>1, <1>1, StageOf
      <4> QED BY <3>1, <3>3, <4>1, <1>1 DEF Validators
    <3> QED BY <2>5, <3>2, <3>3 DEF Validate
  <2>6. CASE ValidateCancelled(q)
    BY <2>6, <1>1, ExitValidators DEF ValidateCancelled, Return, Validators
  <2>7. CASE Checked(q) \/ WaitBucket(q) \/ WaitGivenUp(q) \/ Paced(q) \/ PaceGivenUp(q)
    BY <2>7, <1>1, KeepValidators DEF Checked, WaitBucket, WaitGivenUp, Paced, PaceGivenUp, Return, Probing
  <2>8. CASE Send(q) \/ SendRefused(q) \/ NoAnswer(q) \/ LearnReply(q)
    BY <2>8, <1>1, KeepValidators DEF Send, SendRefused, NoAnswer, LearnReply, Return, Probing
  <2>9. CASE \E s \in Replies, n \in 0..MaxBlock : Answer(q, s, n)
    BY <2>9, <1>1, KeepValidators DEF Answer, Probing
  <2>10. CASE Judge(q)
    <3>1. CASE vgate.owner = q
      BY <2>10, <3>1, <1>1, ExitValidators DEF Judge, Inside
    <3>2. CASE vgate.owner # q
      BY <2>10, <3>2, <1>1, KeepValidators DEF Judge
    <3> QED BY <3>1, <3>2
  <2>11. CASE DropValidation(q)
    BY <2>11, <1>1, ExitValidators DEF DropValidation, Inside
  <2> QED BY <1>2, <2>2, <2>3, <2>4, <2>5, <2>6, <2>7, <2>8, <2>9, <2>10, <2>11, <2>3a DEF Advance
<1>3. ASSUME NEW q \in Requests, Begin(q) \/ EndContext(q)
      PROVE  Validators'
  <2>1. Begin(q) => vgate.owner # q
    BY <1>1 DEF Begin, Validators, Probing
  <2> QED BY <1>3, <2>1, <1>1, KeepValidators DEF Begin, EndContext
<1>4. CASE Forget \/ Forward \/ SweepIdle
  <2>1. UNCHANGED <<vgate, stage>>
    BY <1>4 DEF Forget, Forward, SweepIdle, flowVars
  <2> QED BY <2>1, <1>1 DEF Validators
<1>5. CASE Evict
  <2>1. LockOK(vgate', Requests) /\ \A q \in Requests : ~Inside(vgate', q)
    BY <1>5, FreeLock, TableAssumption DEF Evict
  <2> QED BY <1>5, <2>1 DEF Evict, Validators, Inside
<1> QED BY <1>2, <1>3, <1>4, <1>5 DEF FlowNext

-----------------------------------------------------------------------------
(* The validity of the credential                                          *)

PastCheck == Probing \cup {"checked"}

\* A step that neither settles the credential nor touches the validation gate.
LEMMA KeepProbed ==
  ASSUME Locals, Probed, UNCHANGED <<validity, vgate, reply>>, again' \subseteq again,
         NEW q \in Requests, NEW to,
         \/ UNCHANGED stage
         \/ /\ Stage(q, to)
            /\ to \in PastCheck =>
                 /\ stage[q] \in PastCheck \/ ~Ordinary(q) \/ validity # "unknown"
                 /\ vgate.owner = q => stage[q] \in PastCheck
            /\ stage[q] = "learn" => to = "judge"
            /\ stage[q] = "judge" => to \notin PastCheck
  PROVE  Probed'
<1>1. CASE UNCHANGED stage
  BY <1>1 DEF Probed, Ordinary
<1>2. CASE ~UNCHANGED stage
  <2>1. stage'[q] = to /\ \A p \in Requests \ {q} : stage'[p] = stage[p]
    BY <1>2, StageOf
  <2>2. ASSUME validity' = "unknown", NEW p \in Requests, Ordinary(p)
        PROVE  p \notin again' /\ (stage'[p] \in PastCheck => vgate'.owner = p)
    BY <2>1, <2>2, <1>2 DEF Probed, PastCheck
  <2>3. ASSUME NEW p \in Requests, vgate'.owner = p, stage'[p] \in PastCheck, validity' # "unknown"
        PROVE  /\ stage'[p] \in {"learn", "judge"}
               /\ validity' = "invalid" /\ reply'[p] = "401" /\ ~Disable401Lock
    <3>1. stage[p] \in PastCheck
      BY <2>1, <2>3, <1>2
    <3>2. /\ stage[p] \in {"learn", "judge"}
          /\ validity = "invalid" /\ reply[p] = "401" /\ ~Disable401Lock
      BY <2>3, <3>1 DEF Probed, PastCheck
    <3> QED BY <2>1, <2>3, <3>2, <1>2
  <2> QED BY <2>2, <2>3 DEF Probed, PastCheck, Ordinary
<1> QED BY <1>1, <1>2

\* The gate passes on, or one leaves its queue: its next owner is still waiting
\* and has not been past the check.
LEMMA ExitProbed ==
  ASSUME Locals, Validators, Probed, NEW q \in Requests, Inside(vgate, q),
         vgate' = IF vgate.owner = q THEN Pass(vgate) ELSE Leave(vgate, q),
         \A p \in Requests \ {q} : stage'[p] = stage[p] /\ reply'[p] = reply[p],
         \/ validity' # "unknown" /\ (vgate.owner = q \/ UNCHANGED validity)
         \/ stage'[q] \notin PastCheck /\ UNCHANGED validity /\ again' \subseteq again
  PROVE  Probed'
<1>1. LockOK(vgate, Requests)
  BY DEF Validators
<1>2. /\ \A p \in Requests : Inside(vgate', p) <=> Inside(vgate, p) /\ p # q
      /\ vgate.owner # q => vgate'.owner = vgate.owner
  BY <1>1, ExitLock
<1>3. ASSUME NEW p \in Requests, vgate'.owner = p
      PROVE  p # q /\ (vgate.owner = p \/ stage[p] = "validate")
  BY <1>2, <1>3 DEF Validators, Inside
<1>4. ASSUME validity' = "unknown", NEW p \in Requests, Ordinary(p)
      PROVE  p \notin again' /\ (stage'[p] \in PastCheck => vgate'.owner = p)
  BY <1>2, <1>4 DEF Probed, PastCheck
<1>5. ASSUME NEW p \in Requests, vgate'.owner = p, stage'[p] \in PastCheck, validity' # "unknown"
      PROVE  /\ stage'[p] \in {"learn", "judge"}
             /\ validity' = "invalid" /\ reply'[p] = "401" /\ ~Disable401Lock
  <2>1. p # q /\ stage'[p] = stage[p] /\ reply'[p] = reply[p]
    BY <1>3, <1>5
  <2>2. vgate.owner = p /\ UNCHANGED validity
    BY <2>1, <1>3, <1>5 DEF PastCheck, Probing
  <2> QED BY <2>1, <2>2, <1>5 DEF Probed, PastCheck
<1> QED BY <1>4, <1>5 DEF Probed, PastCheck, Ordinary

\* After every step: while the credential is unknown, who is past the check
\* holds the gate and nobody retries; and nobody but the prober settles it.
LEMMA ProbedNext ==
  ASSUME FlowInv, FlowNext
  PROVE  Probed'
<1>1. Locals /\ Validators /\ Probed /\ AtRest
  BY FlowParts
<1>2. ASSUME NEW q \in Requests, Advance(q)
      PROVE  Probed'
  <2>1. ASSUME stage[q] \notin Probing \cup {"validate", "checked", "leave"}
        PROVE  vgate.owner # q
    BY <2>1, <1>1 DEF Validators
  <2>2. CASE Acquire(q) \/ AcquireNoSlot(q)
    <3>1. vgate.owner # q /\ stage[q] = "queue"
      BY <2>1, <2>2 DEF Acquire, AcquireNoSlot, Probing
    <3>2. q \in again => ~Ordinary(q) \/ validity # "unknown"
      BY <1>1 DEF Probed
    <3>3. /\ UNCHANGED <<validity, vgate, reply>> /\ again' \subseteq again
          /\ \/ UNCHANGED stage
             \/ Stage(q, "new") \/ Stage(q, "check")
             \/ Stage(q, "ready") /\ q \in again
      BY <2>2 DEF Acquire, AcquireNoSlot, Returned
    <3> QED BY <3>1, <3>2, <3>3, <1>1, KeepProbed DEF PastCheck, Probing
  <2>3. CASE ReleaseBucket(q)
    BY <2>3, <1>1, KeepProbed DEF ReleaseBucket, Returned, PastCheck, Probing
  <2>3a. CASE LoadValidity(q)
    <3>1. /\ vgate.owner # q /\ stage[q] = "check"
          /\ UNCHANGED <<validity, vgate, reply, again>>
      BY <2>1, <2>3a DEF LoadValidity, Probing
    <3>2. \/ Stage(q, "enter")
          \/ Stage(q, "checked") /\ (~Ordinary(q) \/ validity # "unknown")
      BY <2>3a DEF LoadValidity
    <3> QED BY <3>1, <3>2, <1>1, KeepProbed DEF PastCheck, Probing
  <2>4. CASE EnterValidation(q)
    <3>1. vgate.owner # q /\ stage[q] = "enter" /\ UNCHANGED <<validity, reply>>
      BY <2>1, <2>4 DEF EnterValidation, Probing
    <3>2. CASE UNCHANGED vgate /\ Return(q)
      BY <3>1, <3>2, <1>1, KeepProbed DEF Return, PastCheck, Probing
    <3>3. CASE /\ Stage(q, "validate") /\ UNCHANGED again
               /\ vgate' = IF vgate.owner = None THEN Grab(vgate, q) ELSE Join(vgate, q)
      <4>1. IF vgate.owner = None THEN vgate'.owner = q ELSE vgate'.owner = vgate.owner
        BY <3>3 DEF Grab, Join
      <4>2. stage'[q] = "validate" /\ \A p \in Requests \ {q} : stage'[p] = stage[p]
        BY <3>3, <1>1, StageOf
      <4>3. None \notin Requests
        BY TableAssumption
      <4> QED BY <3>1, <4>1, <4>2, <4>3, <3>3, <1>1 DEF Probed, Probing, Ordinary
    <3> QED BY <2>4, <3>2, <3>3 DEF EnterValidation
  <2>5. CASE Validate(q)
    <3>1. /\ vgate.owner = q /\ Inside(vgate, q) /\ UNCHANGED <<validity, reply, again>>
          /\ stage'[q] = "checked" /\ \A p \in Requests \ {q} : stage'[p] = stage[p]
      BY <2>5, <1>1, StageOf DEF Validate, Inside
    <3>2. CASE validity # "unknown" /\ vgate' = Pass(vgate)
      BY <3>1, <3>2, <1>1, ExitProbed
    <3>3. CASE validity = "unknown" /\ vgate' = vgate
      BY <3>1, <3>3, <1>1 DEF Probed, Ordinary
    <3> QED BY <2>5, <3>2, <3>3 DEF Validate
  <2>6. CASE ValidateCancelled(q)
    <3>1. /\ Inside(vgate, q) /\ UNCHANGED <<validity, reply>> /\ again' \subseteq again
          /\ vgate' = IF vgate.owner = q THEN Pass(vgate) ELSE Leave(vgate, q)
          /\ stage'[q] = "leave" /\ \A p \in Requests \ {q} : stage'[p] = stage[p]
      BY <2>6, <1>1, StageOf DEF ValidateCancelled, Return, Validators
    <3> QED BY <3>1, <1>1, ExitProbed DEF PastCheck, Probing
  <2>7. CASE Checked(q) \/ WaitBucket(q) \/ WaitGivenUp(q) \/ Paced(q) \/ PaceGivenUp(q)
    BY <2>7, <1>1, KeepProbed DEF Checked, WaitBucket, WaitGivenUp, Paced, PaceGivenUp, Return,
       PastCheck, Probing
  <2>8. CASE Send(q) \/ SendRefused(q) \/ NoAnswer(q) \/ LearnReply(q)
    BY <2>8, <1>1, KeepProbed DEF Send, SendRefused, NoAnswer, LearnReply, Return, PastCheck, Probing
  <2>9. CASE \E s \in Replies, n \in 0..MaxBlock : Answer(q, s, n)
    <3>1. PICK s \in Replies : \E n \in 0..MaxBlock : Answer(q, s, n)
      BY <2>9
    <3>2. /\ stage[q] = "sent" /\ UNCHANGED <<vgate, again>>
          /\ validity' = IF s = "401" /\ Locks401(q) THEN "invalid" ELSE validity
          /\ reply' = [reply EXCEPT ![q] = s] /\ Stage(q, "learn")
      BY <3>1 DEF Answer
    <3>3. /\ stage'[q] = "learn" /\ reply'[q] = s
          /\ \A p \in Requests \ {q} : stage'[p] = stage[p] /\ reply'[p] = reply[p]
      BY <3>2, <1>1, StageOf DEF Locals
    <3>4. ASSUME validity' = "unknown", NEW p \in Requests, Ordinary(p)
          PROVE  p \notin again' /\ (stage'[p] \in Probing \cup {"checked"} => vgate'.owner = p)
      BY <3>2, <3>3, <3>4, <1>1 DEF Probed, Probing
    <3>5. ASSUME NEW p \in Requests, vgate'.owner = p, stage'[p] \in Probing \cup {"checked"},
                 validity' # "unknown"
          PROVE  /\ stage'[p] \in {"learn", "judge"}
                 /\ validity' = "invalid" /\ reply'[p] = "401" /\ ~Disable401Lock
      <4>1. CASE p = q
        <5>1. validity = "unknown"
          BY <3>2, <3>5, <4>1, <1>1 DEF Probed, Probing
        <5> QED BY <3>2, <3>3, <3>5, <4>1, <5>1 DEF Locks401
      <4>2. CASE p # q
        <5>1. s = "401" /\ Locks401(q) => validity # "unknown"
          BY <3>2, <3>5, <4>2, <1>1 DEF Probed, Probing, Locks401
        <5> QED BY <3>2, <3>3, <3>5, <4>2, <5>1, <1>1 DEF Probed
      <4> QED BY <4>1, <4>2
    <3> QED BY <3>4, <3>5 DEF Probed, Ordinary
  <2>10. CASE Judge(q)
    <3>1. /\ stage'[q] = "leave"
          /\ \A p \in Requests \ {q} : stage'[p] = stage[p] /\ reply'[p] = reply[p]
      BY <2>10, <1>1, StageOf DEF Judge, Locals
    <3>2. CASE vgate.owner = q
      BY <2>10, <3>1, <3>2, <1>1, ExitProbed DEF Judge, Inside
    <3>3. CASE vgate.owner # q
      <4>1. Ordinary(q) => validity # "unknown"
        BY <2>10, <3>3, <1>1 DEF Judge, Probed, Probing
      <4>2. UNCHANGED <<validity, vgate>> /\ again' \subseteq again \cup {q}
        BY <2>10, <3>3 DEF Judge
      <4> QED BY <3>1, <3>3, <4>1, <4>2, <1>1 DEF Probed, Probing, Ordinary
    <3> QED BY <3>2, <3>3
  <2>11. CASE DropValidation(q)
    BY <2>11, <1>1, ExitProbed DEF DropValidation, Inside, PastCheck, Probing
  <2> QED BY <1>2, <2>2, <2>3, <2>4, <2>5, <2>6, <2>7, <2>8, <2>9, <2>10, <2>11, <2>3a DEF Advance
<1>3. ASSUME NEW q \in Requests, Begin(q) \/ EndContext(q)
      PROVE  Probed'
  BY <1>3, <1>1, KeepProbed DEF Begin, EndContext, PastCheck, Probing
<1>4. CASE Forget \/ Forward \/ SweepIdle
  <2>1. UNCHANGED <<vgate, stage, validity, reply, again>>
    BY <1>4 DEF Forget, Forward, SweepIdle, flowVars
  <2> QED BY <2>1, <1>1 DEF Probed, Ordinary
<1>5. CASE Evict
  <2>1. \A q \in Requests : stage'[q] = "new" /\ q \notin again'
    BY <1>5, <1>1 DEF Evict, AtRest
  <2> QED BY <2>1 DEF Probed, Probing
<1> QED BY <1>2, <1>3, <1>4, <1>5 DEF FlowNext

\* What was invalid stays so in every step but an eviction: the only request
\* that may call the credential valid holds the gate, and if the credential is
\* invalid by then, its own answer was the 401.
LEMMA SticksNext ==
  ASSUME FlowInv, FlowNext, validity = "invalid", validity' # "invalid"
  PROVE  \A q \in Requests : stage[q] = "new"
<1>1. Probed
  BY FlowParts
<1>2. ASSUME NEW q \in Requests, Advance(q)
      PROVE  FALSE
  <2>1. CASE Judge(q)
    <3>1. vgate.owner = q => reply[q] = "401" /\ ~Disable401Lock
      BY <2>1, <1>1 DEF Judge, Probed, Probing
    <3> QED BY <2>1, <3>1 DEF Judge
  <2>2. CASE Acquire(q) \/ AcquireNoSlot(q) \/ ReleaseBucket(q) \/ DropValidation(q)
    BY <2>2 DEF Acquire, AcquireNoSlot, ReleaseBucket, DropValidation
  <2>3. CASE \/ LoadValidity(q) \/ EnterValidation(q)
             \/ Validate(q) \/ ValidateCancelled(q) \/ Checked(q)
    BY <2>3 DEF LoadValidity, EnterValidation, Validate, ValidateCancelled, Checked
  <2>4. CASE WaitBucket(q) \/ WaitGivenUp(q) \/ Paced(q) \/ PaceGivenUp(q)
    BY <2>4 DEF WaitBucket, WaitGivenUp, Paced, PaceGivenUp
  <2>5. CASE Send(q) \/ SendRefused(q) \/ NoAnswer(q) \/ LearnReply(q)
    BY <2>5 DEF Send, SendRefused, NoAnswer, LearnReply
  <2>6. CASE \E s \in Replies, n \in 0..MaxBlock : Answer(q, s, n)
    BY <2>6 DEF Answer
  <2> QED BY <1>2, <2>1, <2>2, <2>3, <2>4, <2>5, <2>6 DEF Advance
<1>3. ASSUME NEW q \in Requests, Begin(q) \/ EndContext(q)
      PROVE  FALSE
  BY <1>3 DEF Begin, EndContext
<1>4. CASE Forget \/ Forward \/ SweepIdle
  BY <1>4 DEF Forget, Forward, SweepIdle, flowVars
<1>5. CASE Evict
  BY <1>5 DEF Evict
<1> QED BY <1>2, <1>3, <1>4, <1>5 DEF FlowNext

-----------------------------------------------------------------------------
(* Requests that have returned                                             *)

\* A request that has returned is at no bucket and is no retry, after every step.
LEMMA AtRestNext ==
  ASSUME TableInv, FlowInv, FlowNext
  PROVE  AtRest'
<1>1. Locals /\ AtRest /\ TypeOK
  BY FlowParts, Parts
<1>2. ASSUME NEW q \in Requests, \A p \in Requests \ {q} : pc'[p] = pc[p], again' \subseteq again \cup {q},
             NEW to, Stage(q, to), to = "new" => pc'[q] = "out" /\ q \notin again'
      PROVE  AtRest'
  BY <1>1, <1>2, StageOf DEF AtRest
<1>3. ASSUME UNCHANGED stage, again' \subseteq again,
             \A p \in Requests : stage[p] = "new" => pc'[p] = pc[p]
      PROVE  AtRest'
  BY <1>1, <1>3 DEF AtRest
<1>4. ASSUME NEW q \in Requests, Return(q)
      PROVE  AtRest'
  <2>1. \A p \in Requests \ {q} : pc'[p] = pc[p]
    BY <1>1, <1>4, Moved DEF Return
  <2> QED BY <1>2, <1>4, <2>1 DEF Return
<1>5. ASSUME NEW q \in Requests, Advance(q)
      PROVE  AtRest'
  <2>1. CASE Acquire(q) \/ ReleaseBucket(q)
    <3>1. /\ \A p \in Requests \ {q} : pc'[p] = pc[p]
          /\ stage[q] # "new"
      BY <2>1, <1>1, Moved DEF Acquire, ReleaseBucket
    <3>2. CASE UNCHANGED <<stage, again>>
      BY <1>3, <3>1, <3>2
    <3>3. CASE Returned(q) /\ pc'[q] = "out"
      BY <1>2, <3>1, <3>3 DEF Returned
    <3>4. CASE UNCHANGED again /\ \E to \in Stages \ {"new"} : Stage(q, to)
      BY <1>2, <3>1, <3>4
    <3> QED BY <2>1, <3>2, <3>3, <3>4 DEF Acquire, ReleaseBucket, Stages
  <2>2. CASE AcquireNoSlot(q)
    BY <2>2, <1>2 DEF AcquireNoSlot, Returned
  <2>3. CASE \/ LoadValidity(q) \/ EnterValidation(q)
             \/ Validate(q) \/ ValidateCancelled(q) \/ Checked(q)
    BY <2>3, <1>2, <1>4 DEF LoadValidity, EnterValidation, Validate, ValidateCancelled, Checked, vars
  <2>4. CASE WaitBucket(q) \/ Send(q) \/ LearnReply(q)
    <3>1. \A p \in Requests \ {q} : pc'[p] = pc[p]
      BY <2>4, <1>1, Moved DEF WaitBucket, Send, LearnReply
    <3> QED BY <2>4, <3>1, <1>2 DEF WaitBucket, Send, LearnReply
  <2>5. CASE WaitGivenUp(q) \/ PaceGivenUp(q) \/ SendRefused(q) \/ NoAnswer(q)
    BY <2>5, <1>4 DEF WaitGivenUp, PaceGivenUp, SendRefused, NoAnswer
  <2>6. CASE Paced(q) \/ Judge(q)
    BY <2>6, <1>2 DEF Paced, Judge, vars
  <2>7. ASSUME NEW s \in Replies, NEW n \in 0..MaxBlock, Answer(q, s, n)
        PROVE  AtRest'
    <3>1. Respond(q)
      BY <2>7, TableAssumption DEF Answer, Respond
    <3>2. \A p \in Requests \ {q} : pc'[p] = pc[p]
      BY <3>1, <1>1, Moved
    <3> QED BY <2>7, <3>2, <1>2 DEF Answer
  <2>8. CASE DropValidation(q)
    BY <2>8, <1>3 DEF DropValidation, vars
  <2> QED BY <1>5, <2>1, <2>2, <2>3, <2>4, <2>5, <2>6, <2>7, <2>8 DEF Advance
<1>6. ASSUME NEW q \in Requests, Begin(q) \/ EndContext(q)
      PROVE  AtRest'
  BY <1>6, <1>2, <1>3 DEF Begin, EndContext, vars
<1>7. CASE Forget \/ Forward \/ SweepIdle \/ Evict
  <2>1. UNCHANGED <<stage, again, pc>>
    BY <1>7 DEF Forget, Forward, SweepIdle, Sweep, Age, Evict, Clear, flowVars, vars
  <2> QED BY <2>1, <1>3
<1> QED BY <1>5, <1>6, <1>7 DEF FlowNext

-----------------------------------------------------------------------------
(* Cooldowns                                                               *)

\* Time alone shortens what a route has still to wait, and by one.
LEMMA RemainingStep ==
  ASSUME TableInv, TableInv', FlowNext
  PROVE  /\ Forward => \A r \in Routes : Remaining(r)' = Later(Remaining(r) - 1, 0)
         /\ ~Forward => \A r \in Routes : Remaining(r)' >= Remaining(r)
<1>1. TypeOK
  BY Parts
<1>2. MaxBlock \in Nat /\ left \in [Buckets -> 0..MaxBlock]
  BY <1>1, TableAssumption DEF TypeOK
<1>3. ASSUME Forward, NEW r \in Routes
      PROVE  Remaining(r)' = Later(Remaining(r) - 1, 0)
  <2>1. Resolve(r)' = Resolve(r) /\ left' = [b \in Buckets |-> Later(left[b] - 1, 0)]
    BY <1>3 DEF Forward, Resolve, KeyOf, tableVars
  <2>2. Resolve(r) \in Buckets \cup {None}
    BY <1>1, RemainingType
  <2> QED BY <2>1, <2>2 DEF Remaining, Later
<1>4. ASSUME ~Forward, NEW r \in Routes
      PROVE  Remaining(r)' >= Remaining(r)
  <2>1. Remaining(r) \in Nat
    BY <1>1, RemainingType
  <2>2. CASE UNCHANGED vars
    <3>1. Remaining(r)' = Remaining(r)
      BY <2>2 DEF Remaining, Resolve, KeyOf, vars, tableVars, bucketVars
    <3> QED BY <2>1, <3>1
  <2>3. CASE Next /\ (pc' # pc \/ UNCHANGED left)
    <3>1. ~Tick
      <4>1. ASSUME Tick PROVE left' # left
        <5>1. PICK b \in Buckets : left[b] > 0
          BY <4>1 DEF Tick
        <5>2. left'[b] = Later(left[b] - 1, 0)
          BY <4>1 DEF Tick
        <5> QED BY <5>1, <5>2, <1>2 DEF Later
      <4> QED BY <2>3, <4>1 DEF Tick
    <3> QED BY <2>3, <3>1, CooldownNext DEF CooldownStep
  <2> QED BY <1>4, <2>2, <2>3, TableStep
<1> QED BY <1>3, <1>4

\* The times compared are numbers, before and after a step.
LEMMA DueTypes ==
  ASSUME TableInv, TableInv', Locals, Locals', NEW q \in Requests
  PROVE  /\ RouteOf[q] \in Routes /\ MaxBlock \in Nat
         /\ Remaining(RouteOf[q]) \in Nat /\ Remaining(RouteOf[q])' \in Nat
         /\ blocked \in Nat /\ blocked' \in Nat /\ told[q] \in Nat /\ told'[q] \in Nat
<1>1. TypeOK /\ RouteOf[q] \in Routes /\ MaxBlock \in Nat
  BY Parts, TableAssumption
<1>2. TypeOK'
  BY Zenon DEF TableInv, CountsExact
<1>3. PICK r \in Routes : r = RouteOf[q]
  BY <1>1
<1>4. Remaining(r) \in Nat /\ Remaining(r)' \in Nat
  BY <1>1, <1>2, RemainingType, RemainingNext
<1>5. blocked \in 0..MaxBlock /\ blocked' \in 0..MaxBlock /\ told[q] \in 0..MaxBlock /\ told'[q] \in 0..MaxBlock
  BY DEF Locals
<1> QED BY <1>1, <1>3, <1>4, <1>5

\* A step in which no wait is shortened, and q owes no more than before.
LEMMA KeepOwed ==
  ASSUME TableInv, TableInv', Locals, Locals', Owed, blocked' >= blocked,
         \A r \in Routes : Remaining(r)' >= Remaining(r), NEW q \in Requests, NEW to,
         \/ UNCHANGED told
         \/ told' = [told EXCEPT ![q] = 0],
         \/ UNCHANGED stage
         \/ /\ Stage(q, to)
            /\ to = "pacing" => Ordinary(q) /\ told'[q] <= blocked'
            /\ to \in {"reserve", "sent"} => told'[q] = 0
  PROVE  Owed'
<1> SUFFICES ASSUME NEW p \in Requests
             PROVE  /\ told'[p] <= Due(p)'
                    /\ stage'[p] = "pacing" => Ordinary(p) /\ told'[p] <= blocked'
                    /\ stage'[p] \in {"reserve", "sent"} => told'[p] = 0
  BY DEF Owed, Ordinary
<1>1. /\ RouteOf[p] \in Routes /\ MaxBlock \in Nat
      /\ Remaining(RouteOf[p]) \in Nat /\ Remaining(RouteOf[p])' \in Nat
      /\ blocked \in Nat /\ blocked' \in Nat /\ told[p] \in Nat /\ told'[p] \in Nat
  BY DueTypes
<1>2. told'[p] = told[p] \/ told'[p] = 0
  BY DEF Locals
<1>3. /\ told[p] <= Due(p)
      /\ stage[p] = "pacing" => Ordinary(p) /\ told[p] <= blocked
      /\ stage[p] \in {"reserve", "sent"} => told[p] = 0
  BY DEF Owed
<1>4. Remaining(RouteOf[p])' >= Remaining(RouteOf[p])
  BY <1>1
<1>5. told'[p] <= Due(p)'
  BY <1>1, <1>2, <1>3, <1>4 DEF Due, Later, Ordinary
<1>6. stage'[p] = stage[p] \/ (p = q /\ stage'[p] = to /\ stage' # stage)
  BY StageOf
<1> QED BY <1>1, <1>2, <1>3, <1>5, <1>6

\* The stages that ask nothing of what a request owes.
Quiet == {"new", "queue", "check", "enter", "validate", "checked", "ready", "learn", "judge", "leave"}

\* After every step, what a request still owes of its own 429 is owed by its
\* bucket or by the pacer, and it has passed both before it is sent again.
LEMMA OwedNext ==
  ASSUME TableInv, TableInv', FlowInv, FlowNext
  PROVE  Owed'
<1>1. Locals /\ Owed /\ TypeOK
  BY FlowParts, Parts
<1>2. Locals'
  BY LocalsNext
<1>3. blocked \in Nat
  BY <1>1, TableAssumption DEF Locals
<1>4. CASE Forward
  <2> SUFFICES ASSUME NEW p \in Requests
               PROVE  /\ told'[p] <= Due(p)'
                      /\ stage'[p] = "pacing" => Ordinary(p) /\ told'[p] <= blocked'
                      /\ stage'[p] \in {"reserve", "sent"} => told'[p] = 0
    BY DEF Owed, Ordinary
  <2>1. /\ RouteOf[p] \in Routes /\ MaxBlock \in Nat
        /\ Remaining(RouteOf[p]) \in Nat /\ Remaining(RouteOf[p])' \in Nat
        /\ blocked \in Nat /\ blocked' \in Nat /\ told[p] \in Nat /\ told'[p] \in Nat
    BY <1>1, <1>2, DueTypes
  <2>2. Remaining(RouteOf[p])' = Later(Remaining(RouteOf[p]) - 1, 0)
    BY <1>4, <2>1, RemainingStep
  <2>3. /\ blocked' = Later(blocked - 1, 0) /\ told'[p] = Later(told[p] - 1, 0)
        /\ stage' = stage
    BY <1>4 DEF Forward
  <2>4. /\ told[p] <= Due(p)
        /\ stage[p] = "pacing" => Ordinary(p) /\ told[p] <= blocked
        /\ stage[p] \in {"reserve", "sent"} => told[p] = 0
    BY <1>1 DEF Owed
  <2>5. told'[p] <= Due(p)'
    BY <2>1, <2>2, <2>3, <2>4 DEF Due, Later, Ordinary
  <2>6. told[p] <= blocked => told'[p] <= blocked'
    BY <2>1, <2>3 DEF Later
  <2>7. told[p] = 0 => told'[p] = 0
    BY <2>3 DEF Later
  <2> QED BY <2>3, <2>4, <2>5, <2>6, <2>7
<1>5. CASE ~Forward
  <2>1. \A r \in Routes : Remaining(r)' >= Remaining(r)
    BY <1>5, RemainingStep
  <2>2. ASSUME UNCHANGED blocked, NEW q \in Requests, NEW to,
               UNCHANGED told \/ told' = [told EXCEPT ![q] = 0],
               \/ UNCHANGED stage
               \/ /\ Stage(q, to)
                  /\ to = "pacing" => Ordinary(q) /\ told'[q] <= blocked
                  /\ to \in {"reserve", "sent"} => told'[q] = 0
        PROVE  Owed'
    BY <1>1, <1>2, <1>3, <2>1, <2>2, KeepOwed
  <2>3. ASSUME NEW q \in Requests, UNCHANGED <<blocked, told>>,
               UNCHANGED stage \/ \E to \in Quiet : Stage(q, to)
        PROVE  Owed'
    <3>1. CASE UNCHANGED stage
      BY <2>2, <2>3, <3>1
    <3>2. CASE \E to \in Quiet : Stage(q, to)
      <4>1. PICK to \in Quiet : Stage(q, to)
        BY <3>2
      <4>2. to # "pacing" /\ to \notin {"reserve", "sent"}
        BY <4>1 DEF Quiet
      <4> QED BY <2>2, <2>3, <4>1, <4>2
    <3> QED BY <2>3, <3>1, <3>2
  <2>4. ASSUME NEW q \in Requests, Returned(q), UNCHANGED blocked
        PROVE  Owed'
    <3>1. Stage(q, "new") /\ told' = [told EXCEPT ![q] = 0]
      BY <2>4 DEF Returned
    <3>2. PICK to : to = "new"
      OBVIOUS
    <3>3. /\ Stage(q, to)
          /\ to = "pacing" => Ordinary(q) /\ told'[q] <= blocked
          /\ to \in {"reserve", "sent"} => told'[q] = 0
      BY <3>1, <3>2
    <3> QED BY <2>2, <2>4, <3>1, <3>3
  <2>5. ASSUME NEW q \in Requests, Advance(q)
        PROVE  Owed'
    <3>1. CASE Acquire(q) \/ AcquireNoSlot(q) \/ ReleaseBucket(q)
      <4>1. UNCHANGED blocked
        BY <3>1 DEF Acquire, AcquireNoSlot, ReleaseBucket
      <4>2. \/ Returned(q)
            \/ UNCHANGED told /\ (UNCHANGED stage \/ \E to \in Quiet : Stage(q, to))
        BY <3>1 DEF Acquire, AcquireNoSlot, ReleaseBucket, Quiet
      <4> QED BY <2>3, <2>4, <4>1, <4>2
    <3>2. CASE \/ LoadValidity(q) \/ EnterValidation(q)
               \/ Validate(q) \/ ValidateCancelled(q) \/ Checked(q)
      <4>1. UNCHANGED <<blocked, told>> /\ \E to \in Quiet : Stage(q, to)
        BY <3>2 DEF LoadValidity, EnterValidation, Validate, ValidateCancelled, Checked, Return, Quiet
      <4> QED BY <2>3, <4>1
    <3>3. CASE WaitGivenUp(q) \/ PaceGivenUp(q) \/ SendRefused(q) \/ NoAnswer(q)
      <4>1. UNCHANGED <<blocked, told>> /\ \E to \in Quiet : Stage(q, to)
        BY <3>3 DEF WaitGivenUp, PaceGivenUp, SendRefused, NoAnswer, Return, Quiet
      <4> QED BY <2>3, <4>1
    <3>4. CASE WaitBucket(q)
      <4>1. PICK r \in Routes : r = RouteOf[q]
        BY TableAssumption
      <4>2. cur[q] = Resolve(r) /\ left[cur[q]] = 0
        BY <3>4, <4>1, Parts DEF WaitBucket, WaitDone, ActsThroughOwnBucket, Acting
      <4>3. Remaining(r) = 0
        BY <1>1, <4>2, RemainingType
      <4>4. told[q] \in Nat /\ told[q] <= IF Ordinary(q) THEN blocked ELSE 0
        <5>1. told[q] \in Nat /\ blocked \in Nat
          BY <1>1, <1>2, DueTypes
        <5>2. told[q] <= Due(q)
          BY <1>1 DEF Owed
        <5>3. Due(q) = Later(0, IF Ordinary(q) THEN blocked ELSE 0)
          BY <4>1, <4>3 DEF Due
        <5>4. Due(q) = IF Ordinary(q) THEN blocked ELSE 0
          BY <5>1, <5>3 DEF Later
        <5> QED BY <5>1, <5>2, <5>4
      <4>5. CASE Ordinary(q) /\ Stage(q, "pacing")
        BY <3>4, <4>4, <4>5, <2>2 DEF WaitBucket
      <4>6. CASE ~Ordinary(q) /\ Stage(q, "reserve")
        BY <3>4, <4>4, <4>6, <2>2 DEF WaitBucket
      <4> QED BY <3>4, <4>5, <4>6 DEF WaitBucket
    <3>5. CASE Paced(q)
      <4>1. told[q] \in Nat /\ told[q] <= blocked
        BY <3>5, <1>1, <1>2, DueTypes DEF Paced, Owed
      <4> QED BY <3>5, <4>1, <1>3, <2>2 DEF Paced
    <3>6. CASE Send(q)
      BY <3>6, <1>1, <2>2 DEF Send, Owed
    <3>7. ASSUME NEW s \in Replies, NEW n \in 0..MaxBlock, Answer(q, s, n)
          PROVE  Owed'
      <4>1. /\ blocked' = IF s = "429global" THEN Later(blocked, n) ELSE blocked
            /\ told' = [told EXCEPT ![q] = IF s \in Limited THEN n ELSE 0]
            /\ Stage(q, "learn")
            /\ Observe(q, IF s = "429global" /\ Ordinary(q) THEN 0 ELSE n)
        BY <3>7 DEF Answer
      <4>2. n \in Nat /\ 0 \in 0..MaxBlock
        BY TableAssumption
      <4>3. blocked' >= blocked /\ (s = "429global" => blocked' >= n)
        BY <4>1, <4>2, <1>3 DEF Later
      <4>4. CooldownStep
        <5>1. Respond(q)
          BY <4>1, <4>2 DEF Respond
        <5>2. Next
          BY <5>1 DEF Next
        <5> QED BY <5>2, CooldownNext
      <4>5. s # "429global" \/ ~Ordinary(q) => Remaining(RouteOf[q])' >= n
        BY <4>1, <4>4 DEF CooldownStep
      <4> SUFFICES ASSUME NEW p \in Requests
                   PROVE  /\ told'[p] <= Due(p)'
                          /\ stage'[p] = "pacing" => Ordinary(p) /\ told'[p] <= blocked'
                          /\ stage'[p] \in {"reserve", "sent"} => told'[p] = 0
        BY DEF Owed, Ordinary
      <4>6. /\ RouteOf[p] \in Routes /\ MaxBlock \in Nat
            /\ Remaining(RouteOf[p]) \in Nat /\ Remaining(RouteOf[p])' \in Nat
            /\ blocked \in Nat /\ blocked' \in Nat /\ told[p] \in Nat /\ told'[p] \in Nat
        BY <1>1, <1>2, DueTypes
      <4>7. CASE p = q
        <5>1. told'[q] \in {0, n} /\ stage'[q] = "learn"
          BY <4>1, <1>1, StageOf DEF Locals
        <5>2. told'[p] <= Due(p)'
          BY <4>2, <4>3, <4>5, <4>6, <4>7, <5>1 DEF Due, Later, Ordinary
        <5> QED BY <4>7, <5>1, <5>2
      <4>8. CASE p # q
        <5>1. told'[p] = told[p] /\ stage'[p] = stage[p]
          BY <4>1, <4>8, <1>1, StageOf DEF Locals
        <5>2. /\ told[p] <= Due(p)
              /\ stage[p] = "pacing" => Ordinary(p) /\ told[p] <= blocked
              /\ stage[p] \in {"reserve", "sent"} => told[p] = 0
          BY <1>1 DEF Owed
        <5>3. Remaining(RouteOf[p])' >= Remaining(RouteOf[p])
          BY <2>1, <4>6
        <5>4. told'[p] <= Due(p)'
          BY <4>3, <4>6, <5>1, <5>2, <5>3 DEF Due, Later, Ordinary
        <5>5. stage'[p] = "pacing" => Ordinary(p) /\ told'[p] <= blocked'
            <6>1. stage'[p] = "pacing" => Ordinary(p) /\ told'[p] <= blocked
              BY <5>1, <5>2
            <6>2. told'[p] <= blocked => told'[p] <= blocked'
              BY <4>3, <4>6
            <6> QED BY <6>1, <6>2
        <5>6. stage'[p] \in {"reserve", "sent"} => told'[p] = 0
          BY <5>1, <5>2
        <5> QED BY <5>4, <5>5, <5>6
      <4> QED BY <4>7, <4>8
    <3>8. CASE LearnReply(q) \/ Judge(q) \/ DropValidation(q)
      <4>1. UNCHANGED <<blocked, told>> /\ (UNCHANGED stage \/ \E to \in Quiet : Stage(q, to))
        BY <3>8 DEF LearnReply, Judge, DropValidation, Quiet
      <4> QED BY <2>3, <4>1
    <3> QED BY <2>5, <3>1, <3>2, <3>3, <3>4, <3>5, <3>6, <3>7, <3>8 DEF Advance
  <2>6. ASSUME NEW q \in Requests, Begin(q) \/ EndContext(q)
        PROVE  Owed'
    <3>1. UNCHANGED <<blocked, told>> /\ (UNCHANGED stage \/ \E to \in Quiet : Stage(q, to))
      BY <2>6 DEF Begin, EndContext, Quiet
    <3> QED BY <2>3, <2>6, <3>1
  <2>7. CASE Forget \/ SweepIdle \/ Evict
    <3>1. UNCHANGED <<stage, told, blocked>>
      BY <2>7 DEF Forget, SweepIdle, Evict, flowVars
    <3>2. CASE Requests = {}
      BY <3>2 DEF Owed
    <3>3. CASE Requests # {}
      BY <3>1, <3>3, <2>3
    <3> QED BY <3>2, <3>3
  <2> QED BY <1>5, <2>5, <2>6, <2>7 DEF FlowNext
<1> QED BY <1>4, <1>5

-----------------------------------------------------------------------------
(* The theorems                                                            *)

\* Every step keeps the invariant.
LEMMA FlowInvNext ==
  ASSUME TableInv, TableInv', FlowInv, [FlowNext]_allVars
  PROVE  FlowInv'
<1>1. CASE FlowNext
  BY <1>1, LocalsNext, AttemptsNext, ValidatorsNext, PacingNext, ProbedNext, OwedNext, AtRestNext, FlowPartsNext
<1>2. CASE UNCHANGED allVars
  <2>1. UNCHANGED flowVars /\ UNCHANGED vars
    BY <1>2 DEF allVars
  <2>2. FlowTypeOK'
    BY <2>1 DEF FlowInv, FlowTypeOK, flowVars
  <2>3. Attempts' /\ Validators' /\ Pacing'
    BY <2>1 DEF FlowInv, Attempts, Sent, Validators, Pacing, flowVars
  <2>4. Probed' /\ AtRest'
    BY <2>1 DEF FlowInv, Probed, Ordinary, AtRest, flowVars, vars
  <2>5. Owed'
    BY <2>1 DEF FlowInv, Owed, Due, Ordinary, Remaining, Resolve, KeyOf, flowVars, vars, tableVars, bucketVars
  <2> QED BY <2>2, <2>3, <2>4, <2>5, Zenon DEF FlowInv
<1> QED BY <1>1, <1>2

\* The invariants of RoundTrip and of its buckets hold in every state.
THEOREM FlowInvariance == FlowSpec => [](TableInv /\ FlowInv)
<1>1. FlowSpec => []TableInv
  BY FlowUsesTable, TableInvariance, PTL
<1>2. FlowInit => FlowInv
  BY FlowStart
<1>3. TableInv /\ TableInv' /\ FlowInv /\ [FlowNext]_allVars => FlowInv'
  BY FlowInvNext
<1> QED BY <1>1, <1>2, <1>3, PTL DEF FlowSpec

\* While the credential is unknown, one ordinary request at a time probes it, and
\* it holds the validation gate (transport.go:134-149).
THEOREM FlowOneProbe == FlowSpec => []OneProbe
<1>1. FlowInv => OneProbe
  BY DEF FlowInv, Probed, OneProbe
<1> QED BY <1>1, FlowInvariance, PTL

\* Every attempt with Discord, and nothing else, holds a reservation of the
\* invalid-request guard, and the limit is kept (transport.go:204-233).
THEOREM FlowAttemptsReserved == FlowSpec => []AttemptsReserved
<1>1. FlowInv => AttemptsReserved
  BY DEF FlowInv, Attempts, Sent, AttemptsReserved
<1> QED BY <1>1, FlowInvariance, PTL

\* A request that has returned holds no gate, no place in a queue and no count in
\* a bucket, whichever of the return paths it took (transport.go:98-304).
THEOREM FlowNothingKept == FlowSpec => []NothingKept
<1>1. ASSUME TableInv, FlowInv, NEW q \in Requests, stage[q] = "new"
      PROVE  /\ cur[q] = None
             /\ \A l \in {vgate, pgate} \cup Range(gate) : l.owner # q /\ q \notin Queued(l)
  <2>1. pc[q] = "out" /\ Seated /\ Validators /\ Pacing
    BY <1>1, FlowParts, Parts DEF AtRest
  <2>2. cur[q] = None
    BY <2>1 DEF Seated
  <2>3. ~Inside(vgate, q) /\ ~Inside(pgate, q)
    BY <1>1, <2>1 DEF Validators, Pacing, Probing
  <2>4. ASSUME NEW b \in Buckets PROVE ~Inside(gate[b], q)
    BY <2>1 DEF Seated, InGate, Counted, Acting
  <2>5. \A l \in Range(gate) : \E b \in Buckets : l = gate[b]
    BY <1>1, Parts DEF GatesOK, Range
  <2> QED BY <2>2, <2>3, <2>4, <2>5 DEF Inside
<1>2. TableInv /\ FlowInv => NothingKept
  BY <1>1 DEF NothingKept
<1> QED BY <1>2, FlowInvariance, PTL

\* Once invalid, a credential stays invalid as long as any request uses it
\* (transport.go:244-252).
THEOREM FlowInvalidSticks == FlowSpec => InvalidSticks
<1>1. FlowInv /\ [FlowNext]_allVars =>
        [validity = "invalid" /\ validity' # "invalid" => \A q \in Requests : stage[q] = "new"]_allVars
  BY SticksNext
<1> QED BY <1>1, FlowInvariance, PTL DEF FlowSpec, InvalidSticks

\* An absorbed 429 is sent again only once the cooldown it announced has ended,
\* whichever bucket the request was moved to (ratelimit.go:289-306).
THEOREM FlowRetryWaits == FlowSpec => RetryWaits
<1>1. FlowInv => \A q \in Requests : stage[q] = "reserve" => told[q] = 0
  BY DEF FlowInv, Owed
<1>2. FlowInv /\ [FlowNext]_allVars =>
        [\A q \in Requests : stage[q] = "reserve" /\ stage'[q] = "sent" => told[q] = 0]_allVars
  BY <1>1
<1> QED BY <1>2, FlowInvariance, PTL DEF FlowSpec, RetryWaits

=============================================================================
