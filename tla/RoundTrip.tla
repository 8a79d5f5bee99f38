------------------------------ MODULE RoundTrip ------------------------------
(***************************************************************************)
(* One request from RoundTrip's entry to its return: scheduledTransport of *)
(* internal/proxy/transport.go with observeResponse of ratelimit.go, over  *)
(* the buckets of BucketTable.  A request goes through the bucket's gate,  *)
(* the credential's validation gate, the bucket's cooldown, the global     *)
(* pacer and the invalid-request budget, and a 429 sends it round again.   *)
(*                                                                         *)
(* pc of BucketTable says where a request is with respect to its bucket;   *)
(* stage says where it is in RoundTrip.  The pacer keeps its gate and its  *)
(* block; the spacing of its grants is the subject of module Pacer.        *)
(***************************************************************************)
EXTENDS BucketTable

CONSTANTS
  Interactions,    \* routes of interaction endpoints
  Anonymous,       \* the credential's kind is authNone
  Disable401Lock,  \* the configuration flag
  Limit,           \* the limit of the invalid-request guard
  Impatient,       \* bound: requests whose context may end in this instance
  SweeperRuns      \* bound: whether idle buckets are swept in this instance

ASSUME FlowAssumption ==
  /\ Interactions \in SUBSET Routes /\ Impatient \in SUBSET Requests
  /\ Anonymous \in BOOLEAN /\ Disable401Lock \in BOOLEAN /\ SweeperRuns \in BOOLEAN
  /\ Limit \in Nat

VARIABLES
  stage,     \* where the request is in RoundTrip
  vgate,     \* clientState.validation
  validity,  \* clientState.validity
  pgate,     \* clientState.global.gate
  blocked,   \* time until clientState.global.blockedUntil
  reserved,  \* invalidRequestGuard.reserved
  spent,     \* invalid responses the guard retains
  reply,     \* the response being handled, or None
  again,     \* the request is an absorbed 429 being retried
  ctxDone,   \* requests whose queue context has ended
  told       \* history: time until the cooldown of the request's own 429 ends

flowVars == <<stage, vgate, validity, pgate, blocked, reserved, spent, reply,
              again, ctxDone, told>>
allVars == <<vars, flowVars>>

(***************************************************************************)
(* "new"       not in RoundTrip                                            *)
(* "queue"     in acquireBucket                                            *)
(* "check"     holds the bucket, about to load validity                    *)
(* "enter"     loaded clientUnknown, about to call validation.acquire      *)
(* "validate"  in validation.acquire                                       *)
(* "checked"   past the validation gate, about to test for clientInvalid   *)
(* "ready"     at the top of the attempt loop, or in bucket.wait           *)
(* "pacing"    bucket.wait returned, in global.waitFor                     *)
(* "reserve"   about to reserve in the invalid-request guard               *)
(* "sent"      the attempt is with Discord                                 *)
(* "learn"     the response's cooldown is applied, learnBucket is next     *)
(* "judge"     observeResponse returned                                    *)
(* "leave"     releasing what it holds, to return or to retry              *)
(***************************************************************************)
Stages == {"new", "queue", "check", "enter", "validate", "checked", "ready",
           "pacing", "reserve", "sent", "learn", "judge", "leave"}

\* Statuses the code tells apart: 429 by X-RateLimit-Scope and -Global.
Limited == {"429", "429shared", "429global"}
Replies == Limited \cup {"ok", "401", "403"}

\* invalidDiscordResponse
Invalid(s) == s \in {"401", "403", "429", "429global"}

Ordinary(q) == RouteOf[q] \notin Interactions

Stage(q, to) == stage' = [stage EXCEPT ![q] = to]

FlowInit ==
  /\ Init
  /\ stage = [q \in Requests |-> "new"]
  /\ vgate = Free
  /\ validity = IF Anonymous THEN "valid" ELSE "unknown"
  /\ pgate = Free
  /\ blocked = 0
  /\ reserved = 0
  /\ spent = 0
  /\ reply = [q \in Requests |-> None]
  /\ again = {}
  /\ ctxDone = {}
  /\ told = [q \in Requests |-> 0]

-----------------------------------------------------------------------------
(* Entry, and acquireBucket                                                *)

Begin(q) ==
  /\ stage[q] = "new"
  /\ spent + reserved < Limit
  /\ Stage(q, "queue")
  /\ UNCHANGED <<vars, vgate, validity, pgate, blocked, reserved, spent, reply,
                 again, ctxDone, told>>

\* RoundTrip has returned and its local variables are gone.
Returned(q) ==
  /\ Stage(q, "new")
  /\ again' = again \ {q}
  /\ ctxDone' = ctxDone \ {q}
  /\ told' = [told EXCEPT ![q] = 0]

\* The step of acquireBucket that q takes.  It ends with the bucket held, with
\* an error, or not yet.
Acquire(q) ==
  /\ stage[q] = "queue"
  /\ \/ Lookup(q)
     \/ Move(q)
     \/ Granted(q) /\ q \notin ctxDone
     \/ Cancelled(q) /\ q \in ctxDone
  /\ \/ pc'[q] = "out" /\ Returned(q)
     \/ /\ pc'[q] = "holding"
        /\ Stage(q, IF q \in again THEN "ready" ELSE "check")
        /\ UNCHANGED <<again, ctxDone, told>>
     \/ pc'[q] \notin {"holding", "out"} /\ UNCHANGED <<stage, again, ctxDone, told>>
  /\ UNCHANGED <<vgate, validity, pgate, blocked, reserved, spent, reply>>

AcquireNoSlot(q) ==
  /\ stage[q] = "queue" /\ pc[q] = "out"
  /\ NoSlot(RouteOf[q])
  /\ Returned(q)
  /\ UNCHANGED <<pc, cur, tgt, vgate, validity, pgate, blocked, reserved,
                 spent, reply>>

-----------------------------------------------------------------------------
(* The validation gate                                                     *)

\* An error return: what is held is released on the way out.
Return(q) ==
  /\ GiveUp(q)
  /\ Stage(q, "leave")
  /\ again' = again \ {q}

LoadValidity(q) ==
  /\ stage[q] = "check"
  /\ Stage(q, IF Ordinary(q) /\ validity = "unknown" THEN "enter" ELSE "checked")
  /\ UNCHANGED <<vars, vgate, validity, pgate, blocked, reserved, spent, reply,
                 again, ctxDone, told>>

\* validation.acquire: the gate is taken or queued at, or its queue is full.
EnterValidation(q) ==
  /\ stage[q] = "enter"
  /\ IF vgate.owner = None \/ Len(vgate.queue) < MaxWaiters
     THEN /\ vgate' = IF vgate.owner = None THEN Grab(vgate, q) ELSE Join(vgate, q)
          /\ Stage(q, "validate")
          /\ UNCHANGED <<vars, again>>
     ELSE Return(q) /\ UNCHANGED vgate
  /\ UNCHANGED <<validity, pgate, blocked, reserved, spent, reply, ctxDone, told>>

\* Fault: the gate is opened to the next request at once.
ValidateOpen(q) ==
  /\ stage[q] = "validate"
  /\ vgate.owner = q
  /\ q \notin ctxDone
  /\ vgate' = Pass(vgate)
  /\ Stage(q, "checked")
  /\ UNCHANGED <<vars, validity, pgate, blocked, reserved, spent, reply, again,
                 ctxDone, told>>

\* Fault: the validity is not loaded again once the gate is acquired.
ValidateOnce(q) ==
  /\ stage[q] = "validate"
  /\ vgate.owner = q
  /\ q \notin ctxDone
  /\ Stage(q, "checked")
  /\ UNCHANGED <<vars, vgate, validity, pgate, blocked, reserved, spent, reply,
                 again, ctxDone, told>>

\* The gate is kept only if the credential is still unknown.
Validate(q) ==
  /\ stage[q] = "validate"
  /\ vgate.owner = q
  /\ q \notin ctxDone
  /\ vgate' = IF validity # "unknown" THEN Pass(vgate) ELSE vgate
  /\ Stage(q, "checked")
  /\ UNCHANGED <<vars, validity, pgate, blocked, reserved, spent, reply, again,
                 ctxDone, told>>

ValidateCancelled(q) ==
  /\ stage[q] = "validate"
  /\ q \in ctxDone
  /\ vgate' = IF vgate.owner = q THEN Pass(vgate) ELSE Leave(vgate, q)
  /\ Return(q)
  /\ UNCHANGED <<validity, pgate, blocked, reserved, spent, reply, ctxDone, told>>

\* Answer 401 for a credential known invalid; else newBodyReplay, which fails
\* when the retry-capture budget is exhausted.
Checked(q) ==
  /\ stage[q] = "checked"
  /\ \/ validity # "invalid" /\ Stage(q, "ready") /\ UNCHANGED <<vars, again>>
     \/ Return(q)
  /\ UNCHANGED <<vgate, validity, pgate, blocked, reserved, spent, reply, ctxDone, told>>

-----------------------------------------------------------------------------
(* One attempt                                                             *)

\* bucket.wait returns, and an ordinary request goes on into global.waitFor.
WaitBucket(q) ==
  /\ stage[q] = "ready"
  /\ q \notin ctxDone
  /\ \/ /\ Ordinary(q)
        /\ pgate.owner = None \/ Len(pgate.queue) < MaxWaiters
        /\ pgate' = IF pgate.owner = None THEN Grab(pgate, q) ELSE Join(pgate, q)
        /\ Stage(q, "pacing")
     \/ /\ ~Ordinary(q)
        /\ Stage(q, "reserve")
        /\ UNCHANGED pgate
  /\ WaitDone(q)
  /\ UNCHANGED <<vgate, validity, blocked, reserved, spent, reply, again, ctxDone, told>>

\* bucket.wait fails, the known cooldown outlasts the deadline, or the pacer's
\* queue is full.
WaitGivenUp(q) ==
  /\ stage[q] = "ready"
  /\ \/ q \in ctxDone
     \/ left[cur[q]] > 0
     \/ Ordinary(q) /\ blocked > 0
     \/ Ordinary(q) /\ pgate.owner # None /\ Len(pgate.queue) >= MaxWaiters
  /\ Return(q)
  /\ UNCHANGED <<vgate, validity, pgate, blocked, reserved, spent, reply, ctxDone, told>>

Paced(q) ==
  /\ stage[q] = "pacing"
  /\ pgate.owner = q
  /\ q \notin ctxDone
  /\ blocked = 0
  /\ pgate' = Pass(pgate)
  /\ Stage(q, "reserve")
  /\ UNCHANGED <<vars, vgate, validity, blocked, reserved, spent, reply, again,
                 ctxDone, told>>

\* Fault: an error return of waitFor does not release the pacer's gate.
PaceGivenUpHolding(q) ==
  /\ stage[q] = "pacing"
  /\ q \in ctxDone \/ (pgate.owner = q /\ blocked > 0)
  /\ pgate' = IF pgate.owner = q THEN pgate ELSE Leave(pgate, q)
  /\ Return(q)
  /\ UNCHANGED <<vgate, validity, blocked, reserved, spent, reply, ctxDone, told>>

\* The context ends, or the owner finds a block that outlasts the deadline.
PaceGivenUp(q) ==
  /\ stage[q] = "pacing"
  /\ q \in ctxDone \/ (pgate.owner = q /\ blocked > 0)
  /\ pgate' = IF pgate.owner = q THEN Pass(pgate) ELSE Leave(pgate, q)
  /\ Return(q)
  /\ UNCHANGED <<vgate, validity, blocked, reserved, spent, reply, ctxDone, told>>

Send(q) ==
  /\ stage[q] = "reserve"
  /\ spent + reserved < Limit
  /\ reserved' = reserved + 1
  /\ Dispatch(q)
  /\ Stage(q, "sent")
  /\ UNCHANGED <<vgate, validity, pgate, blocked, spent, reply, again, ctxDone, told>>

\* replay.body fails, or errInvalidRequestBudget.
SendRefused(q) ==
  /\ stage[q] = "reserve"
  /\ q \in again \/ spent + reserved >= Limit
  /\ Return(q)
  /\ UNCHANGED <<vgate, validity, pgate, blocked, reserved, spent, reply, ctxDone, told>>

-----------------------------------------------------------------------------
(* The response                                                            *)

\* Fault: the reservation of a failed attempt is kept.
NoAnswerLeaking(q) ==
  /\ stage[q] = "sent"
  /\ Return(q)
  /\ UNCHANGED <<vgate, validity, pgate, blocked, reserved, spent, reply, ctxDone, told>>

\* base.RoundTrip returns an error or no response.
NoAnswer(q) ==
  /\ stage[q] = "sent"
  /\ reserved' = reserved - 1
  /\ Return(q)
  /\ UNCHANGED <<vgate, validity, pgate, blocked, spent, reply, ctxDone, told>>

Locks401(q) == Ordinary(q) /\ ~Anonymous /\ ~Disable401Lock

\* The guard counts response s, then observeResponse locks the credential and
\* applies the cooldown n.  A 429 announces at least minimumRetryDelay, whatever
\* its headers say.
Answer(q, s, n) ==
  /\ stage[q] = "sent"
  /\ s \in Limited => n > 0
  /\ reserved' = reserved - 1
  /\ spent' = spent + One(Invalid(s))
  /\ validity' = IF s = "401" /\ Locks401(q) THEN "invalid" ELSE validity
  /\ blocked' = IF s = "429global" THEN Later(blocked, n) ELSE blocked
  /\ Observe(q, IF s = "429global" /\ Ordinary(q) THEN 0 ELSE n)
  /\ reply' = [reply EXCEPT ![q] = s]
  /\ Stage(q, "learn")
  /\ told' = [told EXCEPT ![q] = IF s \in Limited THEN n ELSE 0]
  /\ UNCHANGED <<vgate, pgate, again, ctxDone>>

LearnReply(q) ==
  /\ stage[q] = "learn"
  /\ LearnSome(q)
  /\ Stage(q, "judge")
  /\ UNCHANGED <<vgate, validity, pgate, blocked, reserved, spent, reply, again,
                 ctxDone, told>>

\* Settle the validity if this request holds the validation gate, then return
\* the response, or retry a 429 whose body can be replayed and whose cooldown
\* fits the deadline.
Judge(q) ==
  /\ stage[q] = "judge"
  /\ IF vgate.owner = q
     THEN /\ validity' = IF reply[q] = "401" /\ ~Disable401Lock THEN "invalid" ELSE "valid"
          /\ vgate' = Pass(vgate)
     ELSE UNCHANGED <<validity, vgate>>
  /\ \/ again' = again \ {q}
     \/ reply[q] \in Limited /\ again' = again \cup {q}
  /\ reply' = [reply EXCEPT ![q] = None]
  /\ Stage(q, "leave")
  /\ UNCHANGED <<vars, pgate, blocked, reserved, spent, ctxDone, told>>

-----------------------------------------------------------------------------
(* The deferred releases, last in first out: validation, then the bucket   *)

DropValidation(q) ==
  /\ stage[q] = "leave"
  /\ vgate.owner = q
  /\ vgate' = Pass(vgate)
  /\ UNCHANGED <<vars, stage, validity, pgate, blocked, reserved, spent, reply,
                 again, ctxDone, told>>

\* Fault: a return does not release the validation gate.
ReleaseBucketOnly(q) ==
  /\ stage[q] = "leave"
  /\ Move(q)
  /\ \/ pc'[q] = "passing" /\ UNCHANGED <<stage, again, ctxDone, told>>
     \/ /\ pc'[q] = "out" /\ q \in again
        /\ Stage(q, "queue")
        /\ UNCHANGED <<again, ctxDone, told>>
     \/ pc'[q] = "out" /\ q \notin again /\ Returned(q)
  /\ UNCHANGED <<vgate, validity, pgate, blocked, reserved, spent, reply>>

ReleaseBucket(q) ==
  /\ stage[q] = "leave"
  /\ vgate.owner # q
  /\ Move(q)
  /\ \/ pc'[q] = "passing" /\ UNCHANGED <<stage, again, ctxDone, told>>
     \/ /\ pc'[q] = "out" /\ q \in again
        /\ Stage(q, "queue")
        /\ UNCHANGED <<again, ctxDone, told>>
     \/ pc'[q] = "out" /\ q \notin again /\ Returned(q)
  /\ UNCHANGED <<vgate, validity, pgate, blocked, reserved, spent, reply>>

-----------------------------------------------------------------------------
(* The environment                                                         *)

\* The client disconnects, the proxy shuts down, or QUEUE_TIMEOUT expires.
EndContext(q) ==
  /\ stage[q] # "new"
  /\ q \in Impatient \ ctxDone
  /\ ctxDone' = ctxDone \cup {q}
  /\ UNCHANGED <<vars, stage, vgate, validity, pgate, blocked, reserved, spent,
                 reply, again, told>>

\* An invalid response leaves the guard's window.
Forget ==
  /\ spent > 0
  /\ spent' = spent - 1
  /\ UNCHANGED <<vars, stage, vgate, validity, pgate, blocked, reserved, reply,
                 again, ctxDone, told>>

Forward ==
  /\ \/ \E b \in Buckets : left[b] > 0
     \/ blocked > 0
  /\ left' = [b \in Buckets |-> Later(left[b] - 1, 0)]
  /\ blocked' = Later(blocked - 1, 0)
  /\ told' = [q \in Requests |-> Later(told[q] - 1, 0)]
  /\ UNCHANGED <<tableVars, gate, active, stale, pc, cur, tgt, stage, vgate,
                 validity, pgate, reserved, spent, reply, again, ctxDone>>

SweepIdle ==
  /\ SweeperRuns
  /\ Sweep \/ \E b \in Buckets : Age(b)
  /\ UNCHANGED flowVars

\* The idle credential is evicted; its next request finds a new clientState.
Evict ==
  /\ \A q \in Requests : stage[q] = "new"
  /\ blocked = 0
  /\ Clear
  /\ validity' = IF Anonymous THEN "valid" ELSE "unknown"
  /\ vgate' = Free /\ pgate' = Free
  /\ UNCHANGED <<stage, blocked, reserved, spent, reply, again, ctxDone, told>>

-----------------------------------------------------------------------------

\* What a request does by itself, the responses of Discord included.
Advance(q) ==
  \/ Acquire(q) \/ AcquireNoSlot(q)
  \/ LoadValidity(q) \/ EnterValidation(q)
  \/ Validate(q) \/ ValidateCancelled(q) \/ Checked(q)
  \/ WaitBucket(q) \/ WaitGivenUp(q)
  \/ Paced(q) \/ PaceGivenUp(q)
  \/ Send(q) \/ SendRefused(q)
  \/ NoAnswer(q) \/ \E s \in Replies, n \in 0..MaxBlock : Answer(q, s, n)
  \/ LearnReply(q) \/ Judge(q)
  \/ DropValidation(q) \/ ReleaseBucket(q)

FlowNext ==
  \/ \E q \in Requests : Begin(q) \/ Advance(q) \/ EndContext(q)
  \/ Forget
  \/ Forward
  \/ SweepIdle
  \/ Evict

FlowSpec == FlowInit /\ [][FlowNext]_allVars

\* An attempt that ends without a 429.
Settle(q) ==
  \/ NoAnswer(q)
  \/ \E s \in Replies \ Limited, n \in 0..MaxBlock : Answer(q, s, n)

\* Goroutines that can run do, and time passes; every attempt returns, since its
\* context has the REQUEST_TIMEOUT deadline; and Discord does not answer 429 for
\* ever.  No context is obliged to end: QUEUE_TIMEOUT is not what keeps the
\* requests going.
FairFlowSpec ==
  /\ FlowSpec
  /\ WF_allVars(Forward)
  /\ \A q \in Requests : WF_allVars(Advance(q)) /\ SF_allVars(Settle(q))

-----------------------------------------------------------------------------
(* Safety                                                                  *)

\* The types of the variables.
FlowTypeOK ==
  /\ stage \in [Requests -> Stages]
  /\ vgate.owner \in Requests \cup {None} /\ vgate.queue \in Seq(Requests)
  /\ pgate.owner \in Requests \cup {None} /\ pgate.queue \in Seq(Requests)
  /\ validity \in {"unknown", "valid", "invalid"}
  /\ blocked \in 0..MaxBlock
  /\ reserved \in 0..Limit /\ spent \in 0..Limit
  /\ reply \in [Requests -> Replies \cup {None}]
  /\ again \in SUBSET Requests /\ ctxDone \in SUBSET Requests
  /\ told \in [Requests -> 0..MaxBlock]

\* Past the check of the validity, before it is settled.
Probing == {"ready", "pacing", "reserve", "sent", "learn", "judge"}

\* While the credential is unknown every ordinary request past the check holds
\* the validation gate, so one at a time probes it (transport.go:134-149).
OneProbe ==
  validity = "unknown" =>
    \A q \in Requests : Ordinary(q) /\ stage[q] \in Probing => vgate.owner = q

\* Once invalid, a credential stays invalid as long as any request uses it: no
\* late answer of an older request makes it valid again (transport.go:244-252).
InvalidSticks ==
  [][validity = "invalid" /\ validity' # "invalid" =>
       \A q \in Requests : stage[q] = "new"]_allVars

\* Every attempt with Discord, and nothing else, holds a reservation: no error
\* path of the attempt leaks or repeats one, and with the invalid responses they
\* stay within the limit (transport.go:204-233).
AttemptsReserved ==
  /\ FlowTypeOK
  /\ reserved + spent <= Limit
  /\ reserved = Cardinality({q \in Requests : stage[q] = "sent"})

\* An absorbed 429 is sent again only once the cooldown it announced has ended,
\* though the request lets go of its bucket meanwhile and its route may by then
\* belong to another (ratelimit.go:289-306, transport.go:293-302).
RetryWaits ==
  [][\A q \in Requests : stage[q] = "reserve" /\ stage'[q] = "sent" => told[q] = 0]_allVars

\* A request that has returned holds nothing: no gate, no place in a queue, no
\* count in a bucket, whichever of the return paths it took.
NothingKept ==
  \A q \in Requests : stage[q] = "new" =>
    /\ cur[q] = None
    /\ \A l \in {vgate, pgate} \cup Range(gate) : l.owner # q /\ q \notin Queued(l)

-----------------------------------------------------------------------------
(* Liveness                                                                *)

\* Every request returns, without the help of its deadline: no two gates are
\* waited for in a cycle, every return path hands on the gates it holds, and a
\* retry starts without any (transport.go:98-304).
RequestsReturn == \A q \in Requests : []<>(stage[q] = "new")

-----------------------------------------------------------------------------
(* The inductive invariant behind the safety properties (RoundTripProofs)  *)

Sent == {q \in Requests : stage[q] = "sent"}

Attempts ==
  /\ IsFiniteSet(Sent) /\ reserved = Cardinality(Sent)
  /\ reserved + spent <= Limit

\* Who waits for the validation gate is in validation.acquire; its owner is
\* between there and the deferred release.
Validators ==
  /\ LockOK(vgate, Requests)
  /\ \A q \in Requests :
       /\ stage[q] = "validate" => Inside(vgate, q)
       /\ Inside(vgate, q) /\ vgate.owner # q => stage[q] = "validate"
       /\ vgate.owner = q => stage[q] \in Probing \cup {"validate", "checked", "leave"}

\* The pacer's gate is held and waited for in waitFor only.
Pacing ==
  /\ LockOK(pgate, Requests)
  /\ \A q \in Requests : Inside(pgate, q) <=> stage[q] = "pacing"

\* While the credential is unknown nobody retries it, and who is past the check
\* holds the gate; while a prober holds the gate nobody else settles the
\* credential.
Probed ==
  /\ validity = "unknown" =>
       \A q \in Requests : Ordinary(q) =>
         q \notin again /\ (stage[q] \in Probing \cup {"checked"} => vgate.owner = q)
  /\ \A q \in Requests : vgate.owner = q /\ stage[q] \in Probing \cup {"checked"} =>
       \/ validity = "unknown"
       \/ /\ stage[q] \in {"learn", "judge"}
          /\ validity = "invalid" /\ reply[q] = "401" /\ ~Disable401Lock

\* What is left of the cooldown of the request's own 429 is left of its bucket's
\* or, for an ordinary request, of the pacer's block; the request passes the one
\* and then the other.
Due(q) == Later(Remaining(RouteOf[q]), IF Ordinary(q) THEN blocked ELSE 0)

Owed ==
  \A q \in Requests :
    /\ told[q] <= Due(q)
    /\ stage[q] = "pacing" => Ordinary(q) /\ told[q] <= blocked
    /\ stage[q] \in {"reserve", "sent"} => told[q] = 0

\* A request that has returned is at no bucket and is no retry.
AtRest == \A q \in Requests : stage[q] = "new" => pc[q] = "out" /\ q \notin again

FlowInv == FlowTypeOK /\ Attempts /\ Validators /\ Pacing /\ Probed /\ Owed /\ AtRest
=============================================================================
