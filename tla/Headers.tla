------------------------------- MODULE Headers -------------------------------
(***************************************************************************)
(* What a response announces: parseRateLimitHeaders and observeResponse of *)
(* internal/proxy/ratelimit.go.  A header is Absent, Bad (it does not      *)
(* parse) or a number; durations are in units of rateLimitHeaderSlack.     *)
(***************************************************************************)
EXTENDS Integers

CONSTANTS
  MinDelay,  \* minimumRetryDelay
  Slack,     \* rateLimitHeaderSlack
  MaxDelay,  \* maximumRateLimitDelay
  Absent,    \* the header is not set
  Bad        \* its value does not parse, or is NaN or infinite

ASSUME HeadersAssumption ==
  /\ MinDelay \in Nat \ {0} /\ Slack \in Nat \ {0} /\ MaxDelay \in Nat
  /\ MinDelay < MaxDelay
  /\ Absent # Bad /\ Absent \notin Int /\ Bad \notin Int

AtLeast(s, t) == IF t > s THEN t ELSE s
AtMost(s, t) == IF t < s THEN t ELSE s

\* A response without any of these headers is not looked at further.
Silent(h) ==
  \A f \in {"bucket", "remaining", "resetAfter", "retryAfter", "global", "scope"} :
    h[f] = Absent

\* info.global
Global(h) == ~Silent(h) /\ ("true" = h.global \/ "global" = h.scope)

\* The header that says how long the limit lasts.
ResetHeader(h) ==
  IF h.status = 429 /\ h.retryAfter # Absent THEN h.retryAfter ELSE h.resetAfter

\* A header is invalid; nothing after it is parsed.
Malformed(h) ==
  /\ ~Silent(h)
  /\ \/ h.remaining = Bad
     \/ IF ResetHeader(h) # Absent THEN ResetHeader(h) = Bad ELSE h.reset = Bad

\* info.remaining, -1 if it is not known.
Remaining(h) == IF Silent(h) \/ h.remaining = Absent THEN -1 ELSE h.remaining

Exhausted(h) == Remaining(h) = 0 \/ h.status = 429

\* Fault: X-RateLimit-Reset-After goes before Retry-After.
ResetAfterFirst(h) ==
  LET header == IF h.resetAfter \notin {Absent, Bad} THEN h.resetAfter ELSE ResetHeader(h)
      delay == IF Silent(h) THEN 0
               ELSE IF header # Absent THEN AtMost(header, MaxDelay)
               ELSE IF h.reset # Absent THEN AtLeast(0, AtMost(h.reset, MaxDelay))
               ELSE 0
  IN delay + (IF Exhausted(h) /\ delay > 0 THEN Slack ELSE 0)

\* info.resetAfter of a response that is not malformed.  reset is the time from
\* now to X-RateLimit-Reset.
ResetAfter(h) ==
  LET delay == IF Silent(h) THEN 0
               ELSE IF ResetHeader(h) # Absent THEN AtMost(ResetHeader(h), MaxDelay)
               ELSE IF h.reset # Absent THEN AtLeast(0, AtMost(h.reset, MaxDelay))
               ELSE 0
  IN delay + (IF Exhausted(h) /\ delay > 0 THEN Slack ELSE 0)

\* The cooldown a 429 sets.
Penalty(h) == IF Malformed(h) THEN MinDelay ELSE AtLeast(MinDelay, ResetAfter(h))

\* How long observeResponse blocks the pacer, 0 if it does not.
PacerDelay(h) == IF Global(h) /\ h.status = 429 THEN Penalty(h) ELSE 0

\* Fault: a malformed response sets no cooldown.
BucketDelayParsed(h, interaction) ==
  IF Malformed(h) THEN 0
  ELSE IF h.status = 429 THEN IF Global(h) /\ ~interaction THEN 0 ELSE Penalty(h)
  ELSE IF ~Global(h) /\ Exhausted(h) THEN ResetAfter(h)
  ELSE 0

\* How long it blocks the bucket.
BucketDelay(h, interaction) ==
  IF h.status = 429 THEN IF Global(h) /\ ~interaction THEN 0 ELSE Penalty(h)
  ELSE IF ~Malformed(h) /\ ~Global(h) /\ Exhausted(h) THEN ResetAfter(h)
  ELSE 0

=============================================================================
