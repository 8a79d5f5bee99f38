--------------------------- MODULE ExchangeProofs ---------------------------
(***************************************************************************)
(* The cooldowns of a request, for any responses: no attempt comes sooner  *)
(* than Discord asked, nor after a 429 without a delay.                    *)
(***************************************************************************)
EXTENDS Exchange, TLAPS

\* The provers, and the time each is given for a leaf.
USE ZenonT(10), SMTT(30)

-----------------------------------------------------------------------------
(* The cooldowns a request waits for                                       *)

\* A header is missing, malformed or a number, and so is the one the code takes of
\* Retry-After and X-RateLimit-Reset-After (parseRateLimitHeaders).
LEMMA HeadersTyped ==
  ASSUME NEW h \in Responses
  PROVE  /\ h.remaining \in Nat \cup {Absent, Bad} /\ h.reset \in Int \cup {Absent, Bad}
         /\ ResetHeader(h) \in Nat \cup {Absent, Bad}
BY ExchangeAssumption DEF ResetHeader

\* What a well-formed response announces is within a day and the slack, and at
\* least what it asks for, with the slack on top.
LEMMA ResetAfterFacts ==
  ASSUME NEW h \in Responses, ~Malformed(h)
  PROVE  /\ ResetAfter(h) \in Nat /\ ResetAfter(h) <= MaxDelay + Slack
         /\ Asked(h) > 0 => ResetAfter(h) >= Asked(h) + Slack
<1> DEFINE delay == IF Silent(h) THEN 0
                    ELSE IF ResetHeader(h) # Absent THEN AtMost(ResetHeader(h), MaxDelay)
                    ELSE IF h.reset # Absent THEN AtLeast(0, AtMost(h.reset, MaxDelay))
                    ELSE 0
<1>1. delay \in Nat /\ delay <= MaxDelay
  BY HeadersTyped, HeadersAssumption DEF Malformed, AtMost, AtLeast
<1>2. ResetAfter(h) = delay + (IF Exhausted(h) /\ delay > 0 THEN Slack ELSE 0)
  BY DEF ResetAfter
<1>3. ASSUME Asked(h) > 0
      PROVE  delay = Asked(h) /\ Exhausted(h)
  <2>1. /\ ~Silent(h) /\ Announced(h) \notin {Absent, Bad}
        /\ h.status = 429 \/ h.remaining = 0
        /\ Asked(h) = AtLeast(0, AtMost(Announced(h), MaxDelay))
    BY <1>3 DEF Asked
  <2>2. Announced(h) = IF ResetHeader(h) # Absent THEN ResetHeader(h) ELSE h.reset
    BY DEF Announced, ResetHeader
  <2>3. delay = Asked(h)
    BY <2>1, <2>2, HeadersTyped, HeadersAssumption DEF AtLeast, AtMost
  <2>4. Exhausted(h)
    BY <2>1, HeadersAssumption DEF Exhausted, Remaining
  <2> QED BY <2>3, <2>4
<1> HIDE DEF delay
<1> QED BY <1>1, <1>2, <1>3, HeadersAssumption

\* What a response asks for is a duration; a malformed one that is not a 429, or
\* one that does not say, asks for nothing.
LEMMA AskedFacts ==
  ASSUME NEW h \in Responses
  PROVE  /\ Asked(h) \in Nat
         /\ Asked(h) > 0 =>
              ~Malformed(h) /\ (h.status = 429 \/ (Exhausted(h) /\ ~Global(h)))
<1>1. ASSUME Asked(h) # 0
      PROVE  /\ ~Silent(h) /\ h.remaining # Bad /\ Announced(h) \notin {Absent, Bad}
             /\ h.status = 429 \/ (h.remaining = 0 /\ ~Global(h))
             /\ Asked(h) = AtLeast(0, AtMost(Announced(h), MaxDelay))
  BY <1>1 DEF Asked
<1>2. Announced(h) = IF ResetHeader(h) # Absent THEN ResetHeader(h) ELSE h.reset
  BY DEF Announced, ResetHeader
<1>3. Asked(h) \in Nat
  BY <1>1, <1>2, HeadersTyped, HeadersAssumption DEF AtLeast, AtMost
<1>4. ASSUME Asked(h) > 0
      PROVE  ~Malformed(h) /\ (h.status = 429 \/ (Exhausted(h) /\ ~Global(h)))
  BY <1>1, <1>2, <1>3, <1>4, HeadersAssumption DEF Malformed, Exhausted, Remaining
<1> QED BY <1>3, <1>4

\* How long observeResponse blocks the bucket and the pacer: a 429 blocks what the
\* request waits for, and so does a response that uses a limit up.
LEMMA DelayFacts ==
  ASSUME NEW h \in Responses, NEW i
  PROVE  /\ {BucketDelay(h, i), PacerDelay(h)} \subseteq Nat
         /\ BucketDelay(h, i) <= MaxDelay + Slack /\ PacerDelay(h) <= MaxDelay + Slack
         /\ h.status = 429 =>
              BucketDelay(h, i) >= MinDelay \/ (~i /\ PacerDelay(h) >= MinDelay)
         /\ Asked(h) > 0 =>
              \/ BucketDelay(h, i) >= Asked(h) + Slack
              \/ ~i /\ PacerDelay(h) >= Asked(h) + Slack
<1>1. Penalty(h) \in Nat /\ Penalty(h) >= MinDelay /\ Penalty(h) <= MaxDelay + Slack
  BY ResetAfterFacts, HeadersAssumption DEF Penalty, AtLeast
<1>2. Asked(h) > 0 => Penalty(h) >= Asked(h) + Slack
  BY AskedFacts, ResetAfterFacts, HeadersAssumption DEF Penalty, AtLeast
<1>3. CASE h.status = 429
  <2>1. PacerDelay(h) = IF Global(h) THEN Penalty(h) ELSE 0
    BY <1>3 DEF PacerDelay
  <2>2. BucketDelay(h, i) = IF Global(h) /\ ~i THEN 0 ELSE Penalty(h)
    BY <1>3 DEF BucketDelay
  <2> QED BY <1>1, <1>2, <2>1, <2>2, HeadersAssumption
<1>4. CASE h.status # 429
  <2>1. PacerDelay(h) = 0
    BY <1>4 DEF PacerDelay
  <2>2. BucketDelay(h, i) = IF ~Malformed(h) /\ ~Global(h) /\ Exhausted(h) THEN ResetAfter(h)
                            ELSE 0
    BY <1>4 DEF BucketDelay
  <2>3. Asked(h) > 0 => ~Malformed(h) /\ ~Global(h) /\ Exhausted(h)
    BY <1>4, AskedFacts
  <2> QED BY <1>4, <2>1, <2>2, <2>3, ResetAfterFacts, HeadersAssumption
<1> QED BY <1>3, <1>4

\* A response extends the cooldowns, and the next attempt waits for it.
LEMMA RespondKeeps ==
  ASSUME ExchangeInv, NEW h \in Responses, Respond(h)
  PROVE  ExchangeInv'
<1>1. PICK b, p, a : b = BucketDelay(h, interaction) /\ p = PacerDelay(h) /\ a = Asked(h)
  OBVIOUS
<1>2. /\ b \in Nat /\ p \in Nat /\ a \in Nat
      /\ b <= MaxDelay + Slack /\ p <= MaxDelay + Slack
      /\ h.status = 429 => b >= MinDelay \/ (~interaction /\ p >= MinDelay)
      /\ a > 0 => b >= a + Slack \/ (~interaction /\ p >= a + Slack)
  BY <1>1, DelayFacts, AskedFacts
<1>3. /\ sent /\ sent' = sent /\ interaction' = interaction
      /\ bucket' = AtLeast(bucket, b) /\ pacer' = AtLeast(pacer, p)
      /\ asked' = AtLeast(asked, a) /\ limited' = (h.status = 429)
  BY <1>1 DEF Respond
<1>4. bucket \in Nat /\ pacer \in Nat /\ asked \in Nat
  BY DEF ExchangeInv, CooldownsTyped
<1>5. CooldownsTyped'
  BY <1>2, <1>3, <1>4 DEF CooldownsTyped, AtLeast
<1>6. bucket' <= MaxDelay + Slack /\ pacer' <= MaxDelay + Slack
  BY <1>2, <1>3, <1>4 DEF ExchangeInv, AtLeast
<1>7. AsLongAsAsked'
  BY <1>2, <1>3, <1>4, HeadersAssumption DEF ExchangeInv, AsLongAsAsked, Wait, AtLeast
<1>8. h.status = 429 => Wait' >= MinDelay
  BY <1>2, <1>3, <1>4, HeadersAssumption DEF Wait, AtLeast
<1>9. LimitedWaits'
  BY <1>3, <1>8 DEF LimitedWaits
<1> QED BY <1>5, <1>6, <1>7, <1>9 DEF ExchangeInv

\* The other steps let time pass, or are taken before there is a cooldown.
LEMMA ExchangeStep ==
  ASSUME ExchangeInv, [ExchangeNext]_exchangeVars
  PROVE  ExchangeInv'
<1>1. bucket \in Nat /\ pacer \in Nat /\ asked \in Nat
  BY DEF ExchangeInv, CooldownsTyped
<1>2. ASSUME NEW seg \in Segments, Read(seg)
      PROVE  ExchangeInv'
  BY <1>2 DEF Read, ExchangeInv, CooldownsTyped, AsLongAsAsked, LimitedWaits, Wait
<1>3. CASE Dispatch
  <2>1. /\ bucket = 0 /\ pacer = 0 /\ asked = 0 /\ ~limited
        /\ sent' = TRUE /\ UNCHANGED <<bucket, pacer, asked, limited>>
    BY <1>3 DEF Dispatch, ExchangeInv, CooldownsTyped
  <2>2. Wait' = 0
    BY <2>1 DEF Wait, AtLeast
  <2> QED BY <2>1, <2>2, HeadersAssumption
          DEF ExchangeInv, CooldownsTyped, AsLongAsAsked, LimitedWaits
<1>4. CASE Elapse
  <2>1. /\ sent /\ sent' = sent /\ interaction' = interaction /\ limited' = FALSE
        /\ bucket' = Less(bucket) /\ pacer' = Less(pacer) /\ asked' = Less(asked)
    BY <1>4 DEF Elapse
  <2> QED BY <1>1, <2>1, HeadersAssumption
          DEF ExchangeInv, CooldownsTyped, AsLongAsAsked, LimitedWaits, Wait, AtLeast, Less
<1>5. CASE UNCHANGED exchangeVars
  BY <1>5 DEF exchangeVars, ExchangeInv, CooldownsTyped, AsLongAsAsked, LimitedWaits, Wait
<1> QED BY <1>2, <1>3, <1>4, <1>5, RespondKeeps DEF ExchangeNext

\* A new request waits for nothing, and every step keeps the invariant.
THEOREM ExchangeInvariance == ExchangeSpec => []ExchangeInv
<1>1. ExchangeInit => ExchangeInv
  BY HeadersAssumption DEF ExchangeInit, ExchangeInv, CooldownsTyped, AsLongAsAsked,
                           LimitedWaits, Wait, AtLeast
<1> QED BY <1>1, ExchangeStep, PTL DEF ExchangeSpec

\* No attempt comes sooner than Discord asked, and no response blocks for more than
\* a day and the slack, whatever headers it has (ratelimit.go).
THEOREM ExchangeAsLongAsAsked == ExchangeSpec => []AsLongAsAsked
<1>1. ExchangeInv => AsLongAsAsked
  BY DEF ExchangeInv
<1> QED BY <1>1, ExchangeInvariance, PTL

\* After a 429 the request waits, whatever headers it has (ratelimit.go).
THEOREM ExchangeLimitedWaits == ExchangeSpec => []LimitedWaits
<1>1. ExchangeInv => LimitedWaits
  BY DEF ExchangeInv
<1> QED BY <1>1, ExchangeInvariance, PTL

=============================================================================
