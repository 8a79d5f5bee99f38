------------------------------ MODULE Exchange -------------------------------
(***************************************************************************)
(* A request and the responses to it: the request's path decides its route *)
(* and whether the pacer applies to it; each response, the absorbed 429s   *)
(* included, may set a cooldown of the bucket and of the pacer.            *)
(***************************************************************************)
EXTENDS Routes, Headers

CONSTANTS
  Starts,     \* bound: what stands before the path proper
  Segments,   \* bound: the segments of a path
  MaxLen,     \* bound: the most segments after the prefix
  Methods,    \* bound: HTTP methods
  Responses   \* bound: statuses and headers of responses

\* What parseRateLimitHeaders makes of a header that is a number, if it is one: a
\* negative count or duration does not parse.
ASSUME ExchangeAssumption ==
  /\ MaxLen \in Nat
  /\ \A h \in Responses :
       /\ {h.remaining, h.resetAfter, h.retryAfter} \subseteq Nat \cup {Absent, Bad}
       /\ h.reset \in Int \cup {Absent, Bad}

VARIABLES
  path,         \* the path of the request being read
  method,
  sent,         \* the request was sent to Discord
  interaction,  \* metadata.interaction of the request that was sent
  bucket,       \* time until the bucket's blockedUntil
  pacer,        \* time until the pacer's blockedUntil
  asked,        \* history: time for which Discord asked the request to wait
  limited       \* the last response, a moment ago, was a 429

exchangeVars == <<path, method, sent, interaction, bucket, pacer, asked, limited>>

ExchangeInit ==
  /\ path \in Starts
  /\ method \in Methods
  /\ sent = FALSE
  /\ interaction = FALSE
  /\ bucket = 0
  /\ pacer = 0
  /\ asked = 0
  /\ limited = FALSE

\* One more segment of the path.
Read(seg) ==
  /\ ~sent
  /\ \E prefix \in Starts :
       IsPrefix(prefix, path) /\ Len(path) < Len(prefix) + MaxLen
  /\ path' = Append(path, seg)
  /\ UNCHANGED <<method, sent, interaction, bucket, pacer, asked, limited>>

Dispatch ==
  /\ ~sent
  /\ sent' = TRUE
  /\ interaction' = IsInteractionEndpoint(path)
  /\ path' = << >>
  /\ UNCHANGED <<method, bucket, pacer, asked, limited>>

\* The first of the headers that say how long to wait.
Announced(h) ==
  IF h.status = 429 /\ h.retryAfter # Absent THEN h.retryAfter
  ELSE IF h.resetAfter # Absent THEN h.resetAfter ELSE h.reset

\* History: for how long a well-formed response asks that no attempt be made.
Asked(h) ==
  IF /\ ~Silent(h) /\ h.remaining # Bad /\ Announced(h) \notin {Absent, Bad}
     /\ h.status = 429 \/ (h.remaining = 0 /\ ~Global(h))
  THEN AtLeast(0, AtMost(Announced(h), MaxDelay))
  ELSE 0

\* observeResponse: a cooldown is only ever extended.
Respond(h) ==
  /\ sent
  /\ bucket' = AtLeast(bucket, BucketDelay(h, interaction))
  /\ pacer' = AtLeast(pacer, PacerDelay(h))
  /\ asked' = AtLeast(asked, Asked(h))
  /\ limited' = (h.status = 429)
  /\ UNCHANGED <<path, method, sent, interaction>>

Less(t) == AtLeast(0, t - 1)

Elapse ==
  /\ sent
  /\ bucket' = Less(bucket) /\ pacer' = Less(pacer) /\ asked' = Less(asked)
  /\ limited' = FALSE
  /\ UNCHANGED <<path, method, sent, interaction>>

ExchangeNext ==
  \/ \E seg \in Segments : Read(seg)
  \/ Dispatch
  \/ \E h \in Responses : Respond(h)
  \/ Elapse

ExchangeSpec == ExchangeInit /\ [][ExchangeNext]_exchangeVars

-----------------------------------------------------------------------------
(* The route of a path                                                     *)

Parts == CleanAPIPath(path)

\* The path with another segment of the same sort at i.
Renamed(i) == [path EXCEPT ![i].val = "other"]

\* The segments that name the channel, the guild or the webhook.
Major ==
  CASE Parts[1] \in {Word("channels"), Word("guilds")} -> {2}
    [] Parts[1] = Word("webhooks") -> {2, 3}
    [] OTHER -> {}

\* Requests of one route share a bucket, so routes must be Discord's: with another
\* channel, guild or webhook the route is another, with another message, member
\* or the like, or another API version, it is the same (routes.go:86-228).
RouteGrouping ==
  LET offset == Len(path) - Len(Parts)
      key == RouteKey(path, method)
      same(other) == RouteKey(other, method) = key
  IN
  Len(Parts) >= 2 =>
    /\ same(Parts)
    /\ \A i \in 2..Len(Parts) :
         /\ i \in Major /\ Parts[i].kind # "word" => ~same(Renamed(i + offset))
         /\ i \notin Major /\ i > 2 /\ Parts[i].kind = "snowflake" => same(Renamed(i + offset))

\* Requests of one route go to the same node, and the pacer sees all of them or
\* none: otherwise two nodes, or two rates, would spend one limit of Discord's
\* (proxy.go:268-275 and 306-314; routes.go:230-236).
RouteTogether ==
  LET key == RouteKey(path, method) IN
  \A i \in (Len(path) - Len(Parts) + 1)..Len(path) : \A seg \in Segments :
    LET other == [path EXCEPT ![i] = seg] IN
    RouteKey(other, method) = key =>
      /\ IsInteractionEndpoint(other) = IsInteractionEndpoint(path)
      /\ AffinityKey(other, method) = AffinityKey(path, method)

-----------------------------------------------------------------------------
(* The cooldowns                                                           *)

\* What the next attempt of the request waits for.
Wait == IF interaction THEN bucket ELSE AtLeast(bucket, pacer)

\* No attempt comes sooner than a well-formed response asked, with the slack on
\* top; and no response, whatever it says, blocks for more than a day and the
\* slack (ratelimit.go:209-307).
AsLongAsAsked ==
  /\ asked > 0 => Wait >= asked + Slack
  /\ Wait <= MaxDelay + Slack

\* After a 429 the request always waits, though the headers be missing, malformed
\* or zero, and though the limit be global and the request an interaction, which
\* the pacer does not see (ratelimit.go:273-305).
LimitedWaits == limited => Wait >= MinDelay

-----------------------------------------------------------------------------
(* The inductive invariant of the cooldowns                                *)

\* The cooldowns are durations, and there is none before the request is sent.
CooldownsTyped ==
  /\ {bucket, pacer, asked} \subseteq Nat
  /\ ~sent => bucket = 0 /\ pacer = 0 /\ asked = 0 /\ ~limited

\* No cooldown is longer than a day and the slack, whether the request waits for
\* it or not.
ExchangeInv ==
  /\ CooldownsTyped
  /\ bucket <= MaxDelay + Slack /\ pacer <= MaxDelay + Slack
  /\ AsLongAsAsked /\ LimitedWaits

=============================================================================
