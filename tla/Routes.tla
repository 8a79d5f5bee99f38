------------------------------- MODULE Routes --------------------------------
(***************************************************************************)
(* How a request is classified: GetOptimisticBucketPath, majorParameter    *)
(* and isInteractionEndpoint of internal/proxy/routes.go.  A path is the   *)
(* sequence of its segments, and of a segment only what the code looks at  *)
(* is kept: a word it knows by name, a snowflake with its age, a token.    *)
(***************************************************************************)
EXTENDS Naturals, Sequences, SequencesExt

\* long: the segment has 64 bytes or more.
Word(w) == [kind |-> "word", val |-> w, long |-> FALSE]
Snowflake(id, age) == [kind |-> "snowflake", val |-> id, long |-> FALSE, age |-> age]
\* A segment that starts with interactionTokenPrefix, and what it decodes to: an
\* interaction ID or "Unknown".
Token(t, long, id) == [kind |-> "token", val |-> t, long |-> long, id |-> id]
Opaque(t, long) == [kind |-> "opaque", val |-> t, long |-> long]

Api == Word("api")
Hidden == Word("!")

\* "v" and digits
IsVersion(seg) == seg \in {Word("v9"), Word("v10")}

\* What GetOptimisticBucketPath strips: a version only if more follows.
StripPrefix(path) ==
  IF Len(path) < 2 \/ path[1] # Api THEN path
  ELSE IF Len(path) > 2 /\ IsVersion(path[2]) THEN SubSeq(path, 3, Len(path))
  ELSE Tail(path)

\* cleanAPIPath
CleanAPIPath(path) ==
  IF path = << >> \/ path[1] # Api THEN path
  ELSE IF Len(path) > 1 /\ IsVersion(path[2]) THEN SubSeq(path, 3, Len(path))
  ELSE Tail(path)

\* A message to delete is told by its age.
MessageAge(seg) ==
  CASE seg.age = "old" -> <<Word("!14dmsg")>>
    [] seg.age = "new" -> <<Word("!10smsg")>>
    [] OTHER -> << >>

\* What the loop writes for segment i, from the third on.
Piece(parts, i, method) ==
  LET part == parts[i]
      deleted == /\ parts[1] = Word("channels") /\ parts[i - 1] = Word("messages")
                 /\ method = "DELETE" /\ i = Len(parts)
      sensitive == i = 3 /\ parts[1] \in {Word("webhooks"), Word("interactions")}
  IN
  CASE part.kind = "snowflake" -> IF deleted THEN MessageAge(part) ELSE <<Hidden>>
    [] part.kind # "snowflake" /\ (sensitive \/ part.long) ->
         IF part.kind = "token" THEN <<Word(part.id)>> ELSE <<Hidden>>
    [] OTHER -> <<part>>

\* The first two segments.
Lead(parts) ==
  CASE parts[1] = Word("users") ->
         <<parts[1], IF parts[2].kind = "snowflake" THEN Hidden ELSE parts[2]>>
    [] parts[1] = Word("invites") -> <<parts[1], Hidden>>
    [] OTHER -> <<parts[1], parts[2]>>

Reactions(method) ==
  <<Word("reactions")>> \o
    IF method \in {"PUT", "DELETE"} THEN <<Word("!modify")>> ELSE <<Hidden, Hidden>>

GetOptimisticBucketPath(path, method) ==
  LET parts == StripPrefix(path)
      \* the loop stops at the reactions of a channel
      stops == {i \in 3..Len(parts) :
                  parts[1] = Word("channels") /\ parts[i] = Word("reactions")}
      last == IF stops = {} THEN Len(parts) ELSE Min(stops) - 1
      pieces == [k \in 1..(last - 2) |-> Piece(parts, k + 2, method)]
  IN
  CASE Len(parts) <= 1 -> parts
    [] /\ parts[1] \in {Word("guilds"), Word("interactions")}
       /\ Len(parts) = 4 /\ parts[4] = Word("callback") ->
         <<Word("interactions"), parts[2], Hidden, Word("callback")>>
    [] OTHER ->
         Lead(parts) \o FlattenSeq(pieces)
           \o IF stops = {} THEN << >> ELSE Reactions(method)

\* Fault: the token of a webhook is left out.
MajorParameterTokenless(path) ==
  LET parts == CleanAPIPath(path) IN
  IF Len(parts) > 1 /\ parts[1] \in {Word("channels"), Word("guilds"), Word("webhooks")}
  THEN SubSeq(parts, 1, 2) ELSE << >>

\* Fault: guilds are left out, whose ID is in the bucket path.
MajorParameterGuildless(path) ==
  LET parts == CleanAPIPath(path) IN
  CASE Len(parts) > 1 /\ parts[1] = Word("channels") -> SubSeq(parts, 1, 2)
    [] Len(parts) > 1 /\ parts[1] = Word("webhooks") -> SubSeq(parts, 1, Min({3, Len(parts)}))
    [] OTHER -> << >>

MajorParameter(path) ==
  LET parts == CleanAPIPath(path) IN
  CASE Len(parts) > 1 /\ parts[1] \in {Word("channels"), Word("guilds")} -> SubSeq(parts, 1, 2)
    [] Len(parts) > 1 /\ parts[1] = Word("webhooks") -> SubSeq(parts, 1, Min({3, Len(parts)}))
    [] OTHER -> << >>

IsInteractionEndpoint(path) ==
  LET parts == CleanAPIPath(path) IN
  \/ Len(parts) >= 4 /\ parts[1] = Word("interactions") /\ parts[4] = Word("callback")
  \/ Len(parts) >= 3 /\ parts[1] = Word("webhooks") /\ parts[3].kind = "token"

\* What routeHash hashes.
RouteKey(path, method) ==
  [method |-> method, bucket |-> GetOptimisticBucketPath(path, method),
   major |-> MajorParameter(path)]

\* What affinityHash hashes for a request without a credential.
AffinityKey(path, method) ==
  IF IsInteractionEndpoint(path) THEN GetOptimisticBucketPath(path, method)
  ELSE <<Word("no-auth-egress")>>

=============================================================================
