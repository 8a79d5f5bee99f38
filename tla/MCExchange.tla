---------------------------- MODULE MCExchange -------------------------------
(* An instance of Exchange for TLC.                                        *)
EXTENDS Exchange

\* A path with a version, without one, and one that is not below /api.
Paths ==
  {<< >>, <<Word("api")>>, <<Word("api"), Word("v10")>>}

\* A segment of every sort the code tells apart, and every word it knows that
\* takes part in more than one rule.
Names ==
  {Word("channels"), Word("guilds"), Word("webhooks"), Word("interactions"),
   Word("messages"), Word("reactions"), Word("callback"),
   Snowflake("a", "old"), Snowflake("b", "other"),
   Token("t", TRUE, "a"), Opaque("s", FALSE), Opaque("l", TRUE)}

\* Every combination of headers that are missing, malformed, zero or at a limit.
MCResponses ==
  [status : {200, 429}, bucket : {Absent, "b"}, remaining : {Absent, Bad, 0, 1},
   resetAfter : {Absent, Bad, 0, 5}, retryAfter : {Absent, Bad, 1, 9},
   reset : {Absent, Bad, -1, 6}, global : {Absent, "true"}, scope : {Absent, "global"}]

=============================================================================
