------------------------------ MODULE MCPlatform ------------------------------
(***************************************************************************)
(* Two topics, two requests, a bucket of one token, one token per unit of  *)
(* time, two times, and a consumer that is stale in the second if it has   *)
(* no message in it.  The calls: two probes, a read with a good token, a    *)
(* method and a path that no route takes, and summaries with a token that  *)
(* expires and with one for another audience.                              *)
(***************************************************************************)
EXTENDS Platform, TLC

CONSTANTS a, b, r1, r2

MCTopics == {a, b}
MCProbes == <<"db", a, b>>
MCRequests == {r1, r2}

Good == [alg |-> "HMAC", signed |-> TRUE, exp |-> 9, nbf |-> 0, iss |-> "issuer",
         aud |-> "api", sub |-> "user", client |-> "app",
         scope |-> [form |-> "string", names |-> {ReadScope}]]
With(route, header, token) ==
    [route |-> route, method |-> "GET", header |-> header, token |-> token]

MCCalls ==
    r1 :> {With("readyz", "none", Good), With("livez", "none", Good), With("event", "bearer", Good)}
    @@ r2 :> {[With("events", "none", Good) EXCEPT !.method = "OPTIONS"],
              With("elsewhere", "none", Good)}
             \cup {With("summary", "bearer", t) : t \in
                      {[Good EXCEPT !.exp = 1], [Good EXCEPT !.aud = "other"]}}

=============================================================================
