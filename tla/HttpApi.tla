------------------------------- MODULE HttpApi -------------------------------
(***************************************************************************)
(* internal/api and internal/auth without their state: what the middleware *)
(* chain and the handlers make of a call, a token and the outcome of a     *)
(* read.  A call is a record: its route and method, the shape of its       *)
(* Authorization header and the claims of the token in it.  Headers that   *)
(* only decorate a response (request id, trace, CORS) are left out.        *)
(***************************************************************************)
EXTENDS Integers

CONSTANTS
    Issuer, Audience,    \* what the validator was configured with
    SummarizerEnabled    \* llm.enabled

None == ""
ReadScope == "read:events"
Probed == {"readyz", "healthz"}
Open == Probed \cup {"livez", "metrics"}     \* outside the chain
Chained == {"events", "event", "summary"}    \* the routes under /v1

\* Every route is registered for GET, which takes HEAD too.  The multiplexer
\* answers the rest itself: the preflight branch of cors is never reached.
Routed(call) == call.method \in {"GET", "HEAD"} /\ call.route \in Open \cup Chained
Unrouted(call) == IF call.route \in Open \cup Chained THEN "405" ELSE "404"

(***************************************************************************)
(* JWTValidator.Validate.  The library verifies the algorithm and the      *)
(* signature first, then collects what is wrong with exp, iss and aud, and *)
(* wrapJWTError reports the first of them in its own order.                *)
(***************************************************************************)
NewJWTValidator(keyBytes, issuer, audience) == keyBytes >= 32 /\ issuer # None /\ audience # None

ASSUME ValidatorAssumption == NewJWTValidator(32, Issuer, Audience)

\* exp is the time of expiry and nbf the time before which the token is not
\* valid, 0 when the claim is missing.
ValidationError(t, now) ==
    IF t.alg # "HMAC"                      THEN "wrong algorithm"
    ELSE IF ~t.signed                      THEN "invalid signature"
    ELSE IF t.exp # 0 /\ t.exp <= now      THEN "expired"
    ELSE IF t.nbf > now                    THEN "not yet valid"
    ELSE IF t.iss # Issuer                 THEN "wrong issuer"
    ELSE IF t.aud # Audience               THEN "wrong audience"
    ELSE IF t.exp = 0                      THEN "malformed"
    ELSE IF t.sub = None \/ t.client = None THEN "missing identity"
    ELSE None

\* Mutated form: the audience is not checked.
Validate_anyAudience(t, now) == ValidationError([t EXCEPT !.aud = Audience], now)

Validate(t, now) == ValidationError(t, now)

\* The scope claim: one string of names, a list of them, or something else.
parseScopes(t) == IF t.scope.form \in {"string", "list"} THEN t.scope.names \ {None} ELSE {}

\* extractBearer and authenticate: the scheme in any case, then a token.
authenticate(call, now) ==
    IF call.header # "bearer" THEN "401"
    ELSE IF Validate(call.token, now) # None THEN "401"
    ELSE None

\* What every handler under /v1 checks before it reads.
authorize(call) ==
    IF ReadScope \notin parseScopes(call.token) THEN "403"
    ELSE IF call.route = "summary" /\ ~SummarizerEnabled THEN "503"
    ELSE None

\* The chain after the rate limiter, down to the read: a status, or None when
\* the handler goes on to read.
Handle(call, now) ==
    IF authenticate(call, now) # None THEN authenticate(call, now) ELSE authorize(call)

\* httpStatus of what a read returned.  Only a missing event has a status of
\* its own: a cursor that does not decode is an internal error too, and
\* recoverPanic answers a panic like one.
Outcomes == {"found", "missing", "badCursor", "error", "panic"}

httpStatus(call, outcome) ==
    IF outcome \in {"badCursor", "error", "panic"} THEN "500"
    ELSE IF outcome = "missing" /\ call.route = "event" THEN "404"
    ELSE "200"    \* what was found, or an empty page

=============================================================================
