--------------------------- MODULE ModelProviders ---------------------------
(***************************************************************************)
(* internal/intelligence/provider: the clients of the two kinds of model   *)
(* server and the router between them.  Nothing here keeps state: a client *)
(* turns a request and what came back over HTTP, the exchange, into a      *)
(* response or one of the typed errors, and the router turns an error into *)
(* one more call or none.  The caller's module takes one step per call.    *)
(*                                                                         *)
(* The empty string stands for the zero value of every optional field.     *)
(***************************************************************************)
EXTENDS Integers, Sequences

CONSTANTS
    Providers,       \* the registered names
    Client,          \* Client[p]: "ollama" or "openai"
    ApiKey,          \* ApiKey[p]: "set", "unset" or "none" when none is configured
    Defaults,        \* Defaults[p]: completionModel, embeddingModel, maxTokens, temperature
    RouterConfig     \* completion, embedding: default names; fallbacks: name -> name

None == ""
NoError == "no error"
ErrUnavailableProvider == "unavailable"
ErrInvalidResponse == "invalid response"
ErrUnsupportedOperation == "unsupported"
ErrStatus == "unexpected status"
Errors == {ErrUnavailableProvider, ErrInvalidResponse, ErrUnsupportedOperation, ErrStatus}

\* What NewRouter accepts.  The name that has a fallback need not be registered.
NewRouter(cfg) ==
    /\ Providers # {}
    /\ cfg.completion \in Providers \cup {None}
    /\ cfg.embedding \in Providers \cup {None}
    /\ \A p \in DOMAIN cfg.fallbacks : cfg.fallbacks[p] \in Providers \ {p}

ASSUME ProvidersAssumption ==
    /\ None \notin Providers
    /\ Client \in [Providers -> {"ollama", "openai"}]
    /\ ApiKey \in [Providers -> {"set", "unset", "none"}]
    /\ DOMAIN Defaults = Providers
    /\ NewRouter(RouterConfig)

\* An exchange: the status, or "network" when the call never got one (refused,
\* timed out, cancelled), and what a body says: not JSON, JSON without an
\* answer, or an answer.
Exchanges ==
    {[status |-> s, body |-> "none"] : s \in {"network", "401", "408", "500", "502", "503"}}
        \cup [status : {"200"}, body : {"garbage", "empty", "answer"}]

\* The statuses each client reads as "try another provider".
Unavailable == [ollama |-> {"network", "503", "504"},
                openai |-> {"network", "503", "504", "502", "408"}]

doPost(p, x) ==
    LET c == Client[p] IN
    CASE c = "openai" /\ ApiKey[p] = "unset"        -> ErrUnsupportedOperation
      [] x.status \in Unavailable[c]                -> ErrUnavailableProvider
      [] c = "openai" /\ x.status \in {"401", "403"}    -> ErrUnsupportedOperation
      [] OTHER -> IF x.status = "200" THEN NoError ELSE ErrStatus

\* The model and the inference parameters a client puts into its request: zero
\* values are replaced by the client's own (ollama) or left to the server.
Sent(p, req) ==
    [model       |-> IF req.model # None THEN req.model ELSE Defaults[p].completionModel,
     maxTokens   |-> IF req.maxTokens > 0 THEN req.maxTokens
                     ELSE IF Client[p] = "ollama" THEN Defaults[p].maxTokens ELSE 0,
     temperature |-> IF req.temperature # 0 \/ Client[p] = "openai" THEN req.temperature
                     ELSE Defaults[p].temperature]

\* Only openai_compatible refuses a JSON answer without a completion in it.
CompleteError(p, req, x) ==
    IF req.emptyPrompt \/ Sent(p, req).model = None THEN ErrUnsupportedOperation
    ELSE IF doPost(p, x) # NoError THEN doPost(p, x)
    ELSE IF x.body = "garbage" \/ (x.body = "empty" /\ Client[p] = "openai")
         THEN ErrInvalidResponse
         ELSE NoError

\* The caller reads model, provider and content; the parameters are the
\* request's as the server got them.
Complete(p, req, x) ==
    [err |-> CompleteError(p, req, x), provider |-> p, asked |-> Sent(p, req)]

(***************************************************************************)
(* Embeddings.  An answer of openai_compatible is a sequence of            *)
(* [index, embedding]; ollama is asked once for every input.               *)
(***************************************************************************)
EmbedError(p, req, x) ==
    IF req.input = << >> \/ (req.model = None /\ Defaults[p].embeddingModel = None)
    THEN ErrUnsupportedOperation
    ELSE IF doPost(p, x) # NoError THEN doPost(p, x)
    ELSE IF x.body = "garbage" THEN ErrInvalidResponse
    ELSE NoError

\* The vectors are placed as they come, not by their index, which is only
\* checked for its range.
EmbedOpenAI(p, req, x, data) ==
    LET fits == /\ Len(data) = Len(req.input)
                /\ \A k \in 1..Len(data) : data[k].index \in 0..(Len(data) - 1)
        err == EmbedError(p, req, x)
    IN [err |-> IF err = NoError /\ ~fits THEN ErrInvalidResponse ELSE err,
        embeddings |-> IF err = NoError /\ fits THEN [k \in 1..Len(data) |-> data[k].embedding]
                       ELSE << >>]

\* The first exchange that fails fails the call; there is no partial answer.
EmbedOllama(p, req, exchanges) ==
    LET failed == {k \in 1..Len(req.input) : EmbedError(p, req, exchanges[k]) # NoError}
    IN IF req.input = << >> \/ failed # {}
       THEN [err |-> IF req.input = << >> THEN ErrUnsupportedOperation
                     ELSE LET k == CHOOSE k \in failed : \A l \in failed : k <= l
                          IN EmbedError(p, req, exchanges[k]),
             embeddings |-> << >>]
       ELSE [err |-> NoError, embeddings |-> [k \in 1..Len(req.input) |-> exchanges[k].body]]

(***************************************************************************)
(* The router: the provider a request names or the default one, and one    *)
(* hop to a fallback when that one is unavailable.                         *)
(***************************************************************************)
selectProvider(requested, default) ==
    LET name == IF requested # None THEN requested ELSE default
    IN IF name \in Providers THEN name ELSE None   \* else ErrUnsupportedOperation

fallbackFor(primary, err) ==
    IF err = ErrUnavailableProvider /\ primary \in DOMAIN RouterConfig.fallbacks
    THEN RouterConfig.fallbacks[primary]
    ELSE None

=============================================================================
