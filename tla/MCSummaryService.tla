-------------------------- MODULE MCSummaryService --------------------------
(***************************************************************************)
(* Two requests, each for the energy domain without since or for all       *)
(* domains with one; an event of the energy domain and one of another,     *)
(* ahead of the clock when it starts; an ollama server that is the default  *)
(* and an openai_compatible one, each the other's fallback; one restart    *)
(* with the other of two temperatures; a table that holds a row of the     *)
(* version without the provider columns.                                   *)
(***************************************************************************)
EXTENDS SummaryService, TLC

CONSTANTS e1, e2, r1, r2

MCEvents == {e1, e2}
MCDomain == e1 :> "energy" @@ e2 :> "finance"
MCEventType == e1 :> "meter" @@ e2 :> "payment"
MCOccurredAt == e1 :> 3 @@ e2 :> 5

MCRequests == {r1, r2}
MCQueries == {[domain |-> "energy", since |-> NoSince], [domain |-> None, since |-> 3]}

MCProviders == {"ollama", "openai_compatible"}
MCClient == "ollama" :> "ollama" @@ "openai_compatible" :> "openai"
MCApiKey == "ollama" :> "none" @@ "openai_compatible" :> "set"
MCDefaults ==
    [p \in MCProviders |-> [completionModel |-> "", embeddingModel |-> "e", maxTokens |-> 1,
                            temperature |-> 0]]
MCRouterConfig ==
    [completion |-> "ollama", embedding |-> "ollama",
     fallbacks |-> "ollama" :> "openai_compatible" @@ "openai_compatible" :> "ollama"]

MCConfigs == {[model |-> "m", maxTokens |-> 1, temperature |-> t] : t \in {0, 7}}

MCOldSummaries ==
    {<< [domain |-> "energy", window_from |-> 2, model |-> "m", created_at |-> 4, made |-> NoMade] >>}

\* Vectors come back aligned with the inputs exactly when the server sends them
\* in that order: each item is placed where it came and not at its index, as
\* openai_compatible.go:186 and :225 say of it.
ASSUME EmbeddingsComeAsTheyAreSent ==
    LET req == [model |-> "e", input |-> <<"a", "b">>]
        x == [status |-> "200", body |-> "answer"]
    IN \A data \in [1..2 -> [index : -1..2, embedding : {"u", "v"}]] :
          LET out == EmbedOpenAI("openai_compatible", req, x, data)
              aligned == \A k \in 1..2 : out.embeddings[data[k].index + 1] = data[k].embedding
          IN /\ out.err = NoError <=> \A k \in 1..2 : data[k].index \in 0..1
             /\ out.err = NoError /\ data[1].index # data[2].index =>
                    (aligned <=> data[1].index = 0 \/ data[1].embedding = data[2].embedding)

\* ollama answers with one vector per input or with the first error.
ASSUME EmbeddingsAreAllOrNothing ==
    \A xs \in [1..2 -> Exchanges] :
        LET out == EmbedOllama("ollama", [model |-> "e", input |-> <<"a", "b">>], xs)
        IN IF out.err = NoError THEN Len(out.embeddings) = 2 /\ \A k \in 1..2 : xs[k].status = "200"
           ELSE out.embeddings = << >> /\ \E k \in 1..2 : xs[k].body \in {"none", "garbage"}

=============================================================================
