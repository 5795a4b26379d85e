------------------------------ MODULE MCTexts ------------------------------
EXTENDS Texts, TLC

MCSeeds ==
  {<<"{">>,
   <<"{", "q", "/", "q", ":", "0", ",", "q", "esc", "/", "q", ":", "0", "}">>,
   <<"{", "q", "a", "q", ":", "0", ",", "q", "esc", "u", "0", "0", "6", "1", "q", ":", "0", "}">>,
   <<"{", "q", "a", "q", ":", "{", "q", "a", "q", ":", "-", "1">>,
   <<"{", "q", "m", "q", ":", "q", "a", "q", ",", "q">>,
   <<"{", "q", "t", "q", ":", "q", "esc">>,
   <<"{", "q", "m", "q", ":", "0", ",", "q", "t", "q", ":", "q", "q", ",", "q", "o", "q", ":", "{", "}">>,
   <<"{", "q", "o", "q", ":", "{", "q", "a", "q", ":", "0", ",", "q", "a">>,
   <<"{", "q", "p", "q", ":", "{", "q", "a", "q", ":", "0", ",", "q", "a">>,
   <<"{", "q", "a", "q", ":", "[", "1", "e">>,
   <<"{", "q", "a", "q", ":", "[", "[">>}
MCWords ==
  {<<c>> : c \in {"{", "}", "q", "a", "t", "0", "esc"}}
    \union {<<"q", ":", "0">>, <<"q", ":", "q", "a", "q">>, <<",", "q">>, <<"SP", "]">>, <<"u", "0", "0", "6", "1">>}
MCOverrides == {"m" :> <<"a", "a">>, "t" :> <<"a">>, "t" :> <<"esc">>}

Pair(k, v) == <<"q", k, "q", ":">> \o v
Str(w) == <<"q", w, "q">>
UsageOf(v) == ((<<"{">> \o U!UsageKey) \o <<":">>) \o v \o <<"}">>
\* Anthropic: a fallback that declined twice, once without output.
MCMessage(type, n) == ((<<"{">> \o Pair("type", Str(type))) \o <<",">>) \o Pair("input_tokens", <<n>>) \o <<"}">>
MCIterations ==
  (((<<"[">> \o MCMessage("message", "1")) \o <<",">>) \o MCMessage("fallback_message", "6")) \o <<"]">>
MCAnthropic == UsageOf(((<<"{">> \o Pair("input_tokens", <<"6">>)) \o <<",">>) \o Pair("iterations", MCIterations) \o <<"}">>)
MCTrigger ==
  ((((<<"{">> \o U!Trigger) \o <<":", "{">>) \o Pair("type", Str("refusal"))) \o <<",">>) \o Pair("category", Str("bio")) \o <<"}", "}">>
MCGemini ==
  ((((<<"{", "SP">> \o U!MetadataKey) \o <<":", "{">>) \o Pair("promptTokenCount", <<"8">>)) \o <<",">>) \o Pair("totalTokenCount", <<"8", "0">>) \o <<"}", "}">>
MCOpenAi == UsageOf(((<<"{">> \o Pair("prompt_tokens", <<"1", "6">>)) \o <<",">>) \o Pair("prompt_tokens_details", <<"{">> \o Pair("cached_tokens", <<"8">>) \o <<"}">>) \o <<"}">>)
MCNull == UsageOf(<<"n", "u", "l", "l">>)
MCText == <<"{">> \o Pair("x", <<"q", "esc">> \o U!UsageKey \o <<":", "{", "q">>) \o <<"}">>
MCCall == <<"{">> \o Pair("type", (<<"q", "response.web">> \o U!EventName)) \o <<"}">>
MCResponses == UsageOf(<<"{">> \o Pair("input_tokens_details", <<"{">> \o Pair("cached_tokens", <<"8">>) \o <<"}">>) \o <<",">> \o Pair("input_tokens", <<"8">>) \o <<"}">>)

MCVenues ==
  {[calls |-> FALSE, fragments |-> {MCAnthropic, MCTrigger}], [calls |-> FALSE, fragments |-> {MCGemini, MCText}],
   [calls |-> FALSE, fragments |-> {MCOpenAi, MCNull}],
   [calls |-> TRUE, fragments |-> {MCCall, MCResponses}]}
\* Lines of a Gemini stream: what may come first, last, twice, too long, or not as an event.
Event(o) == (F!Data \o o) \o <<F!LF>>
MCEventLines ==
  {Event(<<F!Sym("modelVersion", 1), F!Sym("text", 1)>>),
   Event(<<F!Sym("modelVersion", 2), F!Sym("responseId", 1), F!Sym("thought", 1)>>),
   Event(<<F!Sym("thought", 1), F!Sym("text", 1), F!CR>>),
   Event(<<F!Sym("text", 0), F!Sym("trafficType", 1)>>),
   Event(<<F!Sym("serviceTier", 2), F!Sym("groundingMetadata", 1), F!Sym("groundingMetadata", 1)>>),
   Event(<<F!Sym("executableCode", 1), F!Sym("groundingMetadata", 1)>>),
   Event(<<F!Sym("modelVersion", 3), F!Sym("error", 1)>>),
   Event(<<F!Sym("error", 2), F!Sym("bad", 0)>>),
   Event(<<F!Sym("responseId", 2), F!Sym("text", 1), F!Sym("text", 1), F!Sym("text", 1), F!Sym("text", 1)>>),
   <<F!Sym("ta:", 0), F!Sym("responseId", 3), F!LF>>, <<F!CR, F!LF>>}
\* A head's lines: credentials, key headers (one sent twice, one no policy may name), this
\* hop's, and what a policy adds to.
HeadLine(n, t, bearer, safe, toks) == R!Line(n, R!Value(t, bearer, safe, toks))
MCHeadLines ==
  {HeadLine("authorization", "c1", TRUE, TRUE, {"pair"}), HeadLine("authorization", "c2", FALSE, TRUE, {}),
   HeadLine("x-api-key", "c3", FALSE, TRUE, {}), HeadLine("x-goog-api-key", "c4", FALSE, FALSE, {}),
   HeadLine("key-a", "k1", FALSE, TRUE, {}), HeadLine("key-a", "k2", FALSE, TRUE, {}),
   HeadLine("key-b", "k3", FALSE, TRUE, {}), HeadLine("key-?", "k4", FALSE, TRUE, {}),
   HeadLine("connection", "list", FALSE, TRUE, {"x-other", "anthropic-beta", "authorization"}),
   HeadLine("te", "te", FALSE, TRUE, {}), HeadLine("x-other", "o", FALSE, TRUE, {}),
   HeadLine("anthropic-beta", "b", FALSE, TRUE, {"b0"}), HeadLine("host", "h", FALSE, TRUE, {})}
MCBeta == R!Value("policy", FALSE, TRUE, {"b1"})
MCVenue(dialect, bearer, host, region) ==
  [dialect |-> dialect, bearer |-> bearer, host |-> host, region |-> region]
\* Requests of a dialect: what a chat asks in it.
MCAsk(wire, layout) ==
  [wire |-> wire, model |-> "m", layout |-> layout, declared |-> 0,
   is |-> {"origin", "object", "fits", "edits"}]
MCPlain == [past |-> FALSE, long |-> FALSE, model |-> "", subst |-> "", members |-> FALSE,
            beta |-> R!NoValue, name |-> "", project |-> ""]
MCDecisions == {[MCPlain EXCEPT !.name = n, !.beta = b] : n \in {"", "key-a"}, b \in {R!NoValue, MCBeta}}
MCRoute(vs, strips, qs, ds) == [venue : vs, strip : strips, q : qs, d : ds]
\* Every credential and beta, stripped or not: what is forwarded, then what is translated.
MCForwarding ==
  MCRoute({MCVenue("openai", FALSE, FALSE, TRUE)}, {{}, {"authorization"}}, {MCAsk("OpenAI", "other")}, MCDecisions)
    \union MCRoute({MCVenue("anthropic", FALSE, TRUE, TRUE)}, {{}, {"authorization"}},
                   {MCAsk("Anthropic", "other")}, MCDecisions)
    \union MCRoute({MCVenue("gemini", TRUE, TRUE, TRUE)}, {{}, {"authorization"}}, {MCAsk("Gemini", "api")}, MCDecisions)
MCTranslated ==
  MCRoute({MCVenue(a, FALSE, TRUE, TRUE) : a \in {"anthropic", "gemini", "cohere", "azure", "bedrock"}}
            \union {MCVenue("gemini", TRUE, TRUE, TRUE)},
          {{}, {"authorization"}}, {MCAsk("OpenAI", "other")}, MCDecisions)
\* Every path and model a Google venue may get, and what refuses a request.
MCModels == {[MCPlain EXCEPT !.model = m[1], !.subst = m[2], !.project = p] :
               m \in {<<"", "">>, <<"n", "">>, <<"a/b", "">>, <<"", "n">>}, p \in {"", "p"}}
MCLayouts == {[MCAsk("Gemini", l) EXCEPT !.model = m] :
                l \in {"api", "publisher", "project", "endpoint"}, m \in {"", "m", "s"}}
MCPaths ==
  MCRoute({MCVenue("gemini", FALSE, TRUE, TRUE), MCVenue("vertex", TRUE, TRUE, TRUE)}, {{}},
          MCLayouts \union {[MCAsk("OpenAI", "other") EXCEPT !.model = m] : m \in {"", "s"}}, MCModels)
MCRefusals ==
  MCRoute({MCVenue("openai", FALSE, TRUE, TRUE)}, {{}},
          {[MCAsk("OpenAI", "other") EXCEPT !.is = @ \ {x}] : x \in {"origin", "edits"}}
            \union {[MCAsk("OpenAI", "other") EXCEPT !.is = @ \union {x}, !.declared = 2] :
                      x \in {"keyed", "interactions", "stream"}}
            \union {MCAsk("Anthropic", "other")},
          {MCPlain, [MCPlain EXCEPT !.members = TRUE]})
    \union MCRoute({MCVenue("bedrock", FALSE, TRUE, FALSE), MCVenue("azure", FALSE, TRUE, TRUE)}, {{}},
                   {[MCAsk("OpenAI", "other") EXCEPT !.is = @ \union {"stream"}],
                    [MCAsk("OpenAI", "other") EXCEPT !.is = {"origin"}], MCAsk("Gemini", "api")},
                   {[MCPlain EXCEPT !.past = TRUE, !.name = "key-a"], [MCPlain EXCEPT !.long = TRUE],
                    [MCPlain EXCEPT !.name = "key-?"], [MCPlain EXCEPT !.project = "odd"],
                    [MCPlain EXCEPT !.subst = "odd"], MCPlain})
MCRoutes == MCForwarding \union MCTranslated \union MCPaths \union MCRefusals
MCTriggerVenues == {[calls |-> FALSE, fragments |-> {MCTrigger}]}
=============================================================================
