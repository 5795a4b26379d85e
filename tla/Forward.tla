------------------------------ MODULE Forward ------------------------------
(***************************************************************************)
(* The request a venue is sent (gateway request.cpp, client.cpp, provider  *)
(* registry.cpp): the head's facts read in the framing walk, the policy's  *)
(* decision taken over, whether the client's dialect is forwarded to the   *)
(* venue or translated, the key a policy names, the path, and the client's *)
(* head copied without what is this hop's, or a head written anew.         *)
(*                                                                         *)
(* A head is its header lines, [n, v]: a lower-case name and a value,      *)
(* which is the text it stands for, whether that is a Bearer's, whether it *)
(* is fit to write again, and the tokens of a list.  "key-a" and "key-b"   *)
(* are headers of the x-kottos-key- family, "key-?" one of the family that *)
(* no policy may name (too long, or an odd byte).                          *)
(*                                                                         *)
(* A venue is its dialect, whether it takes an OAuth token, whether its    *)
(* Host is known, and whether its region is.  A request q is its dialect   *)
(* (wire), the model it names, in its path or its body, its path's layout, *)
(* its other properties (is), and the bytes of body it declares:           *)
(*   "keyed"   a credential in the query      "interactions"  that API     *)
(*   "stream"  it asks for a stream           "sse"   with alt=sse         *)
(*   "origin"  an origin-form target without dot segments or backslashes   *)
(*   "object"  its body is a JSON object with unique keys                  *)
(*   "fits"    the venue's translator takes it                             *)
(*   "edits"   the overrides of its members can be applied                 *)
(* Layouts: "api" the Gemini API's, "publisher" Vertex's without a         *)
(* project, "project" the same under one, "endpoint" another models path   *)
(* under a project, "other" for every other dialect's.                     *)
(* A decision d is what the policy chose: a venue past the table, texts    *)
(* too long to hold, a model or its substitution for the sentinel, members *)
(* to override, a beta token, a key's header, a project.                   *)
(* The request is whole: one that streams is refused, or cut, by its scan  *)
(* in BodyStream, and a hedge's legs are Hedge's.                          *)
(***************************************************************************)
LOCAL INSTANCE Naturals
LOCAL INSTANCE Sequences
LOCAL INSTANCE SequencesExt

CONSTANTS MaxConnections,  \* HeadFacts::kConnections
          MaxKeyHeaders    \* HeadFacts::kKeyHeaders

Value(t, bearer, safe, toks) == [t |-> t, bearer |-> bearer, safe |-> safe, toks |-> toks]
NoValue == Value("", FALSE, FALSE, {})
Line(n, v) == [n |-> n, v |-> v]
Lines(n, v) == IF v = NoValue THEN <<>> ELSE <<Line(n, v)>>

HopByHop == {"connection", "keep-alive", "proxy-connection", "te", "trailer", "upgrade"}
Credentials == {"authorization", "x-api-key", "api-key", "x-goog-api-key"}
CheckedFirst == Credentials \cup {"anthropic-version"}
KeyNames == {"key-a", "key-b"}
Family == KeyNames \cup {"key-?"}
\* Names that are no Field of their own.
Other(n) == n \in Family \cup {"x-other"}

-----------------------------------------------------------------------------
(* HeadFacts, and the walk that fills it.                                  *)

NoFacts == [cred |-> [n \in CheckedFirst |-> NoValue], connection |-> <<>>, connections |-> 0,
            key |-> <<>>, keys |-> 0, beta |-> NoValue, betas |-> 0, length |-> FALSE,
            type |-> NoValue, expect |-> 0]

\* HeadReader, one line.  The first of each credential; a stripped one is not seen.  The
\* tables hold what fits, and count one more.
ReadLine(f, l, strip) ==
  CASE l.n \in CheckedFirst ->
         IF f.cred[l.n] # NoValue \/ l.n \in strip THEN f ELSE [f EXCEPT !.cred[l.n] = l.v]
    [] l.n = "anthropic-beta" ->
         IF l.n \in strip \/ f.betas = 2 THEN f
         ELSE [f EXCEPT !.betas = @ + 1, !.beta = IF f.betas = 0 THEN l.v ELSE @]
    [] l.n = "content-length" -> [f EXCEPT !.length = TRUE]
    [] l.n = "content-type" -> [f EXCEPT !.type = IF @ = NoValue THEN l.v ELSE @]
    [] l.n = "expect" ->
         [f EXCEPT !.expect = IF @ # 0 THEN @ ELSE IF "100-continue" \in l.v.toks THEN 2 ELSE 1]
    [] l.n = "connection" ->
         [f EXCEPT !.connection = IF f.connections < MaxConnections THEN Append(@, l.v) ELSE @,
                   !.connections = IF f.connections <= MaxConnections THEN @ + 1 ELSE @]
    [] l.n \in KeyNames ->
         [f EXCEPT !.key = IF f.keys < MaxKeyHeaders THEN Append(@, l) ELSE @,
                   !.keys = IF f.keys <= MaxKeyHeaders THEN @ + 1 ELSE @]
    [] OTHER -> f

ReadHead(head, strip) ==
  LET read[i \in 0..Len(head)] == IF i = 0 THEN NoFacts ELSE ReadLine(read[i - 1], head[i], strip)
  IN  read[Len(head)]

-----------------------------------------------------------------------------
(* Venues and dialects.                                                    *)

\* kSpecs: the wire a venue speaks, how it takes a credential, whether it serves a
\* translated stream, and whether a client of the same wire is byte-forwarded.
Spec(wire, auth, streams, forwards) ==
  [wire |-> wire, auth |-> auth, streams |-> streams, forwards |-> forwards]
Specs == [openai    |-> Spec("OpenAI", "Forward", TRUE, TRUE),
          anthropic |-> Spec("Anthropic", "XApiKey", TRUE, TRUE),
          gemini    |-> Spec("Gemini", "GoogApiKey", FALSE, TRUE),
          cohere    |-> Spec("Cohere", "Bearer", FALSE, TRUE),
          bedrock   |-> Spec("Anthropic", "SigV4", FALSE, FALSE),
          azure     |-> Spec("OpenAI", "ApiKey", TRUE, FALSE),
          vertex    |-> Spec("Gemini", "GoogApiKey", FALSE, TRUE)]
Auth(venue) == Specs[venue.dialect].auth

\* resolve_dialect, resolve_translation.
Plan(q, venue) ==
  LET s == Specs[venue.dialect] IN
  CASE q.wire = s.wire /\ s.forwards -> "forward"
    [] /\ ~ (q.wire = s.wire /\ s.forwards)
       /\ q.wire = "OpenAI" /\ ("stream" \notin q.is \/ s.streams) -> "translate"
    [] OTHER -> "refuse"

\* path_model_ok: "m" and "n" are plain names and "s" the sentinel; "a/b" leaves its
\* segment, and "odd" cannot stand in a JSON string either (plain_json_text).
PathModelOk(m) == m \in {"m", "n", "s"}
PlainText(m) == m # "odd"
\* vertex_project_ok
ProjectOk(p) == p = "p"
\* gemini_vertex_scoped
Scoped(q) == q.layout \in {"project", "endpoint"}

\* target_refusal: refused at framing, before any venue is chosen.
TargetRefused(q) ==
  \/ q.is \cap {"keyed", "interactions"} # {}
  \/ /\ q.wire = "Gemini"
     /\ ("stream" \in q.is /\ "sse" \notin q.is) \/ (q.model # "" /\ ~ PathModelOk(q.model))

\* apply_decision: what a policy may not choose.
DecisionRefused(d) ==
  \/ d.past /\ d.name # ""
  \/ d.long
  \/ d.beta # NoValue /\ ~ d.beta.safe
  \/ d.subst # "" /\ ~ PlainText(d.subst)
  \/ d.name \notin KeyNames \cup {""}
  \/ d.project # "" /\ ~ ProjectOk(d.project)

\* resolve_substitution: the override, or the substitution when the client named the sentinel.
Override(q, d) == IF d.model = "" /\ q.model = "s" THEN d.subst ELSE d.model
\* path_model
PathModel(q, d) == IF q.wire = "Gemini" THEN Override(q, d) ELSE ""

Path(layout, model) == [layout |-> layout, model |-> model]
OrModel(m, n) == IF m = "" THEN n ELSE m

\* gemini_forward_target: the client's path in the venue's layout, its model replaced.
GeminiTarget(q, model, venue, project) ==
  LET publisher == q.layout \in {"publisher", "project"} IN
  Path(CASE q.model = "" -> q.layout
         [] q.model # "" /\ venue.dialect = "vertex" /\ project # "" /\ ~ Scoped(q) -> "project"
         [] q.model # "" /\ venue.dialect = "vertex" /\ ~ (project # "" /\ ~ Scoped(q)) ->
              IF publisher THEN q.layout ELSE "publisher"
         [] q.model # "" /\ venue.dialect = "gemini" -> IF publisher THEN "api" ELSE q.layout,
       OrModel(model, q.model))

-----------------------------------------------------------------------------
(* Credentials.                                                            *)

BearerToken(v) == IF v.bearer THEN [v EXCEPT !.bearer = FALSE] ELSE NoValue
AsBearer(v) == [v EXCEPT !.bearer = TRUE]
OrElse(v, w) == IF v = NoValue THEN w ELSE v

\* key_line_for: the header a venue takes a named key on, none for one that signs.
KeyLineFor(venue) ==
  CASE Auth(venue) \in {"Forward", "Bearer"} -> "authorization"
    [] Auth(venue) = "GoogApiKey" -> IF venue.bearer THEN "authorization" ELSE "x-goog-api-key"
    [] Auth(venue) = "XApiKey" -> "x-api-key"
    [] Auth(venue) = "ApiKey" -> "api-key"
    [] Auth(venue) = "SigV4" -> "none"

Refused == [ok |-> FALSE, lines |-> <<>>, path |-> Path("", "")]
Built(lines) == [ok |-> TRUE, lines |-> lines, path |-> Path("", "")]
Sent(path, lines) == [ok |-> TRUE, lines |-> lines, path |-> path]

\* named_key: the key in the header `name', as the venue takes it.
NamedKey(f, name, venue) ==
  LET at == {i \in DOMAIN f.key : f.key[i].n = name} IN
  IF KeyLineFor(venue) = "none" \/ f.keys > MaxKeyHeaders THEN Refused
  ELSE IF at = {} \/ (\E i, j \in at : i # j) THEN Refused
  ELSE LET n == KeyLineFor(venue)
           v == f.key[CHOOSE i \in at : TRUE].v
       IN  IF v = NoValue \/ ~ v.safe THEN Refused
           ELSE Built(<<Line(n, IF n = "authorization" THEN AsBearer(v) ELSE v)>>)

DefaultVersion == Value("2023-06-01", FALSE, TRUE, {})

\* The version and the policy's beta token, which an x-api-key venue takes beside its key.
Anthropic(f, beta) ==
  Lines("anthropic-version", OrElse(f.cred["anthropic-version"], DefaultVersion))
    \o Lines("anthropic-beta", beta)

\* append_auth: every credential the client sent is checked first, whichever is read.
AppendAuth(venue, f, key, beta) ==
  LET auth == f.cred["authorization"]
      from(n) == OrElse(f.cred[n], BearerToken(auth))
      azure == OrElse(f.cred["api-key"], from("x-api-key"))
  IN
  IF \E n \in CheckedFirst : f.cred[n] # NoValue /\ ~ f.cred[n].safe THEN Refused
  ELSE IF key # <<>> THEN Built(key \o IF Auth(venue) = "XApiKey" THEN Anthropic(f, beta) ELSE <<>>)
  ELSE CASE Auth(venue) = "XApiKey" ->
              Built(Lines("x-api-key", from("x-api-key")) \o Anthropic(f, beta))
         [] Auth(venue) = "GoogApiKey" /\ venue.bearer ->
              IF BearerToken(auth) = NoValue THEN Refused ELSE Built(Lines("authorization", auth))
         [] Auth(venue) = "GoogApiKey" /\ ~ venue.bearer ->
              Built(Lines("x-goog-api-key", from("x-goog-api-key")))
         [] Auth(venue) = "Bearer" -> Built(Lines("authorization", auth))
         [] Auth(venue) = "ApiKey" ->
              IF azure = NoValue THEN Refused ELSE Built(Lines("api-key", azure))
         [] OTHER -> Refused

\* sign_bedrock: a signature made from the key pair in the client's Bearer, for the region
\* the venue's name states; "pair" marks a Bearer that is one (parse_credentials).
SignBedrock(venue, f) ==
  LET auth == f.cred["authorization"] IN
  IF ~ venue.region \/ ~ auth.safe \/ ~ auth.bearer \/ "pair" \notin auth.toks THEN Refused
  ELSE Built(<<Line("signature", [BearerToken(auth) EXCEPT !.t = "signed"])>>)

-----------------------------------------------------------------------------
(* The request.                                                            *)

Ours(n) == Line(n, Value("ours", FALSE, TRUE, {}))

Listed(f, n) == \E i \in DOMAIN f.connection : n \in f.connection[i].toks

\* Mutant: of the key headers, those a policy could have named are dropped.
Dropped_Nameable(l, f, venue, strip, key, merge) ==
  \/ l.n = "host" /\ venue.host
  \/ l.n \in HopByHop \cup {"content-length", "expect", "accept-encoding"} \cup strip
  \/ key # <<>> /\ l.n \in Credentials
  \/ l.n = "anthropic-beta" /\ (merge \/ Listed(f, l.n))
  \/ Other(l.n) /\ (l.n \in KeyNames \/ Listed(f, l.n))

\* The lines of the client's head that are not copied.
Dropped(l, f, venue, strip, key, merge) ==
  \/ l.n = "host" /\ venue.host
  \/ l.n \in HopByHop \cup {"content-length", "expect", "accept-encoding"} \cup strip
  \/ key # <<>> /\ l.n \in Credentials
  \/ l.n = "anthropic-beta" /\ (merge \/ Listed(f, l.n))
  \/ Other(l.n) /\ (l.n \in Family \/ Listed(f, l.n))

\* The client's beta list, which a policy's token joins.
ClientBeta(f) == IF Listed(f, "anthropic-beta") THEN NoValue ELSE f.beta
BetaUnusable(f, beta) ==
  /\ beta # NoValue /\ ~ Listed(f, "anthropic-beta")
  /\ f.betas > 1 \/ (f.beta # NoValue /\ ~ f.beta.safe)
Joined(v, beta) == [beta EXCEPT !.toks = @ \cup v.toks]

\* build_forward.  The path is the client's, unless the venue speaks Gemini.
BuildForward(head, f, venue, strip, key, beta, q, model, project) ==
  LET merge  == beta # NoValue /\ ~ (beta.toks \subseteq ClientBeta(f).toks)
      kept   == SelectSeq(head, LAMBDA l : ~ Dropped(l, f, venue, strip, key, merge))
      gemini == Specs[venue.dialect].wire = "Gemini"
  IN
  IF \/ f.connections > MaxConnections \/ BetaUnusable(f, beta)
     \/ "origin" \notin q.is
     \/ model # "" /\ ~ PathModelOk(model)
     \/ project # "" /\ ~ ProjectOk(project)
     \/ gemini /\ model # "" /\ q.model = ""
  THEN Refused
  ELSE Sent(IF gemini THEN GeminiTarget(q, model, venue, project) ELSE Path(q.layout, ""),
            (((IF venue.host THEN <<Ours("host")>> ELSE <<>>)
               \o (IF f.length \/ q.declared > 0 THEN <<Ours("content-length")>> ELSE <<>>))
              \o key
              \o (IF merge THEN <<Line("anthropic-beta", Joined(ClientBeta(f), beta))>> ELSE <<>>))
             \o kept)

\* VenueSpec::target, or vertex_project_target: the venue's own path for a model, which
\* those that write it there must have.
NeedsModel(venue) == venue.dialect \in {"gemini", "vertex", "bedrock"}
VenuePath(venue, project, model) ==
  Path(CASE venue.dialect = "vertex" -> IF project # "" THEN "project" ELSE "publisher"
         [] venue.dialect = "gemini" -> "api"
         [] OTHER -> "other",
       IF NeedsModel(venue) THEN model ELSE "")

\* build_translated_request: the body, the path, then the credential.
BuildTranslated(f, venue, key, beta, q, override, project) ==
  LET model == OrModel(override, q.model)
      auth  == IF Auth(venue) # "SigV4" THEN AppendAuth(venue, f, key, beta)
               ELSE IF key # <<>> THEN Refused ELSE SignBedrock(venue, f)
  IN
  IF \/ ~ {"object", "fits"} \subseteq q.is
     \/ override # "" /\ (q.model = "" \/ ~ PlainText(override))
     \/ venue.dialect = "vertex" /\ project # "" /\ ~ ProjectOk(project)
     \/ NeedsModel(venue) /\ model = ""
     \/ ~ auth.ok
  THEN Refused
  ELSE Sent(VenuePath(venue, project, model),
            (<<Ours("host")>> \o auth.lines)
              \o <<Ours("content-type"), Ours("connection"), Ours("content-length")>>)

\* beta_for: only a venue taking an x-api-key gets the policy's token on a byte-forward.
BetaFor(venue, beta) == IF Auth(venue) = "XApiKey" THEN beta ELSE NoValue

\* An OAuth token reaches Vertex only under a project, the client's or the policy's.
VertexUnscoped(q, d, venue, plan) ==
  /\ venue.dialect = "vertex" /\ venue.bearer /\ d.project = ""
  /\ plan = "translate" \/ ~ Scoped(q)

\* dispatch: the plan, the named key or nothing, then the request in the venue's terms.
Dispatched(head, q, d, venue, strip) ==
  LET f    == ReadHead(head, strip)
      plan == Plan(q, venue)
      key  == IF d.name = "" THEN Built(<<>>) ELSE NamedKey(f, d.name, venue)
      pm   == PathModel(q, d)
      rewrites == d.members \/ (q.wire # "Gemini" /\ Override(q, d) # "")
  IN
  IF \/ plan = "refuse" \/ ~ key.ok
     \/ pm # "" /\ (~ PathModelOk(pm) \/ q.model = "")
     \/ VertexUnscoped(q, d, venue, plan)
  THEN Refused
  ELSE IF plan = "translate"
  THEN BuildTranslated(f, venue, key.lines, d.beta, q, Override(q, d), d.project)
  ELSE IF rewrites /\ "edits" \notin q.is THEN Refused
  ELSE BuildForward(head, f, venue, strip, key.lines, BetaFor(venue, d.beta), q, pm, d.project)

\* try_frame: a whole request, refused or sent as decided.
Framed(head, q, d, venue, strip) ==
  IF TargetRefused(q) \/ DecisionRefused(d) THEN Refused ELSE Dispatched(head, q, d, venue, strip)
=============================================================================
