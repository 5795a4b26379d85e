------------------------------- MODULE Texts -------------------------------
(***************************************************************************)
(* Texts read in more than one way.  A request body is scanned as it       *)
(* arrives (BodyScan), walked as text and edited (JsonScan), and parsed    *)
(* (Json); a reply's counts are read from its stream as it arrives         *)
(* (StreamUsage), and so is what a Gemini stream says beside them          *)
(* (StreamFacts), and its head, framing and events (Reply).  The readers   *)
(* must agree, wherever the reads cut.  A request's head is read into a    *)
(* few facts and again when the venue's request is built from it and them  *)
(* (Forward).                                                              *)
(*                                                                         *)
(* A body grows a word at a time from one of the Seeds, and is read at any *)
(* point of it.  A stream is a few of a venue's fragments, cut anywhere.   *)
(* A head grows a line at a time.                                          *)
(***************************************************************************)
EXTENDS Integers, Sequences, SequencesExt, FiniteSetsExt

CONSTANTS
  MaxDepth, MaxNodes, MaxKeys,                              \* limits of Json and BodyScan
  CallTail, TrigTail, Lead, MaxObject, MaxHeld, MaxTriggers,    \* and of StreamUsage
  Seeds,        \* beginnings of a body
  BodyWords,    \* what may follow
  MaxMore,      \* and how many of them
  Overrides,    \* the members an override sets, as functions from keys to values
  Venues,       \* streams: [calls, fragments], whether search calls are counted, and the events
  MaxFragments, \* events of one stream
  MaxLine,      \* the limit of StreamFacts
  EventLines,   \* lines of a Gemini stream
  MaxLines,     \* and how many of them
  MaxConnections, MaxKeyHeaders,   \* the limits of Forward
  AskedLines,   \* header lines
  MaxHead,      \* and how many of them
  Routes,       \* [venue, strip, q, d]: a request, its decision, and where it goes
  MaxHeaderLen, MaxBodyLen, MaxSizeLine, MaxSseLine, MaxEvent, MaxBlocks,   \* limits of Reply
  MaxHeads, MaxBody, MaxNoise, MaxNext, MaxText, MaxEvents, MaxReplies      \* and its texts

U == INSTANCE StreamUsage
F == INSTANCE StreamFacts
R == INSTANCE Forward
T == INSTANCE JsonScan
J == INSTANCE Json

VARIABLES
  layer,    \* "body", "stream", "facts" or "request", or one of Reply's
  sent,     \* the text so far
  more,     \* how many words of a body were added to its seed
  read,     \* how much of it was read
  scan,     \* the scan of a body
  stream,   \* the counts of a stream
  lost,     \* what its reads passed over: [triggers, objects], where each starts
  facts,    \* the facts of a Gemini stream
  script, framer, msg, replies, reader, events, tr     \* those of Reply

RP == INSTANCE Reply WITH MaxLine <- MaxSseLine

TextVars == <<more, scan, stream, lost, facts>>
ReplyVars == <<script, framer, msg, replies, reader, events, tr>>
vars == <<layer, sent, read, TextVars, ReplyVars>>

Texts(fs, most) == {FlattenSeq(ws) : ws \in UNION {[1..n -> fs] : n \in 1..most}}

AllKeys == T!B!NewScan(TRUE, TRUE, {"t"})

NoText == more = 0 /\ scan = AllKeys /\ facts = F!NewReader /\ lost = [triggers |-> {}, objects |-> {}]
NoReply ==
  /\ script = <<>> /\ replies = 0 /\ framer = RP!H!NewFramer /\ msg = RP!H!NeedMore
  /\ reader = RP!S!NewReader /\ events = <<>> /\ tr = RP!S!NewTranslator(FALSE)
TextInit ==
  \/ /\ layer = "body" /\ sent \in Seeds /\ stream = U!NewStream(FALSE)
  \/ /\ layer = "stream"
     /\ \E v \in Venues : sent \in Texts(v.fragments, MaxFragments) /\ stream = U!NewStream(v.calls)
  \/ /\ layer = "facts" /\ sent \in Texts(EventLines, MaxLines) /\ stream = U!NewStream(FALSE)
  \/ /\ layer = "request" /\ sent = <<>> /\ stream = U!NewStream(FALSE)

Init ==
  /\ NoText
  /\ \/ read = 0 /\ NoReply /\ TextInit
     \/ RP!Init /\ stream = U!NewStream(FALSE)

\* The client writes on; nothing more is asked of a body that is already refused.
Write(w) ==
  /\ layer = "body" /\ more < MaxMore
  /\ T!B!Feed(scan, sent, FALSE).verdict = "More"
  /\ sent' = sent \o w /\ more' = more + 1
  /\ UNCHANGED <<layer, read, scan, stream, lost, facts>>

\* A read of the body so far.
ReadBody ==
  /\ layer = "body" /\ scan.verdict = "More" /\ read < Len(sent)
  /\ scan' = T!B!Feed(scan, sent, FALSE)
  /\ read' = Len(sent)
  /\ UNCHANGED <<layer, sent, more, stream, lost, facts>>

\* The trigger a read of everything from `from` on passes over: whole in it, its key the
\* first thing there but for spaces, so that nothing says it is a key.
PassedTriggers(s, from) ==
  {i \in {J!Ws(s, from)} : U!IsAt(s, i, U!Trigger) /\ \E x \in ToSet(U!Triggers(s)) : x.at = i}
\* The objects a read up to the end of s gives up: not closed within MaxObject.
KeyLenAt(s, i) ==
  CASE U!IsAt(s, i, U!MetadataKey) -> Len(U!MetadataKey) [] U!IsAt(s, i, U!UsageKey) -> Len(U!UsageKey) [] OTHER -> 0
ObjectAt(s, i) == J!At(s, T!KeyValueAt(s, i, KeyLenAt(s, i))) = "{"
Unclosed(s, i) == T!SkipValue(s, T!KeyValueAt(s, i, KeyLenAt(s, i))) = 0
GivenUp(s) ==
  {i \in 1..(Len(s) - MaxObject) : U!IsAt(s, i, U!Prefix) /\ KeyLenAt(s, i) > 0 /\ ObjectAt(s, i) /\ Unclosed(s, i)}

\* A read of the next n symbols of the stream.
ReadStream(n) ==
  /\ layer = "stream" /\ n <= Len(sent) - read
  /\ stream' = U!FeedUsage(stream, SubSeq(sent, read + 1, read + n))
  /\ lost' = [triggers |-> lost.triggers \union PassedTriggers(SubSeq(sent, 1, read + n), read + 1),
              objects |-> lost.objects \union GivenUp(SubSeq(sent, 1, read + n))]
  /\ read' = read + n
  /\ UNCHANGED <<layer, sent, more, scan, facts>>

\* A read of the next n symbols of a Gemini stream.
ReadFacts(n) ==
  /\ layer = "facts" /\ n <= Len(sent) - read
  /\ facts' = F!StampFacts(facts, SubSeq(sent, read + 1, read + n))
  /\ read' = read + n
  /\ UNCHANGED <<layer, sent, more, scan, stream, lost>>

\* One more line of a request's head.
WriteLine(l) ==
  /\ layer = "request" /\ Len(sent) < MaxHead
  /\ sent' = Append(sent, l)
  /\ UNCHANGED <<layer, more, read, scan, stream, lost, facts>>

TextNext ==
  \/ \E w \in BodyWords : Write(w)
  \/ ReadBody
  \/ \E l \in AskedLines : WriteLine(l)
  \/ \E n \in 1..Len(sent) : ReadStream(n) \/ ReadFacts(n)

Next ==
  \/ TextNext /\ UNCHANGED ReplyVars
  \/ RP!Next /\ UNCHANGED TextVars

Spec == Init /\ [][Next]_vars

-----------------------------------------------------------------------------
(* What the readers promise each other. *)

Raw(v) == IF v.type = "String" THEN T!Quoted(v.sv) ELSE v.sv
RawMembers(v) == [i \in DOMAIN v.keys |-> [key |-> v.keys[i], value |-> Raw(v.kids[i])]]

\* The members of the object `walk` under key "m", and under "t" (what the scan was asked for).
TrackedModel(m, ms) ==
  IF m.modelEnd = T!B!NPos THEN T!FirstIn(ms, <<"m">>) = T!None
  ELSE SubSeq(sent, m.modelAt + 1, m.modelEnd) = T!FirstIn(ms, <<"m">>)
TrackedMember(m, ms) ==
  [i \in DOMAIN m.found |-> SubSeq(sent, m.found[i].valueAt + 1, m.found[i].end)]
    = (IF T!FirstIn(ms, <<"t">>) = T!None THEN <<>> ELSE <<T!FirstIn(ms, <<"t">>)>>)

\* The values of a well formed text, and whether an object of it repeats a key, as its
\* text is walked.
Walks(text) == CASE text[1] = "{" -> [i \in DOMAIN T!ForEachMember(text).members |-> T!ForEachMember(text).members[i].value]
                 [] text[1] = "[" -> T!ForEachElement(text).members
                 [] OTHER -> <<>>
RECURSIVE Values(_)
Values(text) == FoldLeft(LAMBDA n, v : n + Values(v), 1, Walks(text))
RECURSIVE Repeats(_)
Repeats(text) ==
  \/ text[1] = "{" /\ ~J!Distinct([i \in DOMAIN T!ForEachMember(text).members |-> J!Unescape(T!ForEachMember(text).members[i].key)])
  \/ \E v \in ToSet(Walks(text)) : Repeats(v)

\* What the scan lets through has the facts' keys, but for those of prompt_cache_options,
\* which it does not look into (body_scan.cpp:173, translate_body.cpp:93), and is what the
\* parser takes, but for keys repeated deeper and for the number of values.
Trimmed(text) == SubSeq(text, J!Ws(text, 1), Len(text))
ScanAccepts(m, walk, keys, r) ==
  m.verdict = "Done" =>
    /\ r.ok <=> Values(Trimmed(sent)) <= MaxNodes /\ ~ Repeats(Trimmed(sent))
    /\ walk.ok /\ keys = T!CheckKeys(T!FirstIn(walk.members, <<"p">>))
    /\ TrackedModel(m, walk.members) /\ TrackedMember(m, walk.members)
\* An override's member that is not a string is the one object the scan alone refuses.
ParserAccepts(m, r, keys) ==
  (r.ok /\ r.v.type = "Object" /\ keys = "Ok" /\ \A i \in DOMAIN r.v.keys : r.v.keys[i] = <<"t">> => r.v.kids[i].type = "String")
    => m.verdict = "Done"
\* No part of a key, nor of the model's value, leaves before the scan has judged it.
HeldKey(m) == (m.verdict = "More" /\ m.key /\ m.tracked) => T!B!Safe(m) < m.str
Judged(m, whole, top) ==
  /\ ScanAccepts(whole, T!ForEachMember(sent), top.keys, J!Parse(sent, {}))
  /\ ParserAccepts(whole, J!Parse(sent, {}), top.keys)
  /\ whole.verdict = "Done" => top.model = T!ModelOf(sent)

\* BodyScan checks a body's syntax, top-level keys and stream_options' keys "as top_level_facts
\* checks them" (body_scan.hpp:20): however it was cut, the scan stands where one scan of all
\* of it would; a body it lets through whole is one the parser takes unless an object deeper
\* repeats a key or it has too many values, and one the facts take unless it is
\* prompt_cache_options that repeats or escapes a key; the model and the members are where
\* the walk of it says; and it refuses nothing the parser and the facts take.
ScanAgrees ==
  (layer = "body" /\ read = Len(sent)) =>
    /\ scan.verdict = "More" => scan = T!B!Feed(AllKeys, sent, FALSE)
    /\ HeldKey(scan)
    /\ Judged(scan, T!B!Feed(scan, sent, TRUE), T!TopLevelFacts(sent))

Decode(raw) == J!Unescape(raw)
Reencoded(raw) == LET q == J!AppendEscaped(Decode(raw)) IN SubSeq(q, 2, Len(q) - 1)
OverrideOf(v, o) ==
  {<<v.keys[i], IF v.keys[i] \in {<<k>> : k \in DOMAIN o} THEN T!Quoted(o[v.keys[i][1]]) ELSE Raw(v.kids[i])>> : i \in DOMAIN v.keys}
    \union {<<<<k>>, T!Quoted(o[k])>> : k \in DOMAIN o}
OverriddenAs(r, edited, o) ==
  edited.ok =>
    \E p \in {J!Parse(edited.text, {})} :
      /\ p.ok
      /\ {<<p.v.keys[i], Raw(p.v.kids[i])>> : i \in DOMAIN p.v.keys} = OverrideOf(r.v, o)

Agree(r, opaque, walk) ==
  /\ r.ok = opaque.ok
  /\ (r.ok /\ r.v.type = "Object") =>
       /\ walk.ok /\ walk.members = RawMembers(r.v) /\ RawMembers(opaque.v) = RawMembers(r.v)
       /\ \A i, j \in DOMAIN r.v.keys : i # j => Decode(r.v.keys[i]) # Decode(r.v.keys[j])
       /\ \A i \in DOMAIN r.v.keys : Decode(Reencoded(r.v.keys[i])) = Decode(r.v.keys[i])
       /\ \A o \in Overrides : OverriddenAs(r, T!ApplyOverrides(sent, o), o)

\* An object the parser takes reads the same as text (json_scan.hpp) and with a member kept
\* as its span, names no member twice under any spelling, and an override of it
\* (apply_overrides) is an object with exactly the members set and the others untouched.
ReadersAgree == layer = "body" => Agree(J!Parse(sent, {}), J!Parse(sent, {<<"a">>}), T!ForEachMember(sent))

WholeUsage(s, calls) ==
  IF calls THEN U!CountCalls(U!Search(s, U!NoUsage, 1, 1).u, U!Calls(s, TRUE)) ELSE U!Search(s, U!NoUsage, 1, 1).u
UsageKeysIn(s) == Cardinality({i \in 1..Len(s) : U!IsAt(s, i, U!Prefix)})
Without(s, at) == [i \in DOMAIN s |-> IF i \in at THEN "x" ELSE s[i]]
TriggersBut(s, at) == U!BilledOf(SelectSeq(U!Triggers(s), LAMBDA x : x.at \notin at))
AsWhole(prefix, m, stated, named) ==
  /\ m.u = stated /\ m.triggers = named
  /\ U!UsageNow(m) = U!BillDeclined(stated, named)
OneObject(prefix, m) ==
  (UsageKeysIn(prefix) = 1 /\ ~ m.calls) => U!ScanUsage(prefix) = WholeUsage(prefix, FALSE)

\* StreamUsage::feed and usage(), wherever the reads cut: the counts, the triggers in their
\* order and the bill are those of one read of everything so far, but for an object not
\* closed within kMaxObject, dropped at openai.cpp:660, and for a trigger that is whole in
\* a read and begins it: openai.cpp:591 has it that each is counted, but the joint text is
\* not read (:602) and in the read alone nothing before the key says that it is one.  Where
\* one object states the counts they are those the whole body's reader (scan_usage) reads.
UsageAsWhole ==
  layer = "stream" =>
    \A prefix \in {SubSeq(sent, 1, read)} :
      /\ AsWhole(prefix, stream, WholeUsage(Without(prefix, lost.objects), stream.calls), TriggersBut(prefix, lost.triggers))
      /\ OneObject(prefix, stream)

\* The whole events of a stream's text, those of lines over the cap left out.
WholeEvents(s) ==
  LET ends  == SetToSortSeq({i \in DOMAIN s : s[i] = F!LF}, <)
      line  == [i \in DOMAIN ends |-> SubSeq(s, IF i = 1 THEN 1 ELSE ends[i - 1] + 1, ends[i] - 1)]
      event == SelectSeq(line, LAMBDA l : Len(l) <= MaxLine /\ IsPrefix(F!Data, l) /\ "bad" \notin F!Names(l))
  IN  [i \in DOMAIN event |-> F!GeminiFacts(event[i])]

\* The first of the values xs that is not empty.
FirstStated(xs) == LET at == {i \in DOMAIN xs : xs[i] # 0} IN IF at = {} THEN 0 ELSE xs[Min(at)]

\* What those events state, each read in full.
StatedBy(gs) ==
  LET errors == {i \in DOMAIN gs : gs[i].error} IN
  [model |-> FirstStated([i \in DOMAIN gs |-> gs[i].model]),
   id |-> FirstStated([i \in DOMAIN gs |-> gs[i].id]),
   tier |-> FirstStated([i \in DOMAIN gs |-> gs[i].tier]),
   queries |-> Max({gs[i].queries : i \in DOMAIN gs} \union {-1}),
   tool |-> \E i \in DOMAIN gs : gs[i].tool,
   error |-> errors # {},
   status |-> IF errors = {} THEN 0 ELSE gs[Max(errors)].status,
   thinking |-> \E i \in DOMAIN gs : gs[i].thinking /\ \A j \in 1..(i - 1) : ~ gs[j].token,
   token |-> \E i \in DOMAIN gs : gs[i].token]

\* note_gemini_events, wherever the reads cut a line and whichever lines it does not parse:
\* what it has kept is what the whole events so far state, and thinking is stamped exactly
\* when it came no later than the first token.
FactsAsWhole == layer = "facts" => facts.f = StatedBy(WholeEvents(SubSeq(sent, 1, read)))

\* The lines of a head that have one of these names, and what they say.
Named(ls, names) == {i \in DOMAIN ls : ls[i].n \in names}
Said(ls, names) == {ls[i].v.t : i \in Named(ls, names)}
ConnectionNames(head, n) == \E i \in Named(head, {"connection"}) : n \in head[i].v.toks

\* A key of the family leaves only as the one the policy named, sent once, and where it
\* does no other credential leaves beside it.
KeysKept(head, w, ls) ==
  /\ Named(ls, R!Family) = {}
  /\ \A i \in DOMAIN ls :
       ls[i].v.t \in Said(head, R!Family) =>
         /\ ls[i].n = R!KeyLineFor(w.venue)
         /\ Cardinality(Named(head, {w.d.name})) = 1 /\ ls[i].v.t \in Said(head, {w.d.name})
  /\ w.d.name # "" => Cardinality(Named(ls, R!Credentials \union {"signature"})) = 1
\* What the operator strips stays behind, and of the client's hop its own headers, those its
\* Connection names that the gateway has no field for, and anthropic-beta.
HopKept(head, w, ls) ==
  /\ \A i \in DOMAIN ls : ls[i].v.t \notin Said(head, w.strip \ R!Family)
  /\ \A i \in Named(ls, R!HopByHop) : ls[i] = R!Ours("connection")
  /\ \A i \in DOMAIN ls : R!Other(ls[i].n) => ~ ConnectionNames(head, ls[i].n)
  /\ ConnectionNames(head, "anthropic-beta") =>
       \A i \in Named(ls, {"anthropic-beta"}) : ls[i].v.toks \subseteq w.d.beta.toks
  /\ \A i \in Named(ls, {"content-length"}) : ls[i] = R!Ours("content-length")
  /\ Cardinality(Named(ls, {"content-length"})) <= 1
\* With no key named, a byte-forward takes the client's credentials along as they came, those
\* its Connection names too: request.cpp:690 asks that only of headers without a field.
CredentialsGo(head, w, ls) ==
  w.d.name = "" /\ R!Plan(w.q, w.venue) = "forward" =>
    \A i \in Named(head, R!Credentials \ w.strip) : \E j \in DOMAIN ls : ls[j] = head[i]
\* The policy's beta token is in one line, with the client's own.
BetaJoined(w, ls) ==
  (w.d.beta # R!NoValue /\ R!Auth(w.venue) = "XApiKey") =>
    \E i \in Named(ls, {"anthropic-beta"}) :
      w.d.beta.toks \subseteq ls[i].v.toks /\ Named(ls, {"anthropic-beta"}) = {i}

\* The path names the model decided on, never the client's in its place.  Where an OAuth
\* token goes to Vertex it is under a project, but for two of the client's own paths: one
\* that names no model goes as it came, and one to an endpoint of a project is written to
\* the publisher path without it (TokenScoped is what client.cpp:452 says of both).
PathKept(w, path) ==
  /\ w.q.wire = "Gemini" \/ R!NeedsModel(w.venue) =>
       path.model = R!OrModel(R!Override(w.q, w.d), w.q.model)
  /\ w.venue.dialect = "vertex" /\ w.venue.bearer =>
       path.layout = CASE w.q.model = "" -> w.q.layout
                       [] w.q.model # "" /\ w.q.layout = "endpoint" -> "publisher"
                       [] OTHER -> "project"

Built(w) == R!Framed(sent, w.q, w.d, w.venue, w.strip)

\* What a venue is sent, whatever the client's head holds and however often (build_forward,
\* build_translated_request): the provider keys of other venues and stripped headers never
\* leave, a named key goes alone, the length is the gateway's own, and the path is the one
\* decided.  This hop's headers do not leave either, except that a header the gateway has a
\* field for, a credential above all, leaves though the client's Connection names it
\* (ListedStay is what request.cpp:604 says of that).
RequestsClean ==
  layer = "request" =>
    \A w \in Routes :
      \A r \in {Built(w)} :
        r.ok => /\ KeysKept(sent, w, r.lines) /\ HopKept(sent, w, r.lines)
                /\ CredentialsGo(sent, w, r.lines)
                /\ BetaJoined(w, r.lines) /\ PathKept(w, r.path)

\* build_forward: "the hop-by-hop headers and any the client's Connection names are this
\* hop's".
ListedStay ==
  layer = "request" =>
    \A w \in Routes :
      \A r \in {Built(w)} :
        r.ok /\ R!Plan(w.q, w.venue) = "forward" =>
          \A i \in DOMAIN sent :
            ConnectionNames(sent, sent[i].n) => \A j \in DOMAIN r.lines : r.lines[j] # sent[i]

\* dispatch: "An OAuth token reaches Vertex only under a project, the client's or the
\* policy's"; gemini_forward_target: "a project-scoped target still goes as written".
TokenScoped ==
  layer = "request" =>
    \A w \in Routes :
      \A r \in {Built(w)} :
        r.ok /\ w.venue.dialect = "vertex" /\ w.venue.bearer =>
          r.path.layout \in {"project", "endpoint"}

\* note_triggers: "Each is counted once, where it ends."
TriggersOnce ==
  layer = "stream" => stream.triggers = U!BilledOf(U!Triggers(SubSeq(sent, 1, read)))

-----------------------------------------------------------------------------
(* What Reply promises. *)

\* As Reply states it: every parser frames an accepted message as the gateway did.
HeadsUnambiguous == RP!HeadsUnambiguous
\* As Reply states it, of parse_response_head: a response with both framings is refused.
BothRefused == RP!BothRefused
\* As Reply states it: a reply framed in pieces is the reply framed whole.
FramedAsWhole == RP!FramedAsWhole
\* As Reply states it: the events read in pieces are the stream's.
EventsAsWhole == RP!EventsAsWhole
\* As Reply states it: a translated stream is one an OpenAI client can read.
StreamWellFormed == RP!StreamWellFormed
\* As Reply states it: a translated stream ends as the venue's did.
EndIsHonest == RP!EndIsHonest

=============================================================================
