---------------------------- MODULE StreamUsage ----------------------------
(***************************************************************************)
(* The counts a reply states, and what a declined attempt costs            *)
(* (provider/openai.cpp): read from a whole body, and from a stream that   *)
(* arrives cut anywhere (class StreamUsage).                               *)
(*                                                                         *)
(* Texts as in JsonScan, a key or a word being one symbol, but for the     *)
(* names a read may cut: "usage" is u s, "usageMetadata" u s M, "trigger"  *)
(* tri gger, and a search event's name three symbols.  The audio, image,   *)
(* prediction, price and compaction counts are read as these are and left  *)
(* out, as are the cache writes of declined attempts.  -1 is not stated.   *)
(***************************************************************************)
LOCAL INSTANCE Integers
LOCAL INSTANCE Sequences
LOCAL INSTANCE SequencesExt
LOCAL INSTANCE FiniteSetsExt
LOCAL INSTANCE TLC

CONSTANTS
  MaxDepth, MaxNodes, MaxKeys,   \* limits of Json and BodyScan
  CallTail,      \* kTail
  TrigTail,      \* kTrigTail
  Lead,          \* kLead
  MaxObject,     \* kMaxObject
  MaxHeld,       \* Usage::kMaxHeld
  MaxTriggers    \* RefusalTriggers::kMax

T == INSTANCE JsonScan

Prefix == <<"q", "u", "s">>
UsageKey == Prefix \o <<"q">>
MetadataKey == Prefix \o <<"M", "q">>
Trigger == <<"q", "tri", "gger", "q">>
EventName == <<"_search_call", ".completed", "q">>
ItemName == <<"_search_call", "q">>

Known(n) == IF n > 0 THEN n ELSE 0
MaxOf(a, b) == IF a > b THEN a ELSE b
IsAt(s, i, w) == i + Len(w) - 1 <= Len(s) /\ SubSeq(s, i, i + Len(w) - 1) = w
FindFrom(s, from, w) == T!J!FirstOr({i \in from..(Len(s) - Len(w) + 1) : IsAt(s, i, w)}, 0)

-----------------------------------------------------------------------------
(* Counts under each venue's names, and in OpenAI's. *)

Digit == "0" :> 0 @@ "1" :> 1 @@ "6" :> 6 @@ "8" :> 8
Count(raw) ==
  IF raw = <<>> \/ Len(raw) > 18 \/ \E i \in DOMAIN raw : raw[i] \notin DOMAIN Digit THEN -1
  ELSE FoldLeft(LAMBDA n, c : n * 10 + Digit[c], 0, raw)

NoUsage == [in |-> -1, out |-> -1, cached |-> -1, cacheWrite |-> -1, reasoning |-> -1, toolPrompt |-> -1,
            webSearch |-> -1, fileSearch |-> -1,
            priorIn |-> -1, priorCached |-> -1, priorAttempts |-> -1, priorBilled |-> -1,
            priorUnverified |-> -1, held |-> <<>>]

\* anthropic_usage: its input is the fresh part only.
AnthropicUsage(fresh, out, read, write) ==
  [NoUsage EXCEPT !.cached = Known(read), !.cacheWrite = Known(write),
                  !.in = Known(fresh) + Known(read) + Known(write), !.out = out]
\* gemini_usage: thinking stated beside the candidates, or left out and in the total.
Thoughts(r) ==
  IF r.g_thoughts >= 0 \/ r.g_total < 0 \/ r.g_prompt < 0 \/ r.g_candidates < 0 THEN r.g_thoughts
  ELSE IF r.g_total - r.g_prompt - r.g_candidates - Known(r.g_tool) > 0
       THEN r.g_total - r.g_prompt - r.g_candidates - Known(r.g_tool) ELSE -1
GeminiCounts(r, thoughts) ==
  [NoUsage EXCEPT !.in = r.g_prompt, !.cached = r.g_cached, !.reasoning = thoughts, !.toolPrompt = r.g_tool,
                  !.out = IF thoughts >= 0 THEN Known(r.g_candidates) + thoughts ELSE r.g_candidates]
GeminiUsage(r) == GeminiCounts(r, Thoughts(r))

NoAttempts == [fresh |-> -1, read |-> -1, n |-> 0]
Plus(sum, v) == IF v >= 0 THEN Known(sum) + v ELSE sum
AddAttempt(a, fresh, read) == [fresh |-> Plus(a.fresh, fresh), read |-> Plus(a.read, read), n |-> a.n + 1]

NoRaw == [prompt |-> -1, completion |-> -1, cached |-> -1, cache_write |-> -1, reasoning |-> -1,
          input |-> -1, output |-> -1, cache_read |-> -1, cache_creation |-> -1, web_search |-> -1,
          g_prompt |-> -1, g_candidates |-> -1, g_thoughts |-> -1, g_cached |-> -1, g_tool |-> -1, g_total |-> -1,
          declined |-> NoAttempts, outputDeclined |-> NoAttempts, held |-> <<>>, heldOver |-> 0, fallback |-> FALSE]

\* kUsageKeys and kGeminiKeys: the field a name under a parent states.
UsageKeys ==
  <<"", "prompt_tokens">> :> "prompt" @@ <<"", "completion_tokens">> :> "completion" @@
  <<"", "cached_tokens">> :> "cached" @@ <<"prompt_tokens_details", "cached_tokens">> :> "cached" @@
  <<"prompt_tokens_details", "cache_write_tokens">> :> "cache_write" @@
  <<"completion_tokens_details", "reasoning_tokens">> :> "reasoning" @@
  <<"", "input_tokens">> :> "input" @@ <<"", "output_tokens">> :> "output" @@
  <<"input_tokens_details", "cached_tokens">> :> "cached" @@
  <<"input_tokens_details", "cache_write_tokens">> :> "cache_write" @@
  <<"output_tokens_details", "reasoning_tokens">> :> "reasoning" @@
  <<"output_tokens_details", "thinking_tokens">> :> "reasoning" @@
  <<"", "cache_read_input_tokens">> :> "cache_read" @@
  <<"", "cache_creation_input_tokens">> :> "cache_creation" @@
  <<"server_tool_use", "web_search_requests">> :> "web_search"
GeminiKeys ==
  <<"", "promptTokenCount">> :> "g_prompt" @@ <<"", "candidatesTokenCount">> :> "g_candidates" @@
  <<"", "thoughtsTokenCount">> :> "g_thoughts" @@ <<"", "cachedContentTokenCount">> :> "g_cached" @@
  <<"", "toolUsePromptTokenCount">> :> "g_tool" @@ <<"", "totalTokenCount">> :> "g_total"

\* read_iterations: an attempt that declined before any output is held for its category.
Iteration(e) == [type |-> T!PlainString(T!FirstIn(e, <<"type">>)), fresh |-> Count(T!FirstIn(e, <<"input_tokens">>)),
                 out |-> Count(T!FirstIn(e, <<"output_tokens">>)), read |-> Count(T!FirstIn(e, <<"cache_read_input_tokens">>))]
HeldOf(it, k) == [in |-> Known(it.fresh) + Known(it.read), cached |-> Known(it.read), index |-> k]
Declined(r, it, k) ==
  IF it.out > 0 THEN [r EXCEPT !.outputDeclined = AddAttempt(@, it.fresh, it.read)]
  ELSE IF Len(r.held) < MaxHeld THEN [r EXCEPT !.held = Append(@, HeldOf(it, k))]
  ELSE [r EXCEPT !.heldOver = @ + 1]
ReadIteration(r, it) ==
  CASE it.type = <<"message">> -> Declined([r EXCEPT !.declined = AddAttempt(@, it.fresh, it.read)], it, r.declined.n)
    [] it.type = <<"fallback_message">> -> [r EXCEPT !.fallback = TRUE]
    [] OTHER -> r
ReadIterations(arr, r) ==
  FoldLeft(LAMBDA acc, e : ReadIteration(acc, Iteration(T!ForEachMember(e).members)), r, T!ForEachElement(arr).members)

\* read_members, one level down for an object.
Name(key) == IF Len(key) = 1 THEN key[1] ELSE ""
ReadCount(r, keys, key, v) == IF key \in DOMAIN keys THEN [r EXCEPT ![keys[key]] = Count(v)] ELSE r
ReadInner(obj, parent, keys, r) ==
  FoldLeft(LAMBDA acc, m : IF m.value[1] = "{" THEN acc ELSE ReadCount(acc, keys, <<parent, Name(m.key)>>, m.value),
           r, T!ForEachMember(obj).members)
ReadMember(r, keys, name, v) ==
  CASE v[1] = "{" -> ReadInner(v, name, keys, r)
    [] v[1] = "[" -> IF name = "iterations" THEN ReadIterations(v, r) ELSE r
    [] v[1] = "q" -> r
    [] OTHER -> ReadCount(r, keys, <<"", name>>, v)
ReadMembers(obj, keys) ==
  FoldLeft(LAMBDA acc, m : ReadMember(acc, keys, Name(m.key), m.value), NoRaw, T!ForEachMember(obj).members)

\* counts: OpenAI's chat names, the Responses API's, or Anthropic's.
Counts(r) ==
  IF r.prompt >= 0 \/ r.completion >= 0
  THEN [NoUsage EXCEPT !.in = r.prompt, !.out = r.completion, !.cached = r.cached, !.reasoning = r.reasoning,
                       !.cacheWrite = IF r.cache_write > 0 THEN r.cache_write ELSE -1]
  ELSE IF r.input < 0 \/ (r.cache_read < 0 /\ r.cache_creation < 0 /\ (r.cached >= 0 \/ r.cache_write > 0))
  THEN [NoUsage EXCEPT !.in = r.input, !.out = r.output, !.reasoning = r.reasoning,
                       !.cached = IF r.input >= 0 /\ r.cached < 0 THEN 0 ELSE r.cached,
                       !.cacheWrite = IF r.cache_write > 0 THEN r.cache_write ELSE -1]
  ELSE [AnthropicUsage(r.input, r.output, r.cache_read, r.cache_creation) EXCEPT !.reasoning = r.reasoning]

\* extras: without a fallback the attempts are the served model's own.
Prior(u, r, b) ==
  [u EXCEPT !.priorIn = Known(b.fresh) + Known(b.read), !.priorCached = Known(b.read), !.priorAttempts = r.declined.n,
            !.priorBilled = b.n, !.priorUnverified = r.heldOver, !.held = r.held]
Extras(u, r) == IF r.declined.n > 0 /\ r.fallback THEN Prior(u, r, r.outputDeclined) ELSE u
FromUsage(r) == Extras([Counts(r) EXCEPT !.webSearch = r.web_search], r)
ReadUsage(obj, gemini) ==
  IF gemini THEN GeminiUsage(ReadMembers(obj, GeminiKeys)) ELSE FromUsage(ReadMembers(obj, UsageKeys))

\* merge_stated: prompt counts only grow, the others are replaced by what is stated.
Grows == {"in", "cached", "cacheWrite"}
Replaces == {"out", "reasoning", "toolPrompt", "webSearch"}
PriorFields == {"priorIn", "priorCached", "priorAttempts", "priorBilled", "priorUnverified", "held"}
MergeStated(into, u) ==
  [f \in DOMAIN into |->
     CASE f \in Grows -> MaxOf(into[f], u[f])
       [] f \in Replaces -> IF u[f] >= 0 THEN u[f] ELSE into[f]
       [] f \in PriorFields -> IF u.priorAttempts >= 0 THEN u[f] ELSE into[f]
       [] OTHER -> into[f]]

-----------------------------------------------------------------------------
(* Search calls, and the refusals a fallback names. *)

\* each_search_call: where each one starts and ends in s.
CallHead(web, events) == IF events THEN <<"q", IF web THEN "response.web" ELSE "response.file">>
                         ELSE <<"q", IF web THEN "web" ELSE "file">>
CallName(events) == IF events THEN EventName ELSE ItemName
Calls(s, events) ==
  {[at |-> i, end |-> i + 2 + Len(CallName(events)), web |-> w] :
     <<i, w>> \in {<<i, w>> \in (1..Len(s)) \X BOOLEAN : IsAt(s, i, CallHead(w, events) \o CallName(events))}}
AddCalls(n, k) == IF k = 0 THEN n ELSE Known(n) + k
CountCalls(u, calls) ==
  [u EXCEPT !.webSearch = AddCalls(@, Cardinality({x \in calls : x.web})),
            !.fileSearch = AddCalls(@, Cardinality({x \in calls : ~ x.web}))]
CountSearchCalls(bytes, u) == CountCalls(u, Calls(bytes, FALSE))

\* A match of the joint text that starts in the kept tail and ends in this read.
Across(found, tail) == {x \in found : x.at <= Len(tail) /\ x.end > Len(tail) + 1}
LastOf(s, n) == SubSeq(s, MaxOf(1, Len(s) - n + 1), Len(s))
FirstOf(s, n) == SubSeq(s, 1, IF n > Len(s) THEN Len(s) ELSE n)
StreamCalls(m, bytes) ==
  [m EXCEPT !.u = CountCalls(CountCalls(@, Calls(bytes, TRUE)), Across(Calls(m.tail \o FirstOf(bytes, CallTail), TRUE), m.tail)),
            !.tail = LastOf(@ \o bytes, CallTail)]

\* each_trigger.
RefusalBilled(category) == category \in {<<"bio">>, <<"frontier_llm">>, <<"reasoning_extraction">>}
RECURSIVE EachTrigger(_, _, _)
IsRefusal(ms) == T!PlainString(T!FirstIn(ms, <<"type">>)) = <<"refusal">> /\ \E m \in ToSet(ms) : m.key = <<"category">>
TriggerIn(s, at, end, ms, got) ==
  EachTrigger(s, end, IF IsRefusal(ms)
                      THEN Append(got, [at |-> at, end |-> end, billed |-> RefusalBilled(T!PlainString(T!FirstIn(ms, <<"category">>)))])
                      ELSE got)
TriggerTo(s, at, v, end, got) ==
  IF end = 0 THEN EachTrigger(s, at + 1, got) ELSE TriggerIn(s, at, end, T!ForEachMember(T!J!Slice(s, v, end)).members, got)
TriggerAt(s, at, v, got) ==
  IF T!J!At(s, v) # "{" THEN EachTrigger(s, at + 1, got) ELSE TriggerTo(s, at, v, T!SkipValue(s, v), got)
TriggerFound(s, at, got) == IF at = 0 THEN got ELSE TriggerAt(s, at, T!KeyValueAt(s, at, Len(Trigger)), got)
EachTrigger(s, from, got) == TriggerFound(s, FindFrom(s, from, Trigger), got)
Triggers(s) == EachTrigger(s, 1, <<>>)

BilledOf(found) == [i \in DOMAIN found |-> found[i].billed]
AddTriggers(t, found) == t \o BilledOf(found)

\* note_triggers: a trigger split across reads is read from the kept tail and this read.
MayStart(tail) ==
  \/ FindFrom(tail, 1, Trigger) # 0
  \/ \E k \in 1..(Len(Trigger) - 1) : k <= Len(tail) /\ LastOf(tail, k) = FirstOf(Trigger, k)
Joint(tail, bytes) ==
  IF MayStart(tail) THEN SelectSeq(Triggers(tail \o FirstOf(bytes, TrigTail)), LAMBDA x : x.at <= Len(tail) /\ x.end > Len(tail) + 1)
  ELSE <<>>
NoteTriggers(m, bytes) ==
  [m EXCEPT !.triggers = AddTriggers(AddTriggers(@, Joint(m.trigTail, bytes)), Triggers(bytes)),
            !.trigTail = LastOf(@ \o bytes, TrigTail)]

\* bill_declined: a held attempt costs what its category says.
Bill(u, h, billed) ==
  IF billed THEN [u EXCEPT !.priorIn = Known(@) + h.in, !.priorCached = Known(@) + h.cached, !.priorBilled = Known(@) + 1] ELSE u
Unverified(u) == [u EXCEPT !.priorUnverified = Known(@) + 1]
BillDeclined(u, t) ==
  [FoldLeft(LAMBDA acc, h : IF h.index < Len(t) /\ h.index < MaxTriggers THEN Bill(acc, h, t[h.index + 1]) ELSE Unverified(acc),
            u, u.held) EXCEPT !.held = <<>>]

-----------------------------------------------------------------------------
(* StreamUsage::feed. *)

\* reset: positions count from 1, so a fresh search starts there.
NewStream(calls) ==
  [carry |-> <<>>, seen |-> 1, u |-> NoUsage, calls |-> calls, tail |-> <<>>, triggers |-> <<>>, trigTail |-> <<>>]

\* Whether the text at `at` could still become either key.
Partial(rest) ==
  Len(rest) < Len(MetadataKey) /\ (IsPrefix(rest, MetadataKey) \/ IsPrefix(rest, UsageKey))
Value(s, colon) == IF T!J!At(s, colon) = ":" THEN T!J!Ws(s, colon + 1) ELSE colon

\* The search over s: the counts, where the next one starts, and what must be kept (0: nothing).
Found(u, next, keep) == [u |-> u, next |-> next, keep |-> keep]
RECURSIVE Search(_, _, _, _)
Stated(s, u, v, end, gemini, next) ==
  Search(s, MergeStated(u, ReadUsage(T!J!Slice(s, v, end), gemini)), end, MaxOf(next, end))
ObjectTo(s, u, at, v, end, gemini, next) ==
  IF end # 0 THEN Stated(s, u, v, end, gemini, next)
  ELSE IF Len(s) - at + 1 > MaxObject THEN Search(s, u, at + 1, next) ELSE Found(u, at, at)
ValueFrom(s, u, at, len, v, gemini, next) ==
  IF v > Len(s) THEN Found(u, at, at)
  ELSE IF s[v] # "{" \/ T!KeyValueAt(s, at, len) # v THEN Search(s, u, at + 1, next)
  ELSE ObjectTo(s, u, at, v, T!SkipValue(s, v), gemini, next)
KeyFrom(s, u, at, rest, next) ==
  CASE Partial(rest) -> Found(u, at, at)
    [] ~ Partial(rest) /\ IsPrefix(MetadataKey, rest) ->
         ValueFrom(s, u, at, Len(MetadataKey), Value(s, T!J!Ws(s, at + Len(MetadataKey))), TRUE, next)
    [] ~ Partial(rest) /\ IsPrefix(UsageKey, rest) ->
         ValueFrom(s, u, at, Len(UsageKey), Value(s, T!J!Ws(s, at + Len(UsageKey))), FALSE, next)
    [] OTHER -> Search(s, u, at + 1, next)
SearchAt(s, u, at, next) == IF at = 0 THEN Found(u, next, 0) ELSE KeyFrom(s, u, at, SubSeq(s, at, Len(s)), next)
Search(s, u, from, next) == SearchAt(s, u, FindFrom(s, from, Prefix), next)

\* What is carried to the next read, a little before where it searches.
Kept_NoLead(m, s, r, keep) == [m EXCEPT !.u = r.u, !.carry = SubSeq(s, keep, Len(s)), !.seen = r.next - keep + 1]
Kept(m, s, r, keep) ==
  [m EXCEPT !.u = r.u, !.carry = SubSeq(s, MaxOf(1, keep - Lead), Len(s)), !.seen = r.next - MaxOf(1, keep - Lead) + 1]
Searched(m, s, r) == Kept(m, s, r, IF r.keep = 0 THEN r.next ELSE r.keep)
FirstNext(s) == IF Len(s) >= Len(UsageKey) THEN Len(s) - (Len(UsageKey) - 1) + 1 ELSE 1
FeedCarry(m, s) == Searched(m, s, Search(s, m.u, m.seen, FirstNext(s)))
CountIf(m, bytes) == IF m.calls THEN StreamCalls(m, bytes) ELSE m
Carried(m, bytes) == FeedCarry(m, m.carry \o bytes)
FeedUsage(m, bytes) == Carried(CountIf(NoteTriggers(m, bytes), bytes), bytes)
\* usage(): what is stated so far, declined attempts billed by the triggers read.
UsageNow(m) == BillDeclined(m.u, m.triggers)

\* scan_usage: the last whole object of a body.
RECURSIVE LastUsage(_, _, _)
LastTo(s, at, v, end, gemini, last) ==
  IF end = 0 THEN LastUsage(s, at + 1, last) ELSE LastUsage(s, end, ReadUsage(T!J!Slice(s, v, end), gemini))
LastFrom(s, at, v, gemini, last) ==
  IF T!J!At(s, v) # "{" THEN LastUsage(s, at + 1, last) ELSE LastTo(s, at, v, T!SkipValue(s, v), gemini, last)
LastAt(s, at, last) ==
  CASE at = 0 -> last
    [] at # 0 /\ IsAt(s, at, MetadataKey) -> LastFrom(s, at, T!KeyValueAt(s, at, Len(MetadataKey)), TRUE, last)
    [] at # 0 /\ IsAt(s, at, UsageKey) -> LastFrom(s, at, T!KeyValueAt(s, at, Len(UsageKey)), FALSE, last)
    [] OTHER -> LastUsage(s, at + 1, last)
LastUsage(s, from, last) == LastAt(s, FindFrom(s, from, Prefix), last)
ScanUsage(body) == LastUsage(body, 1, NoUsage)

=============================================================================
