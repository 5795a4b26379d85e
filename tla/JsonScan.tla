------------------------------ MODULE JsonScan ------------------------------
(***************************************************************************)
(* JSON read and edited as text, without building it (provider/            *)
(* json_scan.hpp, the top-level facts and the overrides of provider/       *)
(* translate_body.cpp, and the splice of gateway/splice.cpp).              *)
(*                                                                         *)
(* Symbols as in Json; the key "m" is `model`, "o" `stream_options`, "p"   *)
(* `prompt_cache_options`, "t" and "s" members an override may set.  0 is  *)
(* npos.                                                                   *)
(***************************************************************************)
LOCAL INSTANCE Integers
LOCAL INSTANCE Sequences
LOCAL INSTANCE SequencesExt
LOCAL INSTANCE FiniteSetsExt

CONSTANTS MaxDepth, MaxNodes, MaxKeys

J == INSTANCE Json
B == INSTANCE BodyScan

None == <<>>

\* string_close: the first quote behind an even run of backslashes.
Backslashes(b, from, at) ==
  at - 1 - J!FirstOr({k \in from..(at - 1) : \A j \in k..(at - 1) : b[j] = "esc"}, at) + 1
QuoteFrom(b, from) == J!FirstOr({at \in from..Len(b) : b[at] = "q"}, 0)
RECURSIVE Closes(_, _, _)
Closes(b, i, at) ==
  IF at = 0 \/ Backslashes(b, i, at) % 2 = 0 THEN at ELSE Closes(b, i, QuoteFrom(b, at + 1))
StringClose(b, i) == Closes(b, i, QuoteFrom(b, i))

\* skip_value: one past the value at i.
After(close) == IF close = 0 THEN 0 ELSE close + 1
RECURSIVE SkipNested(_, _, _)
NestedString(b, close, depth) == IF close = 0 THEN 0 ELSE SkipNested(b, close + 1, depth)
SkipNested(b, i, depth) ==
  CASE J!At(b, i) = "END" -> 0
    [] J!At(b, i) = "q" -> NestedString(b, StringClose(b, i + 1), depth)
    [] J!At(b, i) \in {"{", "["} -> SkipNested(b, i + 1, depth + 1)
    [] J!At(b, i) \in {"}", "]"} -> IF depth = 1 THEN i + 1 ELSE SkipNested(b, i + 1, depth - 1)
    [] OTHER -> SkipNested(b, i + 1, depth)
Word(i, end) == IF end = i THEN 0 ELSE end
SkipValue(b, i) ==
  CASE J!At(b, i) = "END" -> 0
    [] J!At(b, i) = "q" -> After(StringClose(b, i + 1))
    [] J!At(b, i) \in {"{", "["} -> SkipNested(b, i, 0)
    [] OTHER -> Word(i, J!FirstOr({j \in i..Len(b) : b[j] \in {",", "}", "]", "SP"}}, Len(b) + 1))

\* for_each_member: the raw keys and values in order, and whether the walk reached the end.
RECURSIVE WalkMember(_, _, _)
Walked(got, ok) == [ok |-> ok, members |-> got]
WalkAfter(obj, i, got) ==
  IF J!At(obj, i) = "}" THEN Walked(got, TRUE)
  ELSE IF J!At(obj, i) # "," THEN Walked(got, FALSE) ELSE WalkMember(obj, J!Ws(obj, i + 1), got)
WalkValue(obj, key, from, end, got) ==
  IF end = 0 THEN Walked(got, FALSE)
  ELSE WalkAfter(obj, J!Ws(obj, end), Append(got, [key |-> key, value |-> J!Slice(obj, from, end)]))
WalkColon(obj, key, i, got) ==
  IF J!At(obj, i) # ":" THEN Walked(got, FALSE)
  ELSE WalkValue(obj, key, J!Ws(obj, i + 1), SkipValue(obj, J!Ws(obj, i + 1)), got)
WalkKey(obj, i, close, got) ==
  IF close = 0 THEN Walked(got, FALSE) ELSE WalkColon(obj, J!Slice(obj, i, close), J!Ws(obj, close + 1), got)
WalkMember(obj, i, got) ==
  IF J!At(obj, i) # "q" THEN Walked(got, FALSE) ELSE WalkKey(obj, i + 1, StringClose(obj, i + 1), got)
WalkFirst(obj, i) == IF J!At(obj, i) = "}" THEN Walked(<<>>, TRUE) ELSE WalkMember(obj, i, <<>>)
ForEachMember(obj) ==
  IF J!At(obj, J!Ws(obj, 1)) = "{" THEN WalkFirst(obj, J!Ws(obj, J!Ws(obj, 1) + 1)) ELSE Walked(<<>>, FALSE)

\* for_each_element, alike.
RECURSIVE WalkElement(_, _, _)
ElementAfter(arr, i, got) ==
  IF J!At(arr, i) = "]" THEN Walked(got, TRUE)
  ELSE IF J!At(arr, i) # "," THEN Walked(got, FALSE) ELSE WalkElement(arr, J!Ws(arr, i + 1), got)
ElementTo(arr, i, end, got) ==
  IF end = 0 THEN Walked(got, FALSE) ELSE ElementAfter(arr, J!Ws(arr, end), Append(got, J!Slice(arr, i, end)))
WalkElement(arr, i, got) == ElementTo(arr, i, SkipValue(arr, i), got)
ElementFirst(arr, i) == IF J!At(arr, i) = "]" THEN Walked(<<>>, TRUE) ELSE WalkElement(arr, i, <<>>)
ForEachElement(arr) ==
  IF J!At(arr, J!Ws(arr, 1)) = "[" THEN ElementFirst(arr, J!Ws(arr, J!Ws(arr, 1) + 1)) ELSE Walked(<<>>, FALSE)

MemberOf(ms, at) == IF at = 0 THEN None ELSE ms[at].value
FirstIn(ms, key) == MemberOf(ms, J!FirstOr({i \in DOMAIN ms : ms[i].key = key}, 0))
FirstMember(body, key) == FirstIn(ForEachMember(body).members, key)

\* key_value_at: where the value of the key at `at`, `len` long, begins; only behind a
\* brace or a comma, and before a colon.
BeforeKey(b, at) == Max({0} \union {j \in 1..(at - 1) : b[j] # "SP"})
KeyValue(b, colon) ==
  IF J!At(b, colon) # ":" \/ J!Ws(b, colon + 1) > Len(b) THEN 0 ELSE J!Ws(b, colon + 1)
KeyValueAt(b, at, len) ==
  IF BeforeKey(b, at) = 0 THEN 0
  ELSE IF b[BeforeKey(b, at)] \notin {"{", ","} THEN 0 ELSE KeyValue(b, J!Ws(b, at + len))

PlainString(raw) ==
  IF Len(raw) < 2 THEN None
  ELSE IF raw[1] # "q" \/ Last(raw) # "q" \/ J!HasEscape(raw) THEN None ELSE SubSeq(raw, 2, Len(raw) - 1)

-----------------------------------------------------------------------------
(* The facts a policy and a sink read. *)

KeysOf(ms) == [i \in DOMAIN ms |-> ms[i].key]
KeyCheck(keys) ==
  CASE \E i \in DOMAIN keys : J!HasEscape(keys[i]) /\ i <= MaxKeys + 1 -> "EscapedKey"
    [] Len(keys) > MaxKeys -> "TooManyKeys"
    [] OTHER -> IF J!Distinct(keys) THEN "Ok" ELSE "DuplicateKey"
CheckKeys(obj) == KeyCheck(KeysOf(ForEachMember(obj).members))
\* The top level's, then those one level down in the two options objects.
FirstBad(keys, options, cache) == CASE keys # "Ok" -> keys [] keys = "Ok" /\ options # "Ok" -> options [] OTHER -> cache
FactsOf(ms) ==
  [model |-> PlainString(FirstIn(ms, <<"m">>)),
   keys |-> FirstBad(KeyCheck(KeysOf(ms)), CheckKeys(FirstIn(ms, <<"o">>)), CheckKeys(FirstIn(ms, <<"p">>)))]
TopLevelFacts(body) == FactsOf(ForEachMember(body).members)
ModelOf(body) == PlainString(FirstMember(body, <<"m">>))

-----------------------------------------------------------------------------
(* apply_overrides: a whole body with its model and members set.  An override is a     *)
(* function from keys to their new values; NoEdit refuses.                             *)

Refused == [ok |-> FALSE, text |-> <<>>]
Quoted(v) == (<<"q">> \o v) \o <<"q">>
PairOf(k, o) == <<"q", k, "q", ":">> \o Quoted(o[k])
\* "k":"v" for each of the keys, in the order the table names them.
MemberOrder == <<"t", "s">>
PairsOf(o, ks) == [i \in DOMAIN ks |-> IF i = 1 THEN PairOf(ks[i], o) ELSE <<",">> \o PairOf(ks[i], o)]
Pairs(o, keys) == FlattenSeq(PairsOf(o, SelectSeq(MemberOrder, LAMBDA k : k \in keys)))

\* b[pos, to) with the span [at, end) of each edit that starts in it replaced.
RECURSIVE Edited(_, _, _, _)
EditNext(b, e, edits, pos, to) == (J!Slice(b, pos, e.at) \o e.text) \o Edited(b, edits, e.end, to)
EditFrom(b, due, edits, pos, to) ==
  IF due = {} THEN J!Slice(b, pos, to)
  ELSE EditNext(b, CHOOSE e \in due : \A f \in due : e.at <= f.at, edits \ {CHOOSE e \in due : \A f \in due : e.at <= f.at}, pos, to)
Edited(b, edits, pos, to) == EditFrom(b, {e \in edits : e.at >= pos /\ e.at < to}, edits, pos, to)

ValueEdit(v, text) == [at |-> v.at, end |-> v.at + Len(v.sv), text |-> text]
Comma(v) == IF v.keys = <<>> THEN <<>> ELSE <<",">>
\* Absent members go in together, after the root's brace.
Inserted(b, v, o, absent, edits) ==
  IF absent = {} THEN Edited(b, edits, 1, Len(b) + 1)
  ELSE ((J!Slice(b, 1, v.at + 1) \o Pairs(o, absent)) \o Comma(v)) \o Edited(b, edits, v.at + 1, Len(b) + 1)
ValueEdits(v, o, there) == {ValueEdit(v.kids[J!FindMember(v, <<k>>)], o[k]) : k \in there}
Applied(b, v, o, there, absent) ==
  IF \/ "m" \in DOMAIN o /\ "m" \notin there
     \/ \E k \in there : v.kids[J!FindMember(v, <<k>>)].type # "String"
     \/ absent # {} /\ \E i \in DOMAIN v.keys : J!HasEscape(v.keys[i])
  THEN Refused
  ELSE [ok |-> TRUE, text |-> Inserted(b, v, o, absent, ValueEdits(v, o, there))]
Overridden(b, r, o) ==
  IF ~ r.ok \/ r.v.type # "Object" THEN Refused
  ELSE Applied(b, r.v, o, {k \in DOMAIN o : J!FindMember(r.v, <<k>>) # 0},
               {k \in DOMAIN o : J!FindMember(r.v, <<k>>) = 0} \ {"m"})
\* A value that would have to be escaped is refused.
NeedsEscape(v) == \E i \in DOMAIN v : v[i] \in {"q", "esc", "CTL"}
ApplyOverrides(b, o) ==
  IF DOMAIN o = {} THEN [ok |-> TRUE, text |-> b]
  ELSE IF \E k \in DOMAIN o : NeedsEscape(o[k]) THEN Refused
  ELSE Overridden(b, J!Parse(b, {}), o)

-----------------------------------------------------------------------------
(* The splice into a body that leaves in parts (splice.cpp, ModelSplice): members go in *)
(* after the root's brace, the client's own become spaces, and the model's value its    *)
(* replacement, padded so that the length declared ahead holds either way.  A splice is *)
(* [model, for, members], model empty when nothing is substituted.  Positions from 0,   *)
(* as BodyScan gives them.                                                              *)

Spaces(n) == [i \in 1..n |-> "SP"]
Excess(a, b) == IF a > b THEN a - b ELSE 0
GrowModel(sp) == IF sp.model = <<>> THEN 0 ELSE Excess(Len(sp.model), Len(sp.for))
\* Every member costs its text and a separator.
GrowMembers(o) == FoldSet(LAMBDA k, n : n + Len(PairOf(k, o)) + 1, 0, DOMAIN o)
Grow(sp) == GrowModel(sp) + GrowMembers(sp.members)

\* The scan m holds the model's value, and it is the sentinel.
Substitutes(sp, b, m) ==
  sp.model # <<>> /\ m.modelEnd # B!NPos /\ SubSeq(b, m.modelAt + 1, m.modelEnd) = Quoted(sp.for)

Cut(at, end, text) == [at |-> at + 1, end |-> end + 1, text |-> text]
MemberCuts(ms, keys) == {Cut(ms[i].at, ms[i].end, Spaces(ms[i].end - ms[i].at)) : i \in {i \in DOMAIN ms : ms[i].bit \in keys}}
ModelCut(sp, b, m) ==
  IF Substitutes(sp, b, m)
  THEN {Cut(m.modelAt, m.modelEnd, Quoted(sp.model) \o Spaces(Excess(Len(sp.for), Len(sp.model))))} ELSE {}
FirstCut(m, keys) == \E i \in DOMAIN m.found : m.found[i].bit \in keys /\ m.found[i].at = m.openAt
\* A comma before a member that stays, else white space.
Separator(m, keys) == IF m.hasMember /\ ~ FirstCut(m, keys) THEN "," ELSE "SP"
Body(sp, b, from, to, m, cuts) ==
  IF DOMAIN sp.members = {} \/ m.openAt < from \/ m.openAt >= to THEN Edited(b, cuts, from + 1, to + 1)
  ELSE (Append(SubSeq(b, from + 1, m.openAt) \o Pairs(sp.members, DOMAIN sp.members), Separator(m, DOMAIN sp.members)))
         \o Edited(b, cuts, m.openAt + 1, to + 1)
Padding(sp, b, to, len, m) == IF to = len /\ ~ Substitutes(sp, b, m) THEN Spaces(GrowModel(sp)) ELSE <<>>
\* Splice::append: what the venue gets for b[from, to) of a body len long.
SpliceAppend(sp, b, from, to, len, m) ==
  Body(sp, b, from, to, m, MemberCuts(m.found, DOMAIN sp.members) \union ModelCut(sp, b, m)) \o Padding(sp, b, to, len, m)

=============================================================================
