-------------------------------- MODULE Json --------------------------------
(***************************************************************************)
(* The JSON parser the translators and the policy's facts are read with    *)
(* (provider/json.hpp), as functions of a text.                            *)
(*                                                                         *)
(* A text is a sequence of symbols: the structural characters, "q" for a   *)
(* quote, "esc" for a backslash, "SP" for white space, "CTL" for any other *)
(* control byte, and letters, digits and signs.  A value keeps its type,   *)
(* its span (what lies between the quotes of a string), where that starts, *)
(* and its children;                                                       *)
(* positions count from 1 and "next" is the one after what was read.       *)
(***************************************************************************)
LOCAL INSTANCE Integers
LOCAL INSTANCE Sequences
LOCAL INSTANCE SequencesExt
LOCAL INSTANCE FiniteSetsExt
LOCAL INSTANCE TLC

CONSTANTS
  MaxDepth,    \* kMaxDepth
  MaxNodes     \* kMaxNodes

Digits == {"0", "1", "6", "8"}
Hex == "0" :> 0 @@ "1" :> 1 @@ "6" :> 6 @@ "8" :> 8 @@ "d" :> 13 @@ "c" :> 12 @@ "f" :> 15
EscapeChars == {"q", "esc", "/", "b", "f", "n", "r", "t", "u"}
Literals == {<<"t", "r", "u", "e">>, <<"f", "a", "l", "s", "e">>, <<"n", "u", "l", "l">>}

At(s, i) == IF i \in DOMAIN s THEN s[i] ELSE "END"
Slice(s, i, j) == SubSeq(s, i, j - 1)        \* [i, j)
FirstOr(places, n) == IF places = {} THEN n ELSE Min(places)

Ws(s, i) == FirstOr({j \in i..Len(s) : s[j] # "SP"}, Max({i, Len(s) + 1}))

\* The first symbol at or after i that ends a plain run of a string.
StringStop(s, i) == FirstOr({j \in i..Len(s) : s[j] \in {"q", "esc", "CTL"}}, Len(s) + 1)

NullValue == [type |-> "Null", sv |-> <<>>, at |-> 0, keys |-> <<>>, kids |-> <<>>]
Leaf(type, sv, at) == [NullValue EXCEPT !.type = type, !.sv = sv, !.at = at]
\* What a step of the parser leaves: where it stopped, the nodes it counted, the value.
Got(next, nodes, v) == [ok |-> TRUE, next |-> next, nodes |-> nodes, v |-> v]
Failed == [ok |-> FALSE, next |-> 0, nodes |-> 0, v |-> NullValue]

\* The symbols an escape at i takes, 0 when JSON has no such escape.
EscapeLen(s, i) ==
  IF At(s, i + 1) \notin EscapeChars THEN 0
  ELSE IF s[i + 1] # "u" THEN 2
  ELSE IF \A k \in 2..5 : At(s, i + k) \in DOMAIN Hex THEN 6 ELSE 0

\* parse_string: the raw span between the quotes, refused with a control byte, an
\* escape JSON does not have, or no closing quote.
RECURSIVE StringFrom(_, _, _)
StringAt(s, start, stop, escape) ==
  IF At(s, stop) = "q" THEN Got(stop + 1, 0, Leaf("String", Slice(s, start, stop), start))
  ELSE IF At(s, stop) # "esc" \/ escape = 0 THEN Failed
  ELSE StringFrom(s, start, stop + escape)
StringFrom(s, start, i) == StringAt(s, start, StringStop(s, i), EscapeLen(s, StringStop(s, i)))
ParseString(s, i) == StringFrom(s, i + 1, i + 1)

-----------------------------------------------------------------------------
(* Scalars. *)

LiteralAt(s, i) == {l \in Literals : i + Len(l) <= Len(s) + 1 /\ Slice(s, i, i + Len(l)) = l}
Literal(i, found) ==
  IF found = {} THEN Failed
  ELSE LET l == CHOOSE l \in found : TRUE
       IN  Got(i + Len(l), 0, Leaf(IF l[1] = "n" THEN "Null" ELSE "Bool", l, i))

\* One past the digits at i.
DigitsEnd(s, i) == FirstOr({j \in i..Len(s) : s[j] \notin Digits}, Max({i, Len(s) + 1}))

\* -? int frac? exp?, each part from where the one before ended; 0 where one is malformed.
IntEnd(s, i) == IF At(s, i) = "0" THEN i + 1 ELSE IF At(s, i) \in Digits THEN DigitsEnd(s, i) ELSE 0
SomeDigits(s, i) == IF At(s, i) \in Digits THEN DigitsEnd(s, i) ELSE 0
FracEnd(s, i) == IF i = 0 THEN 0 ELSE IF At(s, i) = "." THEN SomeDigits(s, i + 1) ELSE i
ExpEnd(s, i) ==
  IF i = 0 THEN 0 ELSE IF At(s, i) # "e" THEN i
  ELSE SomeDigits(s, i + (IF At(s, i + 1) \in {"+", "-"} THEN 2 ELSE 1))
NumberTo(s, i, end) == IF end = 0 THEN Failed ELSE Got(end, 0, Leaf("Number", Slice(s, i, end), i))
ParseNumber(s, i) == NumberTo(s, i, ExpEnd(s, FracEnd(s, IntEnd(s, i + (IF At(s, i) = "-" THEN 1 ELSE 0)))))

ParseScalar(s, i) == IF s[i] \in {"t", "f", "n"} THEN Literal(i, LiteralAt(s, i)) ELSE ParseNumber(s, i)

-----------------------------------------------------------------------------
(* unescape_append: \u as the symbol of its code point, a lone surrogate as U+FFFD. *)

Ascii == 97 :> "a" @@ 47 :> "/" @@ 34 :> "q" @@ 92 :> "esc" @@ 10 :> "CTL" @@ 13 :> "CTL"
Utf8(cp) == IF cp \in DOMAIN Ascii THEN Ascii[cp] ELSE "U+" \o ToString(cp)

HexAt(raw, i) == FoldLeft(LAMBDA n, c : n * 16 + Hex[c], 0, SubSeq(raw, i, i + 3))
IsHexAt(raw, i) == i + 3 <= Len(raw) /\ \A k \in 0..3 : raw[i + k] \in DOMAIN Hex
IsHigh(cp) == cp \in 55296..56319
IsLow(cp) == cp \in 56320..57343
Plain == "n" :> "CTL" @@ "r" :> "CTL" @@ "t" :> "SP" @@ "b" :> "CTL" @@ "f" :> "CTL"

RECURSIVE Unescape(_)
Decoded(raw, used, sym) == <<sym>> \o Unescape(SubSeq(raw, used + 1, Len(raw)))
LowAfter(raw) == Len(raw) >= 8 /\ SubSeq(raw, 7, 8) = <<"esc", "u">> /\ IsHexAt(raw, 9) /\ IsLow(HexAt(raw, 9))
CodePoint(raw, cp) ==
  IF IsHigh(cp) /\ LowAfter(raw) THEN Decoded(raw, 12, Utf8(65536 + (cp - 55296) * 1024 + (HexAt(raw, 9) - 56320)))
  ELSE Decoded(raw, 6, Utf8(IF IsHigh(cp) \/ IsLow(cp) THEN 65533 ELSE cp))
Escape(raw, c) ==
  IF c # "u" THEN Decoded(raw, 2, IF c \in DOMAIN Plain THEN Plain[c] ELSE c)
  ELSE IF ~ IsHexAt(raw, 3) THEN <<>>                  \* a bad escape ends the output
  ELSE CodePoint(raw, HexAt(raw, 3))
Unescape(raw) ==
  IF raw = <<>> THEN <<>>
  ELSE IF raw[1] # "esc" \/ Len(raw) = 1 THEN Decoded(raw, 1, raw[1])
  ELSE Escape(raw, raw[2])

\* append_escaped, of decoded symbols: a quoted literal.
Escaped(c) ==
  CASE c \in {"q", "esc"} -> <<"esc", c>>
    [] c = "CTL" -> <<"esc", "n">>
    [] OTHER -> <<c>>
AppendEscaped(text) == (<<"q">> \o FlattenSeq([i \in DOMAIN text |-> Escaped(text[i])])) \o <<"q">>

-----------------------------------------------------------------------------
(* Objects name no key twice. *)

HasEscape(key) == \E i \in DOMAIN key : key[i] = "esc"
Distinct(keys) == \A i, j \in DOMAIN keys : i # j => keys[i] # keys[j]

\* keys_unique: decoded before they are compared when any of them is escaped.
KeysUnique(keys) ==
  IF \E i \in DOMAIN keys : HasEscape(keys[i])
  THEN Distinct([i \in DOMAIN keys |-> Unescape(keys[i])]) ELSE Distinct(keys)

\* keys_fresh: two keys on one of the 64 bits, or an escape anywhere in the object, and
\* the exact check decides.
Code == "a" :> 97 @@ "m" :> 109 @@ "t" :> 116 @@ "/" :> 47 @@ "o" :> 111
CodeOf(c) == IF c \in DOMAIN Code THEN Code[c] ELSE 1
KeyBit(key) ==
  (7 * Len(key) + (IF key = <<>> THEN 0 ELSE 3 * CodeOf(key[1]) + CodeOf(Last(key)))) % 64
SharedBit(keys) == \E i, j \in DOMAIN keys : i < j /\ KeyBit(keys[i]) = KeyBit(keys[j])
KeysFresh_Raw(keys, escaped) == Distinct(keys)
KeysFresh(keys, escaped) == escaped \/ SharedBit(keys) => KeysUnique(keys)

-----------------------------------------------------------------------------
(* parse_value, and skip_value for a member kept as its span. *)

RECURSIVE ParseValue(_, _, _, _, _)
RECURSIVE Elements(_, _, _, _, _, _)
RECURSIVE Members(_, _, _, _, _, _)
RECURSIVE SkipValue(_, _, _, _)
RECURSIVE SkipElements(_, _, _, _)
RECURSIVE SkipMembers(_, _, _, _, _, _)

Spanned(r, s, i) == IF r.ok THEN [r EXCEPT !.v.sv = Slice(s, i, r.next), !.v.at = i] ELSE r
Counted(nodes, r) == IF r.ok THEN [r EXCEPT !.nodes = nodes] ELSE r
Escapes(s, from, to) == \E j \in from..(to - 1) : s[j] = "esc"

\* After a value, r: its container goes on with another, closes with v, or is malformed.
ElementNext(s, r, i, depth, opaque, got) ==
  IF ~ r.ok THEN Failed
  ELSE IF At(s, i) = "," THEN Elements(s, i + 1, depth, r.nodes, opaque, Append(got, r.v))
  ELSE IF At(s, i) # "]" THEN Failed
  ELSE Got(i + 1, r.nodes, [NullValue EXCEPT !.type = "Array", !.kids = Append(got, r.v)])
ElementGot(s, r, depth, opaque, got) == ElementNext(s, r, Ws(s, r.next), depth, opaque, got)
Elements(s, i, depth, nodes, opaque, got) ==
  ElementGot(s, ParseValue(s, i, depth, nodes, opaque), depth, opaque, got)
ParseArray(s, i, depth, nodes, opaque) ==
  IF At(s, Ws(s, i)) = "]" THEN Got(Ws(s, i) + 1, nodes, Leaf("Array", <<>>, i))
  ELSE Elements(s, i, depth, nodes, opaque, <<>>)

\* An object read so far: its keys, its values, and where it started.
NewObject(from) == [from |-> from, keys |-> <<>>, kids |-> <<>>]
Add(o, key, v) == [o EXCEPT !.keys = Append(@, key), !.kids = Append(@, v)]
ClosedObject(s, o, end, nodes) ==
  IF ~ KeysFresh(o.keys, Escapes(s, o.from, end)) THEN Failed
  ELSE Got(end + 1, nodes, [NullValue EXCEPT !.type = "Object", !.keys = o.keys, !.kids = o.kids])
MemberNext(s, r, i, depth, opaque, o) ==
  IF ~ r.ok THEN Failed
  ELSE IF At(s, i) = "," THEN Members(s, Ws(s, i + 1), depth, r.nodes, opaque, o)
  ELSE IF At(s, i) # "}" THEN Failed ELSE ClosedObject(s, o, i, r.nodes)
MemberGot(s, r, depth, opaque, o, key) ==
  MemberNext(s, r, Ws(s, r.next), depth, opaque, Add(o, key, r.v))
\* parse_opaque: a container kept as its type and span, checked all the same.
OpaqueGot(s, i, r) == IF r.ok THEN [r EXCEPT !.v = Leaf(IF s[i] = "{" THEN "Object" ELSE "Array", Slice(s, i, r.next), i)] ELSE r
MemberValue(s, i, depth, nodes, opaque, key) ==
  IF key \in opaque /\ At(s, Ws(s, i)) \in {"{", "["}
  THEN OpaqueGot(s, Ws(s, i), SkipValue(s, i, depth, nodes)) ELSE ParseValue(s, i, depth, nodes, opaque)
MemberColon(s, k, i, depth, nodes, opaque, o) ==
  IF At(s, i) # ":" THEN Failed
  ELSE MemberGot(s, MemberValue(s, i + 1, depth, nodes, opaque, k.v.sv), depth, opaque, o, k.v.sv)
MemberKey(s, k, depth, nodes, opaque, o) ==
  IF ~ k.ok THEN Failed ELSE MemberColon(s, k, Ws(s, k.next), depth, nodes, opaque, o)
Members(s, i, depth, nodes, opaque, o) ==
  IF At(s, i) # "q" THEN Failed ELSE MemberKey(s, ParseString(s, i), depth, nodes, opaque, o)
ParseObject(s, i, depth, nodes, opaque) ==
  IF At(s, Ws(s, i)) = "}" THEN Got(Ws(s, i) + 1, nodes, Leaf("Object", <<>>, i))
  ELSE Members(s, Ws(s, i), depth, nodes, opaque, NewObject(i))

ValueAt(s, i, depth, nodes, opaque) ==
  CASE At(s, i) = "END" \/ nodes > MaxNodes -> Failed
    [] nodes <= MaxNodes /\ At(s, i) = "q" -> Counted(nodes, ParseString(s, i))
    [] nodes <= MaxNodes /\ At(s, i) \in {"{", "["} ->
         IF depth >= MaxDepth THEN Failed
         ELSE IF s[i] = "{" THEN Spanned(ParseObject(s, i + 1, depth + 1, nodes, opaque), s, i)
         ELSE Spanned(ParseArray(s, i + 1, depth + 1, nodes, opaque), s, i)
    [] OTHER -> Counted(nodes, ParseScalar(s, i))
ParseValue(s, i, depth, nodes, opaque) == ValueAt(s, Ws(s, i), depth, nodes + 1, opaque)

SkipElementNext(s, r, i, depth) ==
  IF ~ r.ok THEN Failed
  ELSE IF At(s, i) = "," THEN SkipElements(s, i + 1, depth, r.nodes)
  ELSE IF At(s, i) = "]" THEN Got(i + 1, r.nodes, NullValue) ELSE Failed
SkipElementGot(s, r, depth) == SkipElementNext(s, r, Ws(s, r.next), depth)
SkipElements(s, i, depth, nodes) == SkipElementGot(s, SkipValue(s, i, depth, nodes), depth)
SkipArray(s, i, depth, nodes) ==
  IF At(s, Ws(s, i)) = "]" THEN Got(Ws(s, i) + 1, nodes, NullValue) ELSE SkipElements(s, i, depth, nodes)

SkipMemberNext(s, r, i, depth, from, keys) ==
  IF ~ r.ok THEN Failed
  ELSE IF At(s, i) = "," THEN SkipMembers(s, Ws(s, i + 1), depth, r.nodes, from, keys)
  ELSE IF At(s, i) = "}" /\ KeysFresh(keys, Escapes(s, from, i)) THEN Got(i + 1, r.nodes, NullValue) ELSE Failed
SkipMemberGot(s, r, depth, from, keys) ==
  SkipMemberNext(s, r, Ws(s, r.next), depth, from, keys)
SkipMemberKey(s, k, depth, nodes, from, keys) ==
  IF ~ k.ok THEN Failed
  ELSE IF At(s, Ws(s, k.next)) # ":" THEN Failed
  ELSE SkipMemberGot(s, SkipValue(s, Ws(s, k.next) + 1, depth, nodes), depth, from, Append(keys, k.v.sv))
SkipMembers(s, i, depth, nodes, from, keys) ==
  IF At(s, i) # "q" THEN Failed ELSE SkipMemberKey(s, ParseString(s, i), depth, nodes, from, keys)
SkipObject(s, i, depth, nodes) ==
  IF At(s, Ws(s, i)) = "}" THEN Got(Ws(s, i) + 1, nodes, NullValue)
  ELSE SkipMembers(s, Ws(s, i), depth, nodes, i, <<>>)

SkipAt(s, i, depth, nodes) ==
  CASE At(s, i) = "END" \/ nodes > MaxNodes -> Failed
    [] nodes <= MaxNodes /\ At(s, i) = "q" -> Counted(nodes, ParseString(s, i))
    [] nodes <= MaxNodes /\ At(s, i) \in {"{", "["} ->
         IF depth >= MaxDepth THEN Failed
         ELSE IF s[i] = "{" THEN SkipObject(s, i + 1, depth + 1, nodes)
         ELSE SkipArray(s, i + 1, depth + 1, nodes)
    [] OTHER -> Counted(nodes, ParseScalar(s, i))
SkipValue(s, i, depth, nodes) == SkipAt(s, Ws(s, i), depth, nodes + 1)

\* parse(): one value with nothing but white space after it.
Whole(s, r) == IF r.ok /\ Ws(s, r.next) = Len(s) + 1 THEN r ELSE Failed
Parse(s, opaque) == Whole(s, ParseValue(s, 1, 0, 0, opaque))

\* Value::find: the first member so named.
FindMember(v, key) == FirstOr({i \in DOMAIN v.keys : v.keys[i] = key}, 0)

=============================================================================
