------------------------------ MODULE BodyScan ------------------------------
(***************************************************************************)
(* The scanner of a request body that is forwarded before it is whole      *)
(* (provider/body_scan.cpp): a JSON recognizer fed the body so far, which  *)
(* refuses a repeated or escaped key as it closes and says how much of the *)
(* body may leave.                                                         *)
(*                                                                         *)
(* Symbols as in Json; the key "m" stands for `model`, "o" for             *)
(* `stream_options` and the letters of MemberKeys for service_tier, speed  *)
(* and inference_geo.  Positions count from 0 as in the source: b[i + 1]   *)
(* is the symbol at i.                                                     *)
(***************************************************************************)
LOCAL INSTANCE Integers
LOCAL INSTANCE Sequences
LOCAL INSTANCE SequencesExt
LOCAL INSTANCE FiniteSetsExt

CONSTANTS
  MaxDepth,    \* json::detail::kMaxDepth
  MaxKeys      \* kMaxKeys

J == INSTANCE Json WITH MaxNodes <- 1

NPos == 99                \* SIZE_MAX
MemberKeys == {"t", "s"}
Lits == <<<<"t", "r", "u", "e">>, <<"f", "a", "l", "s", "e">>, <<"n", "u", "l", "l">>>>

\* BodyScan::reset.
NewScan(allKeys, trackModel, members) ==
  [allKeys |-> allKeys, trackModel |-> trackModel, members |-> members,
   st |-> "Value", pos |-> 0, hold |-> NPos, str |-> 0, kinds |-> <<>>, optionsDepth |-> 0,
   lit |-> 1, at |-> 0,                                   \* the literal, and how far in it or in \u
   key |-> FALSE, tracked |-> FALSE, optionsNext |-> FALSE,
   top |-> <<>>, options |-> <<>>,                        \* the keys of the two checked levels
   modelNext |-> FALSE, modelOpen |-> FALSE, modelSeen |-> FALSE, modelAt |-> NPos, modelEnd |-> NPos,
   memberNext |-> FALSE, memberOpen |-> FALSE, seen |-> {}, member |-> "", memberAt |-> 0, memberValue |-> 0,
   found |-> <<>>, openAt |-> NPos, hasMember |-> FALSE, verdict |-> "More"]

Depth(m) == Len(m.kinds)
Refuse(m) == [m EXCEPT !.verdict = "Refused"]
Goto(m, st) == [m EXCEPT !.st = st]
\* What a step leaves: the scanner, and the symbol to look at next.
To(m, i) == [m |-> m, i |-> i]
Sure(ok, r) == IF ok THEN r ELSE [r EXCEPT !.m = Refuse(r.m)]

\* safe(): the prefix that may be forwarded.
Safe(m) == Min({m.hold, m.pos})

-----------------------------------------------------------------------------
(* value_done: a value ended before `end`. *)

ModelDone(m, end) ==
  IF m.modelOpen /\ Depth(m) = 1
  THEN [m EXCEPT !.modelOpen = FALSE, !.modelEnd = end, !.hold = NPos] ELSE m
MemberDone(m, end) ==
  IF m.memberOpen /\ Depth(m) = 1
  THEN [m EXCEPT !.memberOpen = FALSE, !.hold = NPos,
                 !.found = Append(@, [at |-> m.memberAt, valueAt |-> m.memberValue, end |-> end, bit |-> m.member])]
  ELSE m
Resume(m) ==
  IF Depth(m) = 0 THEN [m EXCEPT !.st = "End", !.hold = IF m.members # {} THEN NPos ELSE @]
  ELSE Goto(m, IF Last(m.kinds) = "{" THEN "ObjNext" ELSE "ArrNext")
ValueDone(m, end) == Resume(MemberDone(ModelDone(m, end), end))

-----------------------------------------------------------------------------
(* key_done: a key of a checked level closed. *)

\* A member the mask names stays held to the end of its value, any other only to here.
NamedMember(m, k) ==
  IF k \in m.seen THEN Refuse(m)
  ELSE [m EXCEPT !.hasMember = TRUE, !.seen = @ \union {k}, !.member = k, !.memberAt = m.hold, !.memberNext = TRUE]
MemberKey(m, k) ==
  IF Depth(m) # 1 \/ m.members = {} THEN [m EXCEPT !.hold = NPos]
  ELSE IF k \in m.members THEN NamedMember(m, k)
  ELSE [m EXCEPT !.hasMember = TRUE, !.hold = NPos]
ModelKey(m, k) ==
  IF Depth(m) # 1 \/ k # "m" THEN m
  ELSE IF m.modelSeen THEN Refuse(m)
  ELSE [m EXCEPT !.modelSeen = TRUE, !.modelNext = m.trackModel]

AddKey(m, raw) ==
  IF Depth(m) = 1 THEN [m EXCEPT !.top = Append(@, raw), !.optionsNext = raw = <<"o">>]
  ELSE [m EXCEPT !.options = Append(@, raw)]
KeySet(m) == IF Depth(m) = 1 THEN m.top ELSE m.options
UniqueKey(m, raw) ==
  IF m.verdict = "Refused" \/ ~ m.allKeys THEN m
  ELSE IF Len(KeySet(m)) = MaxKeys \/ raw \in ToSet(KeySet(m)) THEN Refuse(m)
  ELSE AddKey(m, raw)
Name(raw) == IF Len(raw) = 1 THEN raw[1] ELSE ""
TrackedKey(m, raw) ==
  IF J!HasEscape(raw) THEN Refuse(m) ELSE UniqueKey(ModelKey(MemberKey(m, Name(raw)), Name(raw)), raw)
KeyDone(m, raw) == IF m.tracked THEN TrackedKey([m EXCEPT !.key = FALSE], raw) ELSE [m EXCEPT !.key = FALSE]

-----------------------------------------------------------------------------
(* step: one symbol, or a run of a string. *)

Simple == J!EscapeChars \ {"u"}

\* A two-symbol escape is taken in the run.
RECURSIVE Run(_, _)
RunStop(b, i) ==
  IF i + 1 < Len(b) /\ b[i + 1] = "esc" /\ b[i + 2] # "u"
  THEN IF b[i + 2] \in Simple THEN Run(b, i + 2) ELSE NPos ELSE i
Run(b, i) == RunStop(b, J!StringStop(b, i + 1) - 1)

StringEnds(m, b, i) ==
  IF m.key THEN To(KeyDone(Goto(m, "Colon"), SubSeq(b, m.str + 1, i)), i + 1) ELSE To(ValueDone(m, i + 1), i + 1)
StrStop(m, b, i) ==
  IF i = NPos THEN To(Refuse(m), 0)
  ELSE IF i = Len(b) THEN To(m, i)
  ELSE IF b[i + 1] = "esc" THEN To(Goto(m, "StrEsc"), i + 1)
  ELSE IF b[i + 1] # "q" THEN To(Refuse(m), i) ELSE StringEnds(m, b, i)

StrEsc(m, c, i) ==
  IF c = "u" THEN To([m EXCEPT !.st = "StrHex", !.at = 0], i + 1) ELSE Sure(c \in Simple, To(Goto(m, "Str"), i + 1))
StrHex(m, c, i) ==
  Sure(c \in DOMAIN J!Hex, To([m EXCEPT !.at = @ + 1, !.st = IF m.at = 3 THEN "Str" ELSE "StrHex"], i + 1))
LitSym(m, lit, c, i) ==
  IF c # lit[m.at + 1] THEN To(Refuse(m), i)
  ELSE IF m.at + 1 = Len(lit) THEN To(ValueDone(m, i + 1), i + 1) ELSE To([m EXCEPT !.at = @ + 1], i + 1)

IsDigit(c) == c \in J!Digits
\* A number that ends at i leaves that symbol to its container.
Number(m, c, i) ==
  CASE m.st = "NumSign" -> Sure(IsDigit(c), To(Goto(m, IF c = "0" THEN "NumZero" ELSE "NumInt"), i + 1))
    [] m.st \in {"NumZero", "NumInt"} /\ IsDigit(c) -> Sure(m.st = "NumInt", To(m, i + 1))
    [] m.st \in {"NumZero", "NumInt"} /\ c = "." -> To(Goto(m, "NumDot"), i + 1)
    [] m.st = "NumDot" -> Sure(IsDigit(c), To(Goto(m, "NumFrac"), i + 1))
    [] m.st \in {"NumZero", "NumInt", "NumFrac"} /\ c = "e" -> To(Goto(m, "NumE"), i + 1)
    [] m.st = "NumE" /\ c \in {"+", "-"} -> To(Goto(m, "NumESign"), i + 1)
    [] m.st \in {"NumE", "NumESign"} /\ c \notin {"+", "-"} -> Sure(IsDigit(c), To(Goto(m, "NumExp"), i + 1))
    [] m.st = "NumESign" /\ c \in {"+", "-"} -> To(Refuse(m), i)
    [] m.st \in {"NumFrac", "NumExp"} /\ IsDigit(c) -> To(m, i + 1)
    [] OTHER -> To(ValueDone(m, i), i)

\* A container closed at i.
CloseAt(m, i) ==
  To(ValueDone([m EXCEPT !.kinds = Front(@), !.optionsDepth = IF Depth(m) - 1 < @ THEN 0 ELSE @], i + 1), i + 1)
OpenKind(m, c, i, options) ==
  [m EXCEPT !.kinds = Append(@, c), !.st = IF c = "{" THEN "ObjFirst" ELSE "ArrFirst",
            !.openAt = IF m.members # {} /\ Depth(m) = 0 THEN i + 1 ELSE @,
            !.hold = IF m.members # {} /\ Depth(m) = 0 THEN i + 1 ELSE @,
            !.optionsDepth = IF c = "{" /\ options /\ Depth(m) = 1 THEN 2 ELSE @]
KeyOpens_TopOnly(m, i) == [m EXCEPT !.key = TRUE, !.str = i + 1, !.st = "Str", !.tracked = Depth(m) = 1]
KeyOpens(m, i) ==
  [m EXCEPT !.key = TRUE, !.str = i + 1, !.st = "Str",
            !.tracked = Depth(m) = 1 \/ (m.optionsDepth # 0 /\ Depth(m) = m.optionsDepth)]
\* Held from its quote, or from the separator held before it.
HoldKey(m, i) == IF m.tracked THEN [m EXCEPT !.hold = Min({@, i})] ELSE m

\* A value starts: the model's is held from here, an override's member must be a string.
ModelStarts(m, i) ==
  IF m.modelNext THEN [m EXCEPT !.modelNext = FALSE, !.modelOpen = TRUE, !.modelAt = i, !.hold = i] ELSE m
MemberStarts(m, c, i) ==
  IF m.members = {} THEN m
  ELSE IF Depth(m) = 0 /\ c # "{" THEN Refuse(m)
  ELSE IF ~ m.memberNext THEN m
  ELSE IF c # "q" THEN Refuse(m)
  ELSE [m EXCEPT !.memberNext = FALSE, !.memberOpen = TRUE, !.memberValue = i]
LitOf(c) == CASE c = "t" -> 1 [] c = "f" -> 2 [] c = "n" -> 3
Starts(m, c, i, options) ==
  CASE m.verdict = "Refused" -> m
    [] m.verdict # "Refused" /\ c = "q" -> [m EXCEPT !.key = FALSE, !.st = "Str"]
    [] m.verdict # "Refused" /\ c \in {"{", "["} ->
         IF Depth(m) = MaxDepth THEN Refuse(m) ELSE OpenKind(m, c, i, options)
    [] m.verdict # "Refused" /\ c \in {"t", "f", "n"} -> [m EXCEPT !.st = "Lit", !.lit = LitOf(c), !.at = 1]
    [] m.verdict # "Refused" /\ c = "-" -> Goto(m, "NumSign")
    [] m.verdict # "Refused" /\ c = "0" -> Goto(m, "NumZero")
    [] m.verdict # "Refused" /\ IsDigit(c) /\ c # "0" -> Goto(m, "NumInt")
    [] OTHER -> Refuse(m)
ValueStarts(m, c, i) ==
  To(Starts(MemberStarts(ModelStarts([m EXCEPT !.optionsNext = FALSE], i), c, i), c, i, m.optionsNext), i + 1)

\* Between values: white space is passed over.
Between(m, c, i) ==
  CASE c = "SP" -> To(m, i + 1)
    [] c # "SP" /\ m.st = "Colon" -> Sure(c = ":", To(Goto(m, "Value"), i + 1))
    [] c = "}" /\ m.st \in {"ObjFirst", "ObjNext"} -> CloseAt(m, i)
    [] c = "]" /\ m.st \in {"ArrFirst", "ArrNext"} -> CloseAt(m, i)
    [] c = "q" /\ m.st \in {"ObjFirst", "ObjKey"} -> To(HoldKey(KeyOpens(m, i), i), i + 1)
    [] c = "," /\ m.st = "ObjNext" ->
         To([m EXCEPT !.st = "ObjKey", !.hold = IF m.members # {} /\ Depth(m) = 1 THEN i ELSE @], i + 1)
    [] c = "," /\ m.st = "ArrNext" -> To(Goto(m, "Value"), i + 1)
    [] c # "SP" /\ (m.st = "Value" \/ (m.st = "ArrFirst" /\ c # "]")) -> ValueStarts(m, c, i)
    [] OTHER -> To(Refuse(m), i)

Step(m, b, c, i) ==
  CASE m.st = "Str" -> StrStop(m, b, Run(b, i))
    [] m.st = "StrEsc" -> StrEsc(m, c, i)
    [] m.st = "StrHex" -> StrHex(m, c, i)
    [] m.st = "Lit" -> LitSym(m, Lits[m.lit], c, i)
    [] m.st \in {"NumSign", "NumZero", "NumInt", "NumDot", "NumFrac", "NumE", "NumESign", "NumExp"} -> Number(m, c, i)
    [] OTHER -> Between(m, c, i)

RECURSIVE Scan(_, _)
Scan(r, b) ==
  IF r.m.verdict = "Refused" THEN r.m
  ELSE IF r.i = Len(b) THEN [r.m EXCEPT !.pos = r.i]
  ELSE Scan(Step(r.m, b, b[r.i + 1], r.i), b)

\* feed: the whole body so far, scanned from where the last call stopped.
RootNumber(m) == Depth(m) = 0 /\ m.st \in {"NumZero", "NumInt", "NumFrac", "NumExp"}
Ended(m) == IF m.st = "End" \/ RootNumber(m) THEN [m EXCEPT !.st = "End", !.verdict = "Done"] ELSE Refuse(m)
Fed(m, last) == IF m.verdict # "Refused" /\ last THEN Ended(m) ELSE m
Feed(m, body, last) == IF m.verdict # "More" THEN m ELSE Fed(Scan(To(m, m.pos), body), last)

=============================================================================
