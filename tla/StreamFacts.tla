---------------------------- MODULE StreamFacts ----------------------------
(***************************************************************************)
(* What a byte-forwarded Gemini stream states beside its usage (gateway    *)
(* stream.hpp, provider translate_gemini.cpp): the model, id and tier      *)
(* served, searches, tools, an error after the head, and whether thinking  *)
(* or a token came first.  It is read line by line, from reads that cut a  *)
(* line anywhere, and a line that can say nothing new is not parsed.       *)
(*                                                                         *)
(* A symbol is [k, v]: a member or a part of the event's object and its    *)
(* value (0 is empty), half of "data:", a line's end, or "bad" for what is *)
(* not one JSON object; they stand in the order the code reads them.       *)
(* Usage members are StreamUsage's.                                        *)
(***************************************************************************)
LOCAL INSTANCE Integers
LOCAL INSTANCE Sequences
LOCAL INSTANCE SequencesExt
LOCAL INSTANCE FiniteSetsExt

CONSTANT MaxLine   \* kGeminiLineMax, in symbols

Sym(k, v) == [k |-> k, v |-> v]
LF == Sym("LF", 0)
CR == Sym("CR", 0)
Data == <<Sym("da", 0), Sym("ta:", 0)>>

Names(l) == {l[i].k : i \in DOMAIN l}

-----------------------------------------------------------------------------
(* gemini_facts: one event's object.                                       *)

NoFacts == [model |-> 0, id |-> 0, tier |-> 0, queries |-> -1,
            tool |-> FALSE, error |-> FALSE, status |-> 0, thinking |-> FALSE, token |-> FALSE]

\* Members that name the tier; of several the last read counts.
TierNames == {"serviceTier", "trafficType"}
\* Parts whose presence is a token, and those whose prompt tokens bill as input.
TokenParts == {"functionCall", "inlineData", "executableCode"}
ToolParts == {"executableCode", "codeExecutionResult", "urlContextMetadata"}

\* The last value of the members named, or 0.
Stated(o, names) ==
  LET at == {i \in DOMAIN o : o[i].k \in names /\ o[i].v # 0} IN
  IF at = {} THEN 0 ELSE o[Max(at)].v

\* Every candidate's queries, -1 where none names any.
Queries(o) ==
  LET at == {i \in DOMAIN o : o[i].k = "groundingMetadata"} IN
  IF at = {} THEN -1 ELSE MapThenSumSet(LAMBDA i : o[i].v, at)

GeminiFacts(o) ==
  IF "error" \in Names(o) THEN [NoFacts EXCEPT !.error = TRUE, !.status = Stated(o, {"error"})]
  ELSE [NoFacts EXCEPT
          !.model = Stated(o, {"modelVersion"}),
          !.id = Stated(o, {"responseId"}),
          !.tier = Stated(o, TierNames),
          !.queries = Queries(o),
          !.tool = Names(o) \cap ToolParts # {},
          !.thinking = "thought" \in Names(o),
          !.token = Names(o) \cap TokenParts # {} \/ Stated(o, {"text"}) # 0]

-----------------------------------------------------------------------------
(* What the request keeps: the facts so far (token and thinking are its    *)
(* two stamps), the line held and whether it is being dropped.             *)

NewReader == [f |-> NoFacts, line |-> <<>>, dropped |-> FALSE]

First(kept, new) == IF kept = 0 THEN new ELSE kept

\* keep_gemini_facts: the first model, id and tier, the most queries, the last error.
KeepGeminiFacts(f, g) ==
  [f EXCEPT !.model = First(@, g.model), !.id = First(@, g.id), !.tier = First(@, g.tier),
            !.queries = IF g.queries > @ THEN g.queries ELSE @,
            !.tool = @ \/ g.tool, !.error = @ \/ g.error,
            !.status = IF g.error THEN g.status ELSE @]

\* Mutant: the tier is looked for under one venue's name for it.
Wanted_OneTier(f, l) ==
  \/ ~ f.token
  \/ f.model = 0 /\ "modelVersion" \in Names(l)
  \/ f.id = 0 /\ "responseId" \in Names(l)
  \/ f.tier = 0 /\ "serviceTier" \in Names(l)
  \/ Names(l) \cap (ToolParts \cup {"error", "groundingMetadata"}) # {}

\* wanted: before the first token every line, after it one naming a key not yet seen.
Wanted(f, l) ==
  \/ ~ f.token
  \/ f.model = 0 /\ "modelVersion" \in Names(l)
  \/ f.id = 0 /\ "responseId" \in Names(l)
  \/ f.tier = 0 /\ Names(l) \cap TierNames # {}
  \/ Names(l) \cap (ToolParts \cup {"error", "groundingMetadata"}) # {}

\* read_line: s = [r, seen], the reader and what this read's lines showed.
ReadLine(s, raw) ==
  LET l == IF raw # <<>> /\ Last(raw) = CR THEN Front(raw) ELSE raw IN
  IF SubSeq(l, 1, IF Len(l) < 2 THEN Len(l) ELSE 2) # Data \/ ~ Wanted(s.r.f, l) \/ "bad" \in Names(l) THEN s
  ELSE LET g == GeminiFacts(SubSeq(l, 3, Len(l))) IN
       [r |-> [s.r EXCEPT !.f = KeepGeminiFacts(@, g)],
        seen |-> [thinking |-> s.seen.thinking \/ (g.thinking /\ ~ s.seen.token),
                  token |-> s.seen.token \/ g.token]]

\* What comes without a line's end is held, up to the cap.
HoldPart(r, bytes) ==
  IF ~ r.dropped /\ Len(r.line) + Len(bytes) <= MaxLine THEN [r EXCEPT !.line = @ \o bytes]
  ELSE [r EXCEPT !.dropped = TRUE, !.line = <<>>]

\* A line's end: the line is read, unless it was over the cap.
EndLine(s, part) ==
  LET t == IF s.r.dropped \/ Len(s.r.line) + Len(part) > MaxLine THEN s
           ELSE ReadLine(s, s.r.line \o part)
  IN  [t EXCEPT !.r.dropped = FALSE, !.r.line = <<>>]

\* Where the first line of what was read ends, or 0.
Ends(bytes) == LET at == {i \in DOMAIN bytes : bytes[i] = LF} IN IF at = {} THEN 0 ELSE Min(at)

\* note_gemini_events, over the bytes of one read.
NoteGeminiEvents(r, bytes) ==
  LET RECURSIVE Walk(_, _)
      Walk(s, rest) ==
        IF rest = <<>> THEN s
        ELSE IF Ends(rest) = 0 THEN [s EXCEPT !.r = HoldPart(@, rest)]
        ELSE Walk(EndLine(s, SubSeq(rest, 1, Ends(rest) - 1)), SubSeq(rest, Ends(rest) + 1, Len(rest)))
  IN  Walk([r |-> r, seen |-> [thinking |-> FALSE, token |-> FALSE]], bytes)

\* stream_step of a byte-forwarded Gemini stream: thinking is stamped before the token, and
\* only before it.
StampFacts(r, bytes) ==
  LET s == NoteGeminiEvents(r, bytes) IN
  [s.r EXCEPT !.f.thinking = @ \/ (s.seen.thinking /\ ~ r.f.token),
              !.f.token = @ \/ s.seen.token]
=============================================================================
