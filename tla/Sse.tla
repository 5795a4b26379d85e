--------------------------------- MODULE Sse ---------------------------------
(***************************************************************************)
(* Server-sent events: the frame reader, fed a stream in whatever pieces   *)
(* it arrives, and the translator of Anthropic's events into OpenAI's      *)
(* chunks (provider/sse.cpp).                                              *)
(*                                                                         *)
(* The reader's input is a sequence of symbols: "CR", "LF", "SP", ":",     *)
(* "data" (the field name) and any other text.  The translator's input is  *)
(* one record per event, its output one record per chunk.                  *)
(***************************************************************************)
LOCAL INSTANCE Integers
LOCAL INSTANCE Sequences
LOCAL INSTANCE SequencesExt
LOCAL INSTANCE FiniteSetsExt
LOCAL INSTANCE TLC

CONSTANTS
  MaxLine,      \* kMaxLine: the longest unfinished line carried over
  MaxEvent,     \* kMaxEvent: the data of one event stays below it
  MaxBlocks     \* kMaxBlocks: content blocks a message may number

-----------------------------------------------------------------------------
(* SseFrameReader.  `view` is a range of `in`, the buffer of the feed in
   progress: what it denotes changes when `in` does.                         *)

NewReader ==
  [in |-> <<>>, at |-> 1, line |-> <<>>, data |-> <<>>, view |-> [from |-> 1, to |-> 0],
   viewing |-> FALSE, have |-> FALSE, lineOwned |-> FALSE, skipLf |-> FALSE,
   stopped |-> FALSE, failed |-> FALSE]

FeedReader(r, bytes) == [r EXCEPT !.in = bytes, !.at = 1]
StopReader(r) == [r EXCEPT !.stopped = TRUE]
FailReader(r) == [r EXCEPT !.failed = TRUE, !.line = <<>>, !.data = <<>>]

Viewed(r) ==
  [i \in 1..(r.view.to - r.view.from + 1) |->
     IF r.view.from + i - 1 \in DOMAIN r.in THEN r.in[r.view.from + i - 1] ELSE "freed"]
EventData(r) == IF r.viewing THEN Viewed(r) ELSE r.data
Own(r) == IF r.viewing THEN [r EXCEPT !.data = Viewed(r), !.viewing = FALSE] ELSE r

\* add_data: an event's only data line stays a view of `in`, a second one copies both.
Joined(r, value) == [r EXCEPT !.data = (@ \o <<"LF">>) \o value]
AddData(r, value, from, inPlace) ==
  IF r.have THEN Joined(Own(r), value)
  ELSE [r EXCEPT !.have = TRUE, !.viewing = inPlace,
                 !.view = IF inPlace THEN [from |-> from, to |-> from + Len(value) - 1] ELSE @,
                 !.data = IF inPlace THEN @ ELSE value]

Returns(r, step, data) == [reader |-> r, step |-> step, data |-> data]

EndFeed_KeepsView(r) ==
  IF Len(r.line) > MaxLine THEN Returns(FailReader(r), "Fail", <<>>)
  ELSE Returns(r, "More", <<>>)
\* The end of a feed: an unfinished line is carried, a view is copied before `in` goes.
EndFeed(r) ==
  IF Len(r.line) > MaxLine THEN Returns(FailReader(r), "Fail", <<>>)
  ELSE Returns(Own(r), "More", <<>>)

IsData(line) == line[1] = "data" /\ (Len(line) > 1 => line[2] = ":")

\* The start of the value in a data line: after the colon and one space.
ValueAt(line) ==
  IF Len(line) = 1 THEN 2
  ELSE IF Len(line) > 2 /\ line[3] = "SP" THEN 4 ELSE 3

\* A carried line is dropped once used; the LF of a CRLF split over two feeds is skipped.
DropUsed(r) == IF r.lineOwned THEN [r EXCEPT !.line = <<>>, !.lineOwned = FALSE] ELSE r
SkipLf(r) ==
  IF r.skipLf /\ r.at <= Len(r.in)
  THEN [r EXCEPT !.skipLf = FALSE, !.at = IF r.in[@] = "LF" THEN @ + 1 ELSE @]
  ELSE r

\* Past the end of the line at k, joined to what was carried of it.
TakeLine(r, k, text) ==
  [r EXCEPT !.at = IF r.in[k] = "CR" /\ k < Len(r.in) /\ r.in[k + 1] = "LF" THEN k + 2 ELSE k + 1,
            !.skipLf = r.in[k] = "CR" /\ k = Len(r.in),
            !.line = IF r.line = <<>> THEN <<>> ELSE r.line \o text,
            !.lineOwned = r.line # <<>>]

\* The loop of next(), up to the next event or the end of the feed: `at` is where the
\* line began in `in`, `value` where its value does in the line.
RECURSIVE NextLine(_)
Added(r) == IF Len(EventData(r)) < MaxEvent THEN NextLine(r) ELSE Returns(FailReader(r), "Fail", <<>>)
OnDataLine(r, at, line, value) ==
  Added(AddData(r, SubSeq(line, value, Len(line)), at + value - 1, ~ r.lineOwned))
OnLine(r, at, line) ==
  IF line = <<>>
  THEN IF r.have THEN Returns([r EXCEPT !.have = FALSE], "Event", EventData(r)) ELSE NextLine(r)
  ELSE IF IsData(line) THEN OnDataLine(r, at, line, ValueAt(line))
  ELSE NextLine(r)
OnTaken(r, at, text) == OnLine(r, at, IF r.lineOwned THEN r.line ELSE text)
UpTo(r, ends) ==
  IF r.at > Len(r.in) \/ r.skipLf THEN EndFeed(r)
  ELSE IF ends = {}
       THEN EndFeed([r EXCEPT !.line = @ \o SubSeq(r.in, r.at, Len(r.in)), !.at = Len(r.in) + 1])
  ELSE OnTaken(TakeLine(r, Min(ends), SubSeq(r.in, r.at, Min(ends) - 1)), r.at, SubSeq(r.in, r.at, Min(ends) - 1))
FromHere(r) == UpTo(r, {i \in r.at..Len(r.in) : r.in[i] \in {"CR", "LF"}})
NextLine(r) == FromHere(SkipLf(DropUsed(r)))

\* SseFrameReader::next
NextFrame(r) ==
  IF r.failed THEN Returns(r, "Fail", <<>>)
  ELSE IF r.stopped THEN Returns(r, "More", <<>>)
  ELSE NextLine(r)

-----------------------------------------------------------------------------
(* AnthropicToOpenAiSse.  An event is a record with a `type`; a chunk is a
   record with a `kind`.                                                     *)

NoCount == -1
NewTranslator(includeUsage) ==
  [failed |-> FALSE, ordOf |-> [b \in {} |-> 0], nextOrd |-> 0, toolOpen |-> FALSE,
   finish |-> "", role |-> FALSE, started |-> FALSE, finished |-> FALSE, done |-> FALSE,
   includeUsage |-> includeUsage, usageSent |-> FALSE, usageIn |-> NoCount, usageOut |-> NoCount,
   out |-> <<>>]

Emit(t, chunk) == [t EXCEPT !.out = Append(t.out, chunk)]

EmitRole(t) == IF t.role THEN t ELSE [Emit(t, [kind |-> "role"]) EXCEPT !.role = TRUE]

DefaultFinish(t) == IF t.nextOrd > 0 THEN "tool_calls" ELSE "stop"
EmitFinish(t) ==
  IF t.finished THEN t
  ELSE [Emit(t, [kind |-> "finish", reason |-> IF t.finish # "" THEN t.finish ELSE DefaultFinish(t)])
          EXCEPT !.finished = TRUE]

\* A count never stated reads as zero.
Counted(n) == Max({n, 0})
EmitUsage(t) ==
  IF ~ t.includeUsage \/ t.usageSent THEN t
  ELSE [Emit(t, [kind |-> "usage", in |-> Counted(t.usageIn), out |-> Counted(t.usageOut)])
          EXCEPT !.usageSent = TRUE]

EmitDone(t) == IF t.done THEN t ELSE [Emit(EmitUsage(t), [kind |-> "done"]) EXCEPT !.done = TRUE]
\* merge_stated: the prompt's count only grows, the output's is the last stated.
MergeStated(t, e) ==
  [t EXCEPT !.usageIn = Max({@, e.in}), !.usageOut = IF e.out >= 0 THEN e.out ELSE @]

\* finish_of, one of Anthropic's reasons for each finish a client can tell apart. None is an
\* Error, so the failure OnMessageDelta has for one (sse.cpp:341) is never taken.
FinishOf == "end_turn" :> "stop" @@ "tool_use" :> "tool_calls" @@ "max_tokens" :> "length"

OnMessageStart(t, e) ==
  IF e.long THEN [t EXCEPT !.failed = TRUE] ELSE EmitRole(MergeStated(t, e))

OnTextDelta(t) == [Emit(EmitRole(t), [kind |-> "text"]) EXCEPT !.started = TRUE]

\* An index that is no clean integer is parsed as -1 (parse_block_index).
ToolOrdinalFor(t, index) == IF index \in DOMAIN t.ordOf THEN t.ordOf[index] ELSE -1

ArgsFor(t, ord, frag) ==
  IF ord < 0 \/ frag = "" THEN t ELSE Emit(t, [kind |-> "args", ord |-> ord, frag |-> frag])
OnToolArgs(t, e) == ArgsFor(t, ToolOrdinalFor(t, e.index), e.frag)

Ignored(t, e) == ~ e.tool \/ ~ e.named \/ t.nextOrd >= MaxBlocks \/ e.index < 0 \/ e.index >= MaxBlocks
OpenTool(t, ord) == [Emit(EmitRole(t), [kind |-> "tool", ord |-> ord]) EXCEPT !.started = TRUE]
OnBlockStart_ByIndex(t, e) ==
  IF Ignored(t, e) THEN t
  ELSE OpenTool([t EXCEPT !.ordOf = (e.index :> e.index) @@ @, !.nextOrd = @ + 1, !.toolOpen = TRUE], e.index)
OnBlockStart(t, e) ==
  IF Ignored(t, e) THEN t
  ELSE OpenTool([t EXCEPT !.ordOf = (e.index :> t.nextOrd) @@ @, !.nextOrd = @ + 1, !.toolOpen = TRUE], t.nextOrd)

\* Only a stop_reason ends the message; a frame may carry nothing but counts.
FinishIfSaid(t) == IF t.finish # "" THEN EmitFinish(t) ELSE t
OnMessageDelta(t, e) ==
  FinishIfSaid(MergeStated([t EXCEPT !.finish = IF e.stop # "" THEN FinishOf[e.stop] ELSE @,
                                     !.toolOpen = @ /\ e.stop = ""], e))

OnMessageStop(t) == EmitDone(EmitFinish([t EXCEPT !.toolOpen = FALSE]))

\* A foreign terminator ends the stream unless a tool call's arguments may be cut short.
OnForeignDone(t) == IF t.toolOpen THEN t ELSE EmitDone(EmitFinish(t))
Dispatch(t, e) ==
  CASE e.type = "[DONE]" -> OnForeignDone(t)
    [] e.type = "error" -> [t EXCEPT !.failed = TRUE]
    [] e.type = "message_start" -> OnMessageStart(t, e)
    [] e.type = "text_delta" -> OnTextDelta(t)
    [] e.type = "input_json_delta" -> OnToolArgs(t, e)
    [] e.type = "message_delta" -> OnMessageDelta(t, e)
    [] e.type = "message_stop" -> OnMessageStop(t)
    [] e.type = "content_block_start" -> OnBlockStart(t, e)
    [] e.type = "other" -> t           \* garbled, ping, content_block_stop, unknown

\* AnthropicToOpenAiSse::feed over the events one read completes.
FeedEvents(t, events) ==
  FoldLeft(LAMBDA s, e : IF s.failed \/ s.done THEN s ELSE Dispatch(s, e), t, events)

MayFinish_Always(t) == ~ t.failed
MayFinish(t) == ~ t.failed /\ (t.done \/ t.finish # "")
\* AnthropicToOpenAiSse::finish, at the venue's EOF.
Finish(t) == IF MayFinish(t) THEN EmitDone(EmitFinish(t)) ELSE t

=============================================================================
