-------------------------------- MODULE Reply --------------------------------
(***************************************************************************)
(* A venue's reply read in pieces, one layer at a time: its head lines,    *)
(* its framing (ResponseFramer and ChunkDecoder), its event stream         *)
(* (SseFrameReader) and its events (AnthropicToOpenAiSse).  The venue      *)
(* sends one symbol after another, any symbols at all; the gateway reads   *)
(* whatever has arrived, at any moment.                                    *)
(***************************************************************************)
EXTENDS Integers, Sequences, SequencesExt, FiniteSetsExt

CONSTANTS
  MaxHeaderLen, MaxBodyLen, MaxSizeLine,   \* limits of Http
  MaxLine, MaxEvent, MaxBlocks,            \* limits of Sse
  MaxHeads,     \* header lines a head is made of
  MaxBody,      \* body symbols of a framed reply
  MaxNoise,     \* of them, those that are plain text
  MaxNext,      \* and of the one after it on the connection
  MaxText,      \* symbols of an event stream
  MaxEvents,    \* events of a stream
  MaxReplies    \* replies on one connection

H == INSTANCE Http
S == INSTANCE Sse

VARIABLES
  layer,      \* what this behaviour reads: "head", "frame", "text" or "events"
  script,     \* the symbols of the reply's head, "frame" only
  sent,       \* everything the venue sent of this reply
  read,       \* how much of it the gateway has read
  framer,     \* ResponseFramer
  msg,        \* what it last reported
  replies,    \* replies framed on this connection before this one
  reader,     \* SseFrameReader
  events,     \* the events it has returned
  tr          \* AnthropicToOpenAiSse

vars == <<layer, script, sent, read, framer, msg, replies, reader, events, tr>>

-----------------------------------------------------------------------------
(* Lines, as parsers other than the gateway's split them. *)

\* A parser another hop may run: which bytes end a line, which of two lengths counts,
\* whether a line that starts with a space continues the one before, and whether a
\* space before the colon belongs to the name.
Parsers == [ends : {"crlf", "any"}, pick : {"first", "last"}, folds : BOOLEAN, trims : BOOLEAN]

LineBreak(p, s, i) ==
  CASE s[i] = "CR" /\ i < Len(s) /\ s[i + 1] = "LF" -> 2
    [] OTHER -> IF p.ends = "any" /\ s[i] \in {"CR", "LF"} THEN 1 ELSE 0

RECURSIVE SplitLines(_, _)
SplitAt(p, s, at) ==
  IF at = 0 THEN <<s>>
  ELSE <<SubSeq(s, 1, at - 1)>> \o SplitLines(p, SubSeq(s, at + LineBreak(p, s, at), Len(s)))
SplitLines(p, s) == SplitAt(p, s, H!FirstOf({i \in DOMAIN s : LineBreak(p, s, i) > 0}))

AnyEnd == [ends |-> "any", pick |-> "first", folds |-> FALSE, trims |-> FALSE]

-----------------------------------------------------------------------------
(* What a venue sends. *)

Chunky == <<"HTTP/1.1", "SP", "200", "CR", "LF", "Transfer-Encoding", ":", "chunked", "CR", "LF", "CR", "LF">>
Sized == <<"HTTP/1.1", "SP", "200", "CR", "LF", "Content-Length", ":", "2", "CR", "LF", "CR", "LF">>
Bodiless == <<"HTTP/1.1", "SP", "204", "CR", "LF", "Content-Length", ":", "2", "CR", "LF", "CR", "LF">>
Interim == <<"HTTP/1.1", "SP", "100", "CR", "LF", "CR", "LF">>
Unframed == <<"HTTP/1.0", "SP", "200", "CR", "LF", "CR", "LF">>
Scripts == {Chunky, Sized, Bodiless, Interim, Unframed}

StartLines == {<<"HTTP/1.1", "SP", "200">>, <<"HTTP/1.0", "SP", "304", "SP", "x">>,
               <<"GET", "SP", "x", "SP", "HTTP/1.1">>, <<"HTTP/1.1", "SP", "200", "LF", "x">>}
\* Well formed lines, and the ways a line can be read as two or as another.
HeadLines == {<<"Content-Length", ":", "1">>, <<"Content-Length", ":", "SP", "2">>,
              <<"Content-Length", ":", "x">>, <<"Content-Length", "SP", ":", "2">>,
              <<"SP", "Content-Length", ":", "2">>, <<"SP", "2">>, <<"x">>, <<":", "1">>,
              <<"Transfer-Encoding", ":", "x", ",", "chunked">>, <<"Transfer-Encoding", ":", "x">>, <<"x", ":", "1">>,
              <<"x", ":", "CR", "Content-Length", ":", "2">>, <<"x", ":", "LF", "Content-Length", ":", "2">>,
              <<"Content-Length", ":", "1", "CR">>, <<"Connection", ":", "close", ",", "keep-alive">>}

\* The symbols an event stream's reader tells apart after s: where a field name, a colon
\* or the space after it may come.
StreamBytesIn(line) ==
  {"CR", "LF", "x"} \union (IF line = <<>> THEN {"data"} ELSE {})
                    \union (IF line = <<"data">> THEN {":"} ELSE {})
                    \union (IF line = <<"data", ":">> THEN {"SP"} ELSE {})
StreamBytes(s) == StreamBytesIn(Last(SplitLines(AnyEnd, s)))

Event(type) == [type |-> type]
Stated(type, in, out) == [type |-> type, in |-> in, out |-> out]
Venue == {Event("[DONE]"), Event("error"), Event("text_delta"), Event("message_stop"), Event("other"),
          [type |-> "message_start", long |-> FALSE, in |-> 2, out |-> 1],
          [type |-> "message_start", long |-> TRUE, in |-> 2, out |-> 1]}
         \union {[type |-> "content_block_start", tool |-> TRUE, named |-> n, index |-> i] : n \in {TRUE}, i \in -1..MaxBlocks}
         \union {[type |-> "content_block_start", tool |-> TRUE, named |-> FALSE, index |-> 0]}
         \union {[type |-> "input_json_delta", index |-> i, frag |-> "a"] : i \in 0..1}
         \union {[type |-> "message_delta", stop |-> s, in |-> 0, out |-> 3] : s \in {"", "end_turn", "max_tokens"}}

-----------------------------------------------------------------------------
(* Framing: a reference over the whole of what was read. *)

Ref(status, body, used) == [status |-> status, body |-> body, used |-> used, opaque |-> FALSE]
Opaque(ref) == [ref EXCEPT !.opaque = TRUE]     \* where only line endings matter

\* The trailer section: lines up to an empty one.
RECURSIVE TrailerEnd(_, _, _)
TrailerLine(s, used, body, end) ==
  IF (IF end = 0 THEN Len(s) ELSE end + 1) > MaxHeaderLen THEN Ref("Error", body, 0)
  ELSE IF end = 0 THEN Opaque(Ref("NeedMore", body, 0))
  ELSE IF end = 1 THEN Ref("Complete", body, used + 2)
  ELSE TrailerEnd(SubSeq(s, end + 2, Len(s)), used + end + 1, body)
TrailerEnd(s, used, body) == TrailerLine(s, used, body, H!Find(s, H!CRLF))

\* The chunked coding, chunk by chunk.
RECURSIVE Dechunk(_, _, _)
ChunkData(rest, used, body, size) ==
  IF Len(rest) < size + 2
  THEN Opaque(Ref("NeedMore", body \o SubSeq(rest, 1, Min({size, Len(rest)})), 0))
  ELSE IF SubSeq(rest, size + 1, size + 2) # H!CRLF THEN Ref("Error", body, 0)
  ELSE Dechunk(SubSeq(rest, size + 3, Len(rest)), used + size + 2, body \o SubSeq(rest, 1, size))
ChunkSized(rest, used, body, size) ==
  IF size = H!NotNumber THEN Ref("Error", body, 0)
  ELSE IF size = 0 THEN TrailerEnd(rest, used, body)
  ELSE ChunkData(rest, used, body, size)
ChunkLine(s, used, body, end) ==
  IF (IF end = 0 THEN Len(s) ELSE end + 1) > MaxSizeLine THEN Ref("Error", body, 0)
  ELSE IF end = 0 THEN [Ref("NeedMore", body, 0) EXCEPT !.opaque = s # <<>> /\ s[1] \notin DOMAIN H!Digit]
  ELSE ChunkSized(SubSeq(s, end + 2, Len(s)), used + end + 1, body, H!SizeLine(SubSeq(s, 1, end - 1)))
Dechunk(s, used, body) == ChunkLine(s, used, body, H!Find(s, H!CRLF))

Capped(ref) == IF Len(ref.body) > MaxBodyLen THEN Ref("Error", <<>>, 0) ELSE ref
Counted(s, length, used) ==
  IF Len(s) < used + length THEN Ref("NeedMore", <<>>, 0)
  ELSE Ref("Complete", SubSeq(s, used + 1, used + length), used + length)
Headed(s, h) ==
  IF h.status # "Complete" THEN Ref(h.status, <<>>, 0)
  ELSE IF h.code < 200 \/ h.body = "UntilClose" THEN Ref("Error", <<>>, 0)
  ELSE IF h.body = "Chunked" THEN Capped(Dechunk(SubSeq(s, h.headerLen + 1, Len(s)), h.headerLen, <<>>))
  ELSE Counted(s, IF h.body = "Length" THEN h.contentLength ELSE 0, h.headerLen)
Reference(s) == Headed(s, H!ParseResponseHead(s, FALSE))

-----------------------------------------------------------------------------

Init ==
  /\ layer \in {"head", "frame", "text", "events"}
  /\ script \in (IF layer = "frame" THEN Scripts ELSE {<<>>})
  /\ sent \in (IF layer = "head" THEN StartLines ELSE {<<>>})
  /\ read = 0 /\ replies = 0
  /\ framer = H!NewFramer /\ msg = H!NeedMore
  /\ reader = S!NewReader /\ events = <<>>
  /\ tr \in {S!NewTranslator(u) : u \in (IF layer = "events" THEN BOOLEAN ELSE {FALSE})}

Unread == SubSeq(sent, read + 1, Len(sent))

\* The next header line of a head.
SendLine(line) ==
  /\ layer = "head"
  /\ replies < MaxHeads
  /\ sent' = (sent \o H!CRLF) \o line
  /\ replies' = replies + 1
  /\ UNCHANGED <<layer, script, read, framer, msg, reader, events, tr>>

Plain(s) == Cardinality({i \in (Len(script) + 1)..Len(s) : s[i] = "x"})

\* The next symbol of a framed reply: its head as scripted, then anything the decoder
\* tells apart, up to one symbol past the end and none past what makes it malformed.
BytesAfter(s, ref) ==
  IF ref.status = "Error" \/ (ref.status = "Complete" /\ Len(s) > ref.used) THEN {}
  ELSE {"CR", "LF"} \union (IF ref.opaque THEN {} ELSE {"0", "2"})
                    \union (IF Plain(s) < MaxNoise THEN {"x"} ELSE {})
NextBytes(s) == IF Len(s) < Len(script) THEN {script[Len(s) + 1]} ELSE BytesAfter(s, Reference(s))

SendBody ==
  /\ layer = "frame"
  /\ msg.status = "NeedMore"
  /\ Len(sent) < Len(script) + (IF replies = 0 THEN MaxBody ELSE MaxNext)
  /\ \E b \in NextBytes(sent) : sent' = Append(sent, b)
  /\ UNCHANGED <<layer, script, read, framer, msg, replies, reader, events, tr>>

\* Engine::on_upstream_bytes frames what the buffer holds after each read.  The head is
\* parsed afresh until it is whole: one cut inside it is enough, the body is cut anywhere.
Reported(f) == IF H!HaveHead(f) THEN H!FrameBody(f, sent) ELSE [framer |-> f, msg |-> f.head]

ReadBody ==
  /\ layer = "frame"
  /\ read < Len(sent) /\ Len(sent) \in {Len(script) - 2} \union Len(script)..(Len(script) + MaxBody)
  /\ msg.status = "NeedMore"
  /\ read' = Len(sent)
  /\ \E r \in {Reported(H!FramerHead(framer, sent, FALSE))} : framer' = r.framer /\ msg' = r.msg
  /\ UNCHANGED <<layer, script, sent, replies, reader, events, tr>>

\* A connection with nothing left over serves the next request.
Reuse(next) ==
  /\ layer = "frame"
  /\ msg.status = "Complete" /\ msg.totalLen = Len(sent)
  /\ replies + 1 < MaxReplies
  /\ replies' = replies + 1
  /\ framer' = H!Reset(framer)
  /\ msg' = H!NeedMore
  /\ sent' = <<>> /\ read' = 0
  /\ script' = next
  /\ UNCHANGED <<layer, reader, events, tr>>

SendText(b) ==
  /\ layer = "text"
  /\ Len(sent) < MaxText
  /\ sent' = Append(sent, b)
  /\ UNCHANGED <<layer, script, read, framer, msg, replies, reader, events, tr>>

\* next() until it stops returning events.
RECURSIVE Drain(_, _)
Drained(step, got) ==
  IF step.step = "Event" THEN Drain(step.reader, Append(got, step.data))
  ELSE [reader |-> step.reader, events |-> got]
Drain(r, got) == Drained(S!NextFrame(r), got)

ReadText ==
  /\ layer = "text"
  /\ Unread # <<>>
  /\ read' = Len(sent)
  /\ \E d \in {Drain(S!FeedReader(reader, Unread), events)} : reader' = d.reader /\ events' = d.events
  /\ UNCHANGED <<layer, script, sent, framer, msg, replies, tr>>

Speaking == ~ tr.failed /\ ~ tr.done

SendEvent(e) ==
  /\ layer = "events"
  /\ Speaking /\ Len(sent) < MaxEvents /\ msg.status = "NeedMore"
  /\ sent' = Append(sent, e)
  /\ read' = read + 1
  /\ tr' = S!FeedEvents(tr, <<e>>)
  /\ UNCHANGED <<layer, script, framer, msg, replies, reader, events>>

\* The venue closes: stream_step calls finish() at the end of the body.
EventsEnd ==
  /\ layer = "events"
  /\ msg.status = "NeedMore"
  /\ msg' = H!Error                \* nothing more is read of this stream
  /\ tr' = S!Finish(tr)
  /\ UNCHANGED <<layer, script, sent, read, framer, replies, reader, events>>

Next ==
  \/ \E line \in HeadLines : SendLine(line)
  \/ SendBody
  \/ ReadBody
  \/ \E next \in {Chunky, Sized} : Reuse(next)
  \/ layer = "text" /\ \E b \in StreamBytes(sent) : SendText(b)
  \/ ReadText
  \/ \E e \in Venue : SendEvent(e)
  \/ EventsEnd

Spec == Init /\ [][Next]_vars

-----------------------------------------------------------------------------
(* Heads: no two parsers may disagree about an accepted one. *)

\* Continuation lines joined to what they continue.
Unfolded(p, lines) ==
  FoldLeft(LAMBDA ls, l : IF p.folds /\ l # <<>> /\ l[1] = "SP" /\ ls # <<>>
                          THEN [ls EXCEPT ![Len(ls)] = @ \o l] ELSE Append(ls, l), <<>>, lines)

NameOf(p, name) == IF p.trims THEN H!Trim(name) ELSE name
IsNamed(p, l, name, colon) == colon > 0 /\ NameOf(p, SubSeq(l, 1, colon - 1)) = <<name>>
AfterColon(l, colon) == SubSeq(l, colon + 1, Len(l))
Values(named) == [i \in DOMAIN named |-> AfterColon(named[i], H!Find(named[i], <<":">>))]
ValuesOf(p, head, name) ==
  Values(SelectSeq(Tail(Unfolded(p, SplitLines(p, head))), LAMBDA l : IsNamed(p, l, name, H!Find(l, <<":">>))))

\* The length a parser takes the body to have; a transfer coding overrides it.
FramingOf(p, lengths, codings) ==
  IF codings # <<>> THEN "chunked"
  ELSE IF lengths = <<>> THEN "none"
  ELSE ToString(H!ParseStrictLength(IF p.pick = "first" THEN lengths[1] ELSE Last(lengths)))
FramingBy(p, head) ==
  FramingOf(p, ValuesOf(p, head, "Content-Length"), ValuesOf(p, head, "Transfer-Encoding"))
\* And by one for which no coding counts but chunked.
ChunkedBy(p, head) ==
  FramingOf(p, ValuesOf(p, head, "Content-Length"),
            SelectSeq(ValuesOf(p, head, "Transfer-Encoding"), LAMBDA v : H!Holds(v, "chunked")))

RequestAgrees(m, framing) ==
  m.status # "Error" => framing \in {IF m.bodyLen = 0 THEN "none" ELSE "", ToString(m.bodyLen)}
ResponseAgrees(h, framing) ==
  h.status = "Complete" /\ h.body # "None" =>
    framing = CASE h.body = "Chunked" -> "chunked"
                [] h.body = "Length" -> ToString(h.contentLength)
                [] h.body = "UntilClose" -> "none"

\* Whatever parser the peer runs, it frames an accepted request the way the gateway did,
\* and an accepted response too, if no coding counts for it but chunked: no bare CR or LF,
\* folded line, stray space or second length hides or moves the end of a message
\* (walk_headers, line_end).  A response of another coding the gateway frames by its
\* Content-Length (http.hpp:452, :495), where the comment at http.hpp:489, "Both framings
\* present: refuse", has it refused (BothRefused) and another parser reads the coding.
HeadsUnambiguous ==
  layer = "head" =>
    \A p \in Parsers :
      /\ RequestAgrees(H!ParseRequest((sent \o H!CRLF) \o H!CRLF), FramingBy(p, sent))
      /\ ResponseAgrees(H!ParseResponseHead((sent \o H!CRLF) \o H!CRLF, FALSE), ChunkedBy(p, sent))

\* parse_response_head: "Both framings present: refuse".
BothRefused ==
  layer = "head" /\ H!ParseResponseHead((sent \o H!CRLF) \o H!CRLF, FALSE).status = "Complete" =>
    ValuesOf(AnyEnd, sent, "Content-Length") = <<>> \/ ValuesOf(AnyEnd, sent, "Transfer-Encoding") = <<>>

-----------------------------------------------------------------------------
(* Framing. *)

AsMeant(ref) ==
  /\ msg.status = ref.status
  /\ msg.status = "Complete" => msg.body = ref.body /\ msg.totalLen = ref.used

\* However the reads cut a reply, at every byte of the size lines, the data and the
\* trailers, what the framer reports is what the whole of it means; the body is the
\* body, the message ends where it ends, and bytes after it are not taken; and a second
\* reply on the connection starts clean (ResponseFramer, ChunkDecoder::feed).
FramedAsWhole == layer = "frame" /\ read > 0 => AsMeant(Reference(SubSeq(sent, 1, read)))

-----------------------------------------------------------------------------
(* Event streams: a reference over the whole of what was read. *)

StreamLines(s) == Front(SplitLines(AnyEnd, s))      \* the finished ones

IsDataLine(l) == l # <<>> /\ l[1] = "data" /\ (Len(l) = 1 \/ l[2] = ":")
Spaceless(v) == IF v # <<>> /\ v[1] = "SP" THEN Tail(v) ELSE v
DataOf(l) == Spaceless(SubSeq(l, 3, Len(l)))

\* The data lines of each event: those between two blank lines.
BlankLine(acc) == IF acc.open THEN [got |-> Append(acc.got, acc.data), data |-> <<>>, open |-> FALSE] ELSE acc
DataLine(acc, value) ==
  [acc EXCEPT !.open = TRUE, !.data = IF acc.open THEN (@ \o <<"LF">>) \o value ELSE value]
EventsOf(s) ==
  FoldLeft(LAMBDA acc, l : IF l = <<>> THEN BlankLine(acc)
                           ELSE IF IsDataLine(l) THEN DataLine(acc, DataOf(l)) ELSE acc,
           [got |-> <<>>, data |-> <<>>, open |-> FALSE], StreamLines(s)).got

TheseEvents(all) == IF reader.failed THEN IsPrefix(events, all) ELSE events = all

\* However the reads cut a stream, in the middle of a line or between the CR and the LF
\* that end one, the events returned are the stream's events, their data intact after
\* the buffer they were read from is gone; a reader that gives up has returned the ones
\* before (SseFrameReader::next).
EventsAsWhole == layer = "text" => TheseEvents(EventsOf(SubSeq(sent, 1, read)))

-----------------------------------------------------------------------------
(* Translated streams. *)

Places(kind) == {i \in DOMAIN tr.out : tr.out[i].kind = kind}
AtMostOne(kind) == \A i, j \in Places(kind) : i = j

\* What a client of the OpenAI API relies on: the role comes before any content, calls
\* are numbered from 0 in the order they open and get arguments only once open, one
\* finish reason, and [DONE] after it, last, with the counts just before when they were
\* asked for (AnthropicToOpenAiSse::dispatch).
StreamWellFormed ==
  layer = "events" =>
    /\ \A kind \in {"role", "finish", "usage", "done"} : AtMostOne(kind)
    /\ \A i \in Places("text") \union Places("tool") \union Places("args") : \E r \in Places("role") : r < i
    /\ \A i \in Places("tool") : tr.out[i].ord = Cardinality({j \in Places("tool") : j < i})
    /\ \A i \in Places("args") : \E j \in Places("tool") : j < i /\ tr.out[j].ord = tr.out[i].ord
    /\ \A i \in Places("done") : i = Len(tr.out) /\ \E f \in Places("finish") : f < i
    /\ tr.includeUsage => Places("usage") = {i - 1 : i \in Places("done")}
    /\ ~ tr.includeUsage => Places("usage") = {}

\* The calls the venue opened, and the call a block's arguments belong to at event p.
Opens == {p \in DOMAIN sent : /\ sent[p].type = "content_block_start"
                              /\ sent[p].named /\ sent[p].index \in 0..(MaxBlocks - 1)
                              /\ Cardinality({q \in 1..(p - 1) : sent[q].type = "content_block_start"
                                                 /\ sent[q].named /\ sent[q].index \in 0..(MaxBlocks - 1)}) < MaxBlocks}
CallOf(p) ==
  LET mine == {q \in Opens : q < p /\ sent[q].index = sent[p].index}
  IN  IF mine = {} THEN -1 ELSE Cardinality({q \in Opens : q < Max(mine)})

Said(type) == {p \in DOMAIN sent : sent[p].type = type}
StopSaid == {p \in Said("message_delta") : sent[p].stop # ""}

\* Arguments reach the call their block opened, in order; and a stream ends in [DONE]
\* only when the venue said the message was whole: a stop reason, message_stop, or a
\* foreign [DONE] with no call open; the reason is the venue's, and without one a
\* stream that opened calls says so, or no client would run them
\* (OnForeignDone, default_finish, finish).
EndIsHonest ==
  layer = "events" =>
    LET args == SelectSeq(tr.out, LAMBDA c : c.kind = "args")
        theirs == SelectSeq([p \in DOMAIN sent |-> IF p \in Said("input_json_delta") THEN CallOf(p) ELSE -1],
                            LAMBDA o : o >= 0)
    IN  /\ [i \in DOMAIN args |-> args[i].ord] = theirs
        /\ Places("done") # {} =>
             \/ Said("message_stop") # {} \/ StopSaid # {}
             \/ Said("[DONE]") # {} /\ Opens = {}
        /\ \A i \in Places("finish") :
             tr.out[i].reason = IF StopSaid # {} /\ Min(StopSaid) <= Len(sent)
                                THEN S!FinishOf[sent[Min(StopSaid)].stop]
                                ELSE IF Opens # {} THEN "tool_calls" ELSE "stop"

=============================================================================
