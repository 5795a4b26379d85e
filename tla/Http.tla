-------------------------------- MODULE Http --------------------------------
(***************************************************************************)
(* HTTP/1.1 framing: heads, bodies and the incremental chunk decoder, as   *)
(* functions of the bytes buffered so far (net/http.hpp).                  *)
(*                                                                         *)
(* A buffer is a sequence of symbols: "CR", "LF", "SP" (space or tab),     *)
(* ":", ",", ";", the digits, and whole words for names and values the     *)
(* parsers compare with a literal ("Content-Length", "chunked", ...): a    *)
(* name is one symbol in any case of its letters.  Lengths count symbols.  *)
(***************************************************************************)
LOCAL INSTANCE Integers
LOCAL INSTANCE Sequences
LOCAL INSTANCE SequencesExt
LOCAL INSTANCE FiniteSetsExt
LOCAL INSTANCE TLC

CONSTANTS
  MaxHeaderLen,   \* kMaxHeaderLen
  MaxBodyLen,     \* kMaxBodyLen
  MaxSizeLine     \* the 64 bytes of a chunk-size line

CRLF == <<"CR", "LF">>
Digit == "0" :> 0 @@ "1" :> 1 @@ "2" :> 2 @@ "9" :> 9 @@ "f" :> 15
Words == {"GET", "HEAD", "x", "0", "1", "2", "9", "f"}   \* token bytes of a method

FirstOf(places) == IF places = {} THEN 0 ELSE Min(places)
\* The first place of t in s, 0 when there is none.
Find(s, t) ==
  FirstOf({i \in 1..(Len(s) - Len(t) + 1) : s[i] = t[1] /\ SubSeq(s, i, i + Len(t) - 1) = t})

Until(s, i) == IF i = 0 THEN s ELSE SubSeq(s, 1, i - 1)
From(s, i) == SubSeq(s, i, Len(s))

Between(v, text) == IF text = {} THEN <<>> ELSE SubSeq(v, Min(text), Max(text))
Trim(v) == Between(v, {i \in DOMAIN v : v[i] # "SP"})

NotNumber == -1

\* The value of 1*DIGIT, in decimal.
Decimal(v) ==
  IF v = <<>> \/ ~ (ToSet(v) \subseteq (DOMAIN Digit \ {"f"})) THEN NotNumber
  ELSE FoldLeft(LAMBDA n, c : n * 10 + Digit[c], 0, v)
ParseStrictLength(value) == Decimal(Trim(value))

BadLine == 0

\* Where the line starting at `from` ends, one past the buffer for the last: at the CR of
\* its CRLF, with no CR or LF of its own before.
NoBare(s, from, eol) == IF \E i \in from..(eol - 1) : s[i] = "CR" THEN BadLine ELSE eol
LineBefore_BareLf(s, from, lf) ==
  IF lf = 0 THEN NoBare(s, from, Len(s) + 1)
  ELSE IF lf = from THEN BadLine
  ELSE IF s[lf - 1] # "CR" THEN NoBare(s, from, FirstOf({i \in (lf + 1)..Len(s) : s[i] = "CR"}))
  ELSE NoBare(s, from, lf - 1)
LineBefore(s, from, lf) ==
  IF lf = 0 THEN NoBare(s, from, Len(s) + 1)
  ELSE IF lf = from \/ s[lf - 1] # "CR" THEN BadLine
  ELSE NoBare(s, from, lf - 1)
LineEnd(s, from) == LineBefore(s, from, FirstOf({i \in from..Len(s) : s[i] = "LF"}))

Colon(line, colon) == colon > 1 /\ line[colon - 1] # "SP"
LineOk(line) ==
  /\ line # <<>>
  /\ line[1] # "SP"                       \* obs-fold
  /\ Colon(line, Find(line, <<":">>))

Fields == {"Content-Length", "Transfer-Encoding", "Content-Encoding", "Content-Type",
           "Connection", "Retry-After", "Requests-Remaining", "Expect", "Authorization"}
HopByHop == {"Connection", "Keep-Alive", "Proxy-Connection", "Te", "Trailer", "Upgrade"}

Classify(name) == IF Len(name) = 1 /\ name[1] \in Fields \union HopByHop THEN name[1] ELSE "Other"

LineAt(line, colon) ==
  [field |-> Classify(SubSeq(line, 1, colon - 1)), name |-> SubSeq(line, 1, colon - 1),
   value |-> From(line, colon + 1)]
HeaderLine(line) == LineAt(line, Find(line, <<":">>))

Refused == [ok |-> FALSE, lines |-> <<>>]
Before(line, rest) == [rest EXCEPT !.lines = <<line>> \o @]

\* The header lines after the one that ends at eol.
RECURSIVE Walk(_, _)
WalkLine(head, start, eol) ==
  IF eol = BadLine THEN Refused
  ELSE IF ~ LineOk(SubSeq(head, start, eol - 1)) THEN Refused
  ELSE Before(HeaderLine(SubSeq(head, start, eol - 1)), Walk(head, eol))
Walk(head, eol) ==
  IF eol = BadLine THEN Refused
  ELSE IF eol > Len(head) THEN [ok |-> TRUE, lines |-> <<>>]
  ELSE WalkLine(head, eol + 2, LineEnd(head, eol + 2))

WalkHeaders(head) == Walk(head, LineEnd(head, 1))

\* The comma-separated items of a list.
RECURSIVE Items(_)
ItemsUpTo(list, comma) ==
  {Trim(Until(list, comma))} \union (IF comma = 0 THEN {} ELSE Items(From(list, comma + 1)))
Items(list) == ItemsUpTo(list, Find(list, <<",">>))

HasToken(list, word) == <<word>> \in Items(list)
Holds(value, word) == \E i \in DOMAIN value : value[i] = word   \* contains_ci

\* The first value of a header, trimmed on the left, searched without checking the lines.
RECURSIVE FindHeader(_, _)
LeftTrim(value, first) == IF first = 0 THEN <<>> ELSE From(value, first)
HeaderIn(head, name, line, eol) ==
  IF line = <<>> THEN <<>>
  ELSE IF Len(line) > 1 /\ line[1] = name /\ line[2] = ":"
       THEN LeftTrim(From(line, 3), FirstOf({i \in 1..(Len(line) - 2) : line[i + 2] # "SP"}))
  ELSE IF eol = 0 THEN <<>> ELSE FindHeader(From(head, eol + 2), name)
FindHeader(head, name) == HeaderIn(head, name, Until(head, Find(head, CRLF)), Find(head, CRLF))

LineSpaces(rl) == {i \in DOMAIN rl : rl[i] = "SP"}
StartLineOk(rl, sp1, sp2) ==
  /\ sp1 > 1 /\ sp2 > sp1 + 1
  /\ From(rl, sp2 + 1) \in {<<"HTTP/1.1">>, <<"HTTP/1.0">>}
  /\ \A i \in 1..(sp1 - 1) : rl[i] \in Words
  /\ \A i \in (sp1 + 1)..(sp2 - 1) : rl[i] \notin {"SP", "CR", "LF"}
RequestLine(rl) == LineSpaces(rl) # {} /\ StartLineOk(rl, Min(LineSpaces(rl)), Max(LineSpaces(rl)))
RequestLineOk(buf) == Find(buf, CRLF) # 0 /\ RequestLine(Until(buf, Find(buf, CRLF)))

-----------------------------------------------------------------------------
(* Requests: framed by Content-Length only. *)

Lengths(lines) == {ParseStrictLength(lines[i].value) : i \in {j \in DOMAIN lines : lines[j].field = "Content-Length"}}
Says(lines, field, word) ==
  \E i \in DOMAIN lines : lines[i].field = field /\ HasToken(lines[i].value, word)
KeepAlive(lines, otherwise) ==
  IF Says(lines, "Connection", "close") THEN FALSE
  ELSE Says(lines, "Connection", "keep-alive") \/ otherwise
\* The last Content-Encoding line decides.
Encodes(v) == Trim(v) # <<>> /\ ~ Holds(v, "identity")
Encoded(lines) ==
  LET at == {i \in DOMAIN lines : lines[i].field = "Content-Encoding"}
  IN  at # {} /\ Encodes(lines[Max(at)].value)

NeedMore == [status |-> "NeedMore"]
Error == [status |-> "Error"]

\* The one value of every Content-Length line, 0 without one.
OneLength(lengths) == IF lengths = {} THEN 0 ELSE CHOOSE n \in lengths : TRUE
LengthsAgree(lengths) == NotNumber \notin lengths /\ \A m, n \in lengths : m = n

FramedRequest(buf, headerLen, bodyLen, rl, lines) ==
  IF bodyLen > MaxBodyLen THEN Error
  ELSE [status |-> IF Len(buf) < headerLen + bodyLen THEN "NeedMore" ELSE "Complete",
        headerLen |-> headerLen, bodyLen |-> bodyLen, totalLen |-> headerLen + bodyLen,
        keepAlive |-> KeepAlive(lines, ~ IsSuffix(<<"SP", "HTTP/1.0">>, rl)),
        encoded |-> Encoded(lines),
        head |-> Until(rl, Find(rl, <<"SP">>)) = <<"HEAD">>]

RequestHead(buf, headerLen, rl, walk, lengths) ==
  IF \/ ~ walk.ok
     \/ ~ LengthsAgree(lengths)
     \/ \E i \in DOMAIN walk.lines : walk.lines[i].field = "Transfer-Encoding"
  THEN Error ELSE FramedRequest(buf, headerLen, OneLength(lengths), rl, walk.lines)

WalkedRequest(buf, headerLen, head, walk) ==
  RequestHead(buf, headerLen, Until(head, Find(head, CRLF)), walk, Lengths(walk.lines))

NoHeadYet(buf) == IF Len(buf) > MaxHeaderLen THEN Error ELSE NeedMore

\* `end` is where the empty line that ends the head starts.
RequestAt(buf, end) ==
  IF end = 0 THEN NoHeadYet(buf)
  ELSE IF end + 3 > MaxHeaderLen THEN Error
  ELSE WalkedRequest(buf, end + 3, SubSeq(buf, 1, end - 1), WalkHeaders(SubSeq(buf, 1, end - 1)))
ParseRequest(buf) == RequestAt(buf, Find(buf, CRLF \o CRLF))

-----------------------------------------------------------------------------
(* Responses. *)

Status == "100" :> 100 @@ "200" :> 200 @@ "204" :> 204 @@ "304" :> 304 @@ "429" :> 429 @@ "503" :> 503

\* "HTTP/1.x SP" and three digits, then a space or the end of the line.
StatusLineOk(head) ==
  /\ Len(head) >= 3
  /\ head[1] \in {"HTTP/1.1", "HTTP/1.0"} /\ head[2] = "SP" /\ head[3] \in DOMAIN Status
  /\ Len(head) > 3 => head[4] \in {"SP", "CR"}

BodyKind(headRequest, status, chunked, lengths) ==
  IF headRequest \/ status < 200 \/ status \in {204, 304} THEN "None"
  ELSE IF chunked THEN "Chunked" ELSE IF lengths # {} THEN "Length" ELSE "UntilClose"

\* Whether a quota line says zero remains; the last such line names the family.
Exhausted(lines) ==
  \E i \in DOMAIN lines : lines[i].field = "Requests-Remaining" /\ ParseStrictLength(lines[i].value) = 0

\* The last Retry-After in seconds; a date reads as absent.
MaxRetryAfter == 65535
Seconds(stated) == IF stated = <<>> THEN 0 ELSE Min({MaxRetryAfter, Last(stated)})
RetryAfter(lines) ==
  Seconds(SelectSeq([i \in DOMAIN lines |-> IF lines[i].field = "Retry-After" THEN ParseStrictLength(lines[i].value)
                                                                            ELSE NotNumber],
                    LAMBDA n : n # NotNumber))

Chunked(lines) ==
  \E i \in DOMAIN lines : lines[i].field = "Transfer-Encoding" /\ Holds(lines[i].value, "chunked")

FramedResponse(headerLen, head, body, length, lines) ==
  IF body = "Length" /\ length > MaxBodyLen THEN Error
  ELSE [status |-> "Complete", code |-> Status[head[3]], headerLen |-> headerLen, body |-> body,
        contentLength |-> length, encoded |-> Encoded(lines),
        keepAlive |-> KeepAlive(lines, head[1] = "HTTP/1.1"),
        eventStream |-> \E i \in DOMAIN lines : lines[i].field = "Content-Type"
                                                /\ Holds(lines[i].value, "text/event-stream"),
        quota |-> Exhausted(lines), retryAfter |-> RetryAfter(lines)]

ResponseLines(headerLen, head, lines, lengths, chunked, headRequest) ==
  IF ~ LengthsAgree(lengths) \/ (chunked /\ lengths # {}) THEN Error
  ELSE FramedResponse(headerLen, head, BodyKind(headRequest, Status[head[3]], chunked, lengths),
                      OneLength(lengths), lines)

WalkedResponse(headerLen, head, walk, headRequest) ==
  IF ~ StatusLineOk(head) \/ ~ walk.ok THEN Error
  ELSE ResponseLines(headerLen, head, walk.lines, Lengths(walk.lines), Chunked(walk.lines), headRequest)

ResponseAt(buf, end, headRequest) ==
  IF end = 0 THEN NoHeadYet(buf)
  ELSE IF end + 3 > MaxHeaderLen THEN Error
  ELSE WalkedResponse(end + 3, SubSeq(buf, 1, end - 1), WalkHeaders(SubSeq(buf, 1, end - 1)), headRequest)
ParseResponseHead(buf, headRequest) == ResponseAt(buf, Find(buf, CRLF \o CRLF), headRequest)

-----------------------------------------------------------------------------
(* ChunkDecoder: fed a response's body in whatever pieces it arrives. *)

NewDecoder == [st |-> "Size", line |-> <<>>, remaining |-> 0, consumed |-> 0, out |-> <<>>]

\* The size a chunk-size line states (1*HEXDIG, spaces, an extension or nothing).
Hex(digits) == FoldLeft(LAMBDA n, c : IF n > MaxBodyLen THEN n ELSE n * 16 + Digit[c], 0, digits)
Extension(rest) ==
  /\ ToSet(rest) \intersect {"CR", "LF"} = {}
  /\ Trim(rest) # <<>> => Trim(rest)[1] = ";"
SizeOf(digits, rest, size) ==
  IF digits = <<>> \/ size > MaxBodyLen \/ ~ Extension(rest) THEN NotNumber ELSE size
SplitSize(digits, rest) == SizeOf(digits, rest, Hex(digits))
DigitsUntil(line, end) == SplitSize(Until(line, end), IF end = 0 THEN <<>> ELSE From(line, end))
SizeLine(line) == DigitsUntil(line, FirstOf({i \in DOMAIN line : line[i] \notin DOMAIN Digit}))

Stopped(d) == d.st \in {"Done", "Error"}
Fail(d) == [d EXCEPT !.st = "Error"]
Ended(line) == Len(line) >= 2 /\ From(line, Len(line) - 1) = CRLF

Sized(d, size) ==
  IF size = NotNumber THEN Fail(d)
  ELSE [d EXCEPT !.line = <<>>, !.remaining = size, !.st = IF size = 0 THEN "Trailer" ELSE "Data"]
SizeByte(d, line) ==
  IF Len(line) > MaxSizeLine THEN Fail(d)
  ELSE IF ~ Ended(line) THEN [d EXCEPT !.line = line]
  ELSE Sized(d, SizeLine(SubSeq(line, 1, Len(line) - 2)))

TrailerByte(d, line) ==
  IF Len(line) > MaxHeaderLen THEN Fail(d)
  ELSE IF ~ Ended(line) THEN [d EXCEPT !.line = line]
  ELSE [d EXCEPT !.line = <<>>, !.st = IF Len(line) = 2 THEN "Done" ELSE "Trailer"]

DataByte(d, c) ==
  [d EXCEPT !.out = Append(d.out, c), !.remaining = d.remaining - 1,
            !.st = IF d.remaining = 1 THEN "DataCRLF" ELSE "Data"]

DataEndByte(d, line) ==
  IF Len(line) < 2 THEN [d EXCEPT !.line = line]
  ELSE IF line = CRLF THEN [d EXCEPT !.line = <<>>, !.st = "Size"] ELSE Fail(d)

\* One byte of the loop of feed(); a stopped decoder takes none.
Step(d, line, c) ==
  CASE d.st = "Size" -> SizeByte(d, line)
    [] d.st = "Data" -> DataByte(d, c)
    [] d.st = "DataCRLF" -> DataEndByte(d, line)
    [] d.st = "Trailer" -> TrailerByte(d, line)
DecodeByte(d, c) ==
  IF Stopped(d) THEN d ELSE Step([d EXCEPT !.consumed = d.consumed + 1], Append(d.line, c), c)

\* ChunkDecoder::feed; a call that fails leaves the count of bytes taken as it was.
Taken(d, fed) == IF fed.st = "Error" THEN [fed EXCEPT !.consumed = d.consumed] ELSE fed
Feed(d, in) == Taken(d, FoldLeft(DecodeByte, d, in))

-----------------------------------------------------------------------------
(* ResponseFramer: one response read across many reads of one buffer. *)

NoHead == NeedMore
NewFramer == [head |-> NoHead, dec |-> NewDecoder, fed |-> 0]
HaveHead(f) == f.head.status = "Complete"

\* ResponseFramer::head: parsed until it is whole, cached from then on.
FramerHead(f, buf, headRequest) ==
  IF HaveHead(f) THEN f ELSE [f EXCEPT !.head = ParseResponseHead(buf, headRequest)]

Message(status, body, total) == [status |-> status, body |-> body, totalLen |-> total]

Unfed_Rescan(f, after) == after
\* The body bytes a call of frame_response_body hands to the decoder.
Unfed(f, after) == From(after, f.fed + 1)
Framed(framer, status, body, total) == [framer |-> framer, msg |-> Message(status, body, total)]

\* frame_response_body: the framer after the call, and the message it reports.
FedTo(f, dec) == [f EXCEPT !.dec = dec, !.fed = IF dec = f.dec THEN @ ELSE dec.consumed]
FrameChunked(f, h, dec) ==
  CASE dec.st = "Error" \/ Len(dec.out) > MaxBodyLen -> Framed(f, "Error", <<>>, 0)
    [] dec.st = "Done" /\ Len(dec.out) <= MaxBodyLen ->
         Framed(FedTo(f, dec), "Complete", dec.out, h.headerLen + dec.consumed)
    [] OTHER -> Framed(FedTo(f, dec), "NeedMore", <<>>, 0)

FrameSized(f, buf, from, end) ==
  IF Len(buf) < end THEN Framed(f, "NeedMore", <<>>, 0)
  ELSE Framed(f, "Complete", SubSeq(buf, from + 1, end), end)

FrameHeaded(f, h, buf, after) ==
  CASE h.code < 200 \/ h.body = "UntilClose" -> Framed(f, "Error", <<>>, 0)
    [] h.code >= 200 /\ h.body \in {"None", "Length"} ->
         FrameSized(f, buf, h.headerLen, h.headerLen + (IF h.body = "Length" THEN h.contentLength ELSE 0))
    [] h.code >= 200 /\ h.body = "Chunked" ->
         FrameChunked(f, h, IF f.dec.st # "Done" /\ f.fed < Len(after) THEN Feed(f.dec, Unfed(f, after)) ELSE f.dec)

FrameBody(f, buf) == FrameHeaded(f, f.head, buf, From(buf, f.head.headerLen + 1))

\* ResponseFramer::reset, between two responses on a pooled connection.
Reset(f) == NewFramer
-----------------------------------------------------------------------------
(* The head lines a relayed response keeps (net/http_write.hpp). *)

\* relayed: one header for each of its tests, a field and a family matched by its name.
Relayed(h) ==
  \/ h.field \in {"Retry-After", "Requests-Remaining"}
  \/ h.field = "Other" /\ h.name = <<"x-ratelimit-reset">>

Clean(value) == ToSet(value) \intersect {"CR", "LF", "CTL"} = {}

\* append_relayed: ownBody when the body sent on is the upstream's own.
AppendRelayed(head, ownBody) ==
  LET own(h) == ownBody /\ h.field \in {"Content-Type", "Content-Encoding"}
  IN  SelectSeq(WalkHeaders(head).lines, LAMBDA h : (own(h) \/ Relayed(h)) /\ Clean(h.value))

=============================================================================
