----------------------------- MODULE BodyStream -----------------------------
(***************************************************************************)
(* A request body forwarded to its venue as it arrives, or parked to its   *)
(* last byte (core/body.cpp), with the decision taken on its head and      *)
(* confirmed on the whole (core/client.cpp), the failover and the stale    *)
(* retry of a request that is half sent (core/upstream.cpp), and the rest  *)
(* of a body that nobody needs any more.                                   *)
(*                                                                         *)
(* One client connection carries one request with a body and then another  *)
(* request.  The head is in at once; the body arrives cut anywhere.  The   *)
(* engine is one thread, so a handler is one step: an operator from the    *)
(* connection c to the SET of connections it may leave, one for each       *)
(* answer of the policy, the pool and the kernel it asks on the way.       *)
(***************************************************************************)
EXTENDS Integers, Sequences, SequencesExt, FiniteSetsExt

CONSTANTS
  MaxDepth, MaxNodes, MaxKeys,  \* limits of Json and BodyScan
  MaxFailovers,                 \* kMaxFailoverAttempts
  Cases,                        \* the requests: [body, kind, policy, sink, hold, prefix]
  Decisions,                    \* what a policy may answer: [venue, model, sub, for, mem]
  Venues,                       \* 0 is the default
  Translating,                  \* of them, those that take another dialect
  MaxRead                       \* symbols one read delivers, or all that are left

T == INSTANCE JsonScan

VARIABLES
  req,        \* the client's request: a member of Cases
  arrived,    \* symbols of its body, and of the request after it, that have come in
  c           \* the client connection, with its request and its venue

vars == <<req, arrived, c>>

NextText == <<"N1", "N2">>          \* the request after this one
ClientText == req.body \o NextText
BodyLen == Len(req.body)

NoUp == [venue |-> -1]
Plain == [venue |-> 0, model |-> <<>>, sub |-> <<>>, for |-> <<>>, mem |-> <<>>]
Deny == [Plain EXCEPT !.venue = -2]

-----------------------------------------------------------------------------
(* State. *)

New ==
  [phase |-> "Idle", slot |-> -1, streaming |-> FALSE, parked |-> FALSE, inRbuf |-> FALSE, parts |-> FALSE,
   scanned |-> FALSE, scan |-> T!B!NewScan(FALSE, FALSE, {}), sent |-> 0,
   onHead |-> FALSE, confirm |-> FALSE, splice |-> FALSE, tracked |-> FALSE, members |-> {},
   model |-> <<>>, d |-> Plain, saved |-> FALSE, attempts |-> 0,
   rbuf |-> <<>>, want |-> 0, discard |-> 0, closeOnDrain |-> FALSE, closeAfter |-> FALSE, closed |-> FALSE,
   up |-> NoUp, inCap |-> 0,
   \* Bookkeeping of the model: the decision a whole body must be sent by, how the
   \* confirm went, what venues hold whole, and what the next request was framed from.
   by |-> Plain, outcome |-> "None", whole |-> {}, next |-> <<>>]

Init ==
  /\ req \in Cases
  /\ arrived = 0
  /\ c = New

\* body_so_far.
SoFar(s) == SubSeq(s.rbuf, 1, Min({Len(s.rbuf), BodyLen}))
Json == req.kind # "text"
OpenAi == req.kind # "anthropic"
Overrides(d) == IF d.model = <<>> THEN d.mem ELSE [k \in {"m"} \union DOMAIN d.mem |-> IF k = "m" THEN d.model ELSE d.mem[k]]
SpliceOf(s) == [model |-> s.d.sub, for |-> s.d.for, members |-> s.d.mem]
VenueStreams(v) == v \notin Translating

-----------------------------------------------------------------------------
(* The venue's connection: what it has been sent of a request declared so long. *)

\* The venue holds the whole request.
Delivered(s) ==
  IF Len(s.up.got) < s.up.declared THEN s
  ELSE [s EXCEPT !.whole = @ \union {[venue |-> s.up.venue, text |-> s.up.got, by |-> s.by, translated |-> s.up.translated]}]
\* send_upstream: what is staged goes once the connection is up.
SendUpstream(s) ==
  IF s.up = NoUp \/ ~ s.up.connected THEN s
  ELSE Delivered([s EXCEPT !.up.got = @ \o s.up.staged, !.up.staged = <<>>])
Unpair(s) == [s EXCEPT !.up = NoUp]

\* stop_body: the slot of a streamed body is given back once.
StopBody(s) == IF s.streaming THEN [s EXCEPT !.streaming = FALSE, !.inCap = @ - 1] ELSE s
CutBody(s) == Unpair(StopBody(s))

\* end_body_stream: the rest of the body will be dropped as it arrives.
EndBodyStream(s) ==
  [StopBody(s) EXCEPT !.discard = @ + (BodyLen - Len(SoFar(s))),
                      !.rbuf = SubSeq(@, Len(SoFar(s)) + 1, Len(@)), !.inRbuf = FALSE, !.parked = FALSE]

\* error_respond: our own reply, after which the connection closes, unless it is kept.
ErrorRespond(s, keep) ==
  IF s.phase = "Replying" THEN {[CutBody(s) EXCEPT !.closed = TRUE]}
  ELSE {[CutBody(s) EXCEPT !.parked = FALSE, !.phase = "Replying", !.closeAfter = ~ keep]}
RefuseBody(s) == ErrorRespond(EndBodyStream(CutBody(s)), FALSE)

-----------------------------------------------------------------------------
(* dispatch: one attempt. *)

RECURSIVE Dispatch(_)

\* take_request: the original is kept for a failover, at most once.
TakeRequest(s) ==
  IF s.inRbuf THEN s
  ELSE [s EXCEPT !.rbuf = SubSeq(@, BodyLen + 1, Len(@)),
                 !.saved = @ \/ (req.policy /\ Cardinality(Venues) >= 2)]

\* upstream_failed: the attempt goes to another venue as it is, parks, or ends.
CanStream(s) ==
  /\ s.d.model = <<>>
  /\ DOMAIN s.d.mem \subseteq s.members
  /\ s.d.sub = <<>> \/ s.tracked
  /\ VenueStreams(s.slot)
Parked(s) == [StopBody(s) EXCEPT !.parked = TRUE, !.splice = FALSE]
PutBack(s) == IF s.inRbuf THEN s ELSE [s EXCEPT !.rbuf = req.body \o @]
FailOver(s) == IF s.inRbuf /\ s.streaming /\ ~ CanStream(s) THEN {Parked(s)} ELSE Dispatch(PutBack(s))
Retryable(s) ==
  /\ Cardinality(Venues) >= 2
  /\ s.phase = "Dispatched"
  /\ s.saved \/ s.inRbuf
  /\ s.attempts < MaxFailovers - 1
\* failover_target: the retries a policy may answer with.
Retries(s) ==
  IF ~ req.policy \/ s.parked \/ s.phase \notin {"Dispatched", "Responding"} \/ ~ Retryable(s) THEN {}
  ELSE {r \in Decisions : r.venue # s.slot}
Retried(s, r) == [Unpair(s) EXCEPT !.attempts = @ + 1, !.slot = r.venue, !.d = r, !.by = r]
FailRequest(s) == ErrorRespond(s, FALSE) \union UNION {FailOver(Retried(s, r)) : r \in Retries(s)}

\* forward_parts: the head's declared length, and the body so far.
Declared(s) == BodyLen + (IF s.splice THEN T!Grow(SpliceOf(s)) ELSE 0)
Part(s, from, to) ==
  IF s.splice THEN T!SpliceAppend(SpliceOf(s), SoFar(s), from, to, BodyLen, s.scan)
  ELSE SubSeq(SoFar(s), from + 1, to)
Parts(s) == [text |-> Part(s, 0, s.sent), declared |-> Declared(s), translated |-> FALSE]

\* acquire_upstream, and the request handed to what it found.
Conn(s, built, pooled) ==
  [venue |-> s.slot, pooled |-> pooled, retried |-> FALSE, connected |-> pooled, got |-> <<>>, staged |-> built.text,
   declared |-> built.declared, translated |-> built.translated]
Acquired(s, built) ==
  {SendUpstream([TakeRequest(s) EXCEPT !.up = Conn(s, built, pooled)]) : pooled \in BOOLEAN}
    \union FailRequest(TakeRequest(s))
    \union ErrorRespond([s EXCEPT !.rbuf = IF s.saved THEN SubSeq(@, BodyLen + 1, Len(@)) ELSE @], FALSE)
Sent(s, built) == Acquired([s EXCEPT !.phase = "Dispatched", !.parts = s.streaming], built)

\* A streamed body goes as far as it is known good, the last byte not before its confirm.
Unconfirmed(s, safe) == IF s.confirm /\ safe = BodyLen THEN safe - 1 ELSE safe
Scanned(s) ==
  IF s.scanned THEN [s EXCEPT !.scan = T!B!Feed(@, SoFar(s), Len(SoFar(s)) = BodyLen)] ELSE s
SafeOf(s) == IF s.scanned THEN T!B!Safe(s.scan) ELSE Len(SoFar(s))
StreamedAt(s) == Sent(s, Parts(s))
StreamFrom(s) ==
  IF s.scan.verdict = "Refused" THEN RefuseBody(s)
  ELSE StreamedAt([s EXCEPT !.sent = Unconfirmed(s, SafeOf(s)),
                            !.splice = (s.tracked /\ s.d.sub # <<>>) \/ s.d.mem # <<>>])

\* A body sent whole: its model is known, so a substitution is an override.
ResolveSubstitution(s) ==
  IF s.d.sub = <<>> \/ s.d.model # <<>> \/ s.model # s.d.for THEN [s EXCEPT !.splice = FALSE]
  ELSE [s EXCEPT !.splice = FALSE, !.d.model = s.d.sub]
Rewritten(s, r) ==
  IF ~ r.ok THEN ErrorRespond(s, FALSE)
  ELSE Sent(s, [text |-> r.text, declared |-> Len(r.text), translated |-> FALSE])
Translated(s, ok) == IF ok THEN Sent(s, [text |-> <<"X">>, declared |-> 1, translated |-> TRUE]) ELSE ErrorRespond(s, FALSE)
SendWhole(s) ==
  IF s.slot \in Translating THEN Translated(s, T!J!Parse(SoFar(s), {}).ok)
  ELSE Rewritten(s, T!ApplyOverrides(SoFar(s), Overrides(s.d)))
Dispatch(s) == IF s.streaming THEN StreamFrom(Scanned(s)) ELSE SendWhole(ResolveSubstitution(s))

-----------------------------------------------------------------------------
(* The body is whole: the facts, and the decision confirmed. *)

\* capture_model.
KeysBad(body) == OpenAi /\ T!TopLevelFacts(body).keys # "Ok"
Captured(s) == [s EXCEPT !.model = T!ModelOf(SoFar(s))]

Served(s, d) == IF d.model # <<>> THEN d.model ELSE IF d.sub # <<>> /\ s.model = d.for THEN d.sub ELSE <<>>
\* The model the venue gets now.
InForce(s) ==
  IF s.splice THEN IF T!Substitutes(SpliceOf(s), SoFar(s), s.scan) THEN s.d.sub ELSE <<>>
  ELSE IF s.parked THEN Served(s, s.d) ELSE s.d.model
\* client_member: its own value of a member the scan tracked.
ClientMember(s, k) ==
  FoldLeft(LAMBDA v, m : IF m.bit = k THEN SubSeq(SoFar(s), m.valueAt + 2, m.end - 1) ELSE v, <<>>,
           IF k \in s.members THEN s.scan.found ELSE <<>>)
MemberIn(s, mem, k) == IF k \in DOMAIN mem THEN mem[k] ELSE IF s.splice THEN ClientMember(s, k) ELSE <<>>
Same(s, d) ==
  /\ d.venue = s.slot
  /\ Served(s, d) = InForce(s)
  /\ \A k \in T!B!MemberKeys : MemberIn(s, d.mem, k) = MemberIn(s, s.d.mem, k)

\* apply_decision.
Applied(s, d) == [s EXCEPT !.slot = d.venue, !.d = d, !.by = d]
\* dispatch_whole.
DispatchWhole(s) == Dispatch([s EXCEPT !.parked = FALSE])

\* What is left to do after a handler: forward what is safe, or nothing.
Go(s) == [s |-> s, go |-> TRUE]
Over(ss) == {[s |-> s, go |-> FALSE] : s \in ss}
Kept(s) == IF s.parked THEN Over(DispatchWhole(s)) ELSE {Go(s)}
Confirmed_Goes(s, d) ==
  IF d = Deny THEN {Go([s EXCEPT !.outcome = "Refused"])} ELSE Kept([s EXCEPT !.outcome = "Kept", !.by = d])
Confirmed(s, d) ==
  IF d = Deny THEN Over(RefuseBody([s EXCEPT !.outcome = "Refused"]))
  ELSE IF Same(s, d) THEN Kept([s EXCEPT !.outcome = "Kept", !.by = d])
  ELSE Over(DispatchWhole(Applied(CutBody([s EXCEPT !.outcome = "Redone"]), d)))
ConfirmBody(s) == UNION {Confirmed([s EXCEPT !.confirm = FALSE], d) : d \in Decisions \union {Deny}}

\* end_upload: the last byte is in; FALSE when the request has gone another way.  Of a
\* body no policy decided on the facts are the sink's alone, their verdict unread.
EndUpload(s) ==
  IF ~ s.onHead THEN {Go(StopBody(s))}
  ELSE IF KeysBad(SoFar(s)) THEN Over(RefuseBody(StopBody(s)))
  ELSE ConfirmBody(Captured(StopBody(s)))

-----------------------------------------------------------------------------
(* pump_body: more of it came in. *)

ForwardBody_Restart(s, safe) ==
  IF s.up = NoUp \/ safe <= s.sent THEN s
  ELSE SendUpstream([s EXCEPT !.up.staged = @ \o Part(s, 0, safe), !.sent = safe])
ForwardBody(s, safe) ==
  IF s.up = NoUp \/ safe <= s.sent THEN s
  ELSE SendUpstream([s EXCEPT !.up.staged = @ \o Part(s, s.sent, safe), !.sent = safe])
Forwarded(r) == IF r.go THEN ForwardBody(r.s, Unconfirmed(r.s, SafeOf(r.s))) ELSE r.s
Pumped(s) ==
  IF s.scan.verdict = "Refused" THEN RefuseBody(s)
  ELSE {Forwarded(r) : r \in (IF Len(SoFar(s)) = BodyLen THEN EndUpload(s) ELSE {Go(s)})}
PumpBody(s) == Pumped(Scanned(s))

-----------------------------------------------------------------------------
(* try_frame: the request admitted. *)

\* start_body.
Opened(s, forward) ==
  [s EXCEPT !.inRbuf = TRUE, !.tracked = Json /\ forward /\ s.d.sub # <<>>,
            !.members = IF Json /\ forward THEN DOMAIN s.d.mem ELSE {}]
ScanFor(s) ==
  [s EXCEPT !.scanned = Json /\ (OpenAi \/ s.tracked \/ s.members # {}),
            !.scan = T!B!NewScan(OpenAi, s.tracked, s.members)]
StartBody(s, forward) ==
  IF forward THEN Dispatch([ScanFor(Opened(s, TRUE)) EXCEPT !.streaming = TRUE, !.inCap = @ + 1])
  ELSE {[ScanFor(Opened(s, FALSE)) EXCEPT !.parked = TRUE, !.phase = "Dispatched"]}

\* decide_on_head: refused at once, or admitted to stream or to park.
Admitted(s, d, hold) ==
  StartBody(s, /\ ~ hold /\ d.model = <<>>
               /\ d.mem = <<>> \/ Json
               /\ VenueStreams(d.venue))
DecidedOnHead(s, d) ==
  IF d = Deny THEN ErrorRespond(EndBodyStream(s), TRUE) ELSE Admitted(Applied(s, d), d, req.hold)
DecideOnHead(s) ==
  UNION {DecidedOnHead([Captured(s) EXCEPT !.onHead = TRUE, !.confirm = TRUE, !.inRbuf = TRUE], d) : d \in Decisions \union {Deny}}

\* A request in whole before it was admitted.
Held(s) ==
  IF (req.sink \/ req.policy) /\ KeysBad(SoFar(s)) THEN ErrorRespond(s, FALSE)
  ELSE IF ~ req.policy THEN Dispatch([s EXCEPT !.slot = 0])
  ELSE ErrorRespond(s, FALSE) \union UNION {Dispatch(Applied(Captured(s), d)) : d \in Decisions}

Streamable(s) == req.prefix >= 0 /\ Len(s.rbuf) < BodyLen
Framed(s) ==
  IF Len(s.rbuf) >= BodyLen THEN Held([s EXCEPT !.want = 0])
  ELSE IF ~ Streamable(s) THEN {[s EXCEPT !.want = BodyLen]}
  ELSE IF ~ req.policy THEN StartBody([s EXCEPT !.want = 0, !.slot = 0], TRUE)
  ELSE IF Len(s.rbuf) < req.prefix THEN {[s EXCEPT !.want = req.prefix]}
  ELSE DecideOnHead([s EXCEPT !.want = 0])
\* The request after this one is framed from what is in front of it.
Answered(s) == s.slot # -1 \/ s.onHead
TryFrame(s) ==
  IF Answered(s) THEN {[s EXCEPT !.next = s.rbuf]}
  ELSE IF Len(s.rbuf) < s.want THEN {s} ELSE Framed(s)

-----------------------------------------------------------------------------
(* Bytes of the client. *)

\* drop_discard.
Drop(s, n) == [s EXCEPT !.rbuf = SubSeq(@, n + 1, Len(@)), !.discard = @ - n]
Drained(s) == IF s.discard = 0 /\ s.closeOnDrain THEN [s EXCEPT !.closed = TRUE] ELSE s
DropDiscard_All(s) == IF s.discard = 0 THEN s ELSE Drained([s EXCEPT !.rbuf = <<>>, !.discard = 0])
DropDiscard(s) == IF s.discard = 0 THEN s ELSE Drained(Drop(s, Min({s.discard, Len(s.rbuf)})))

Handled(s) ==
  IF s.closed THEN {s}
  ELSE IF s.streaming \/ s.parked THEN PumpBody(s)
  ELSE IF s.phase = "Idle" /\ (s.rbuf # <<>> \/ arrived = 0) THEN TryFrame(s) ELSE {s}
OnClientBytes(s) == Handled(DropDiscard(s))

\* finish: the reply is on the wire.
Finished(s) ==
  IF ~ s.closeAfter THEN OnClientBytes(s)
  ELSE IF s.discard > 0 THEN OnClientBytes([s EXCEPT !.closeOnDrain = TRUE])
  ELSE {[s EXCEPT !.closed = TRUE]}
Finish(s) == Finished([s EXCEPT !.phase = "Idle"])

-----------------------------------------------------------------------------

\* The head alone, or with some of the body; later more of the body and what follows it.
Arrives == 0..MaxRead \union {Len(ClientText) - arrived, BodyLen - arrived}
Arrive(n) ==
  /\ ~ c.closed /\ c.next = <<>>
  /\ n > 0 \/ (arrived = 0 /\ c = New)
  /\ n >= 0 /\ arrived + n <= Len(ClientText)
  /\ arrived' = arrived + n
  /\ c' \in OnClientBytes([c EXCEPT !.rbuf = @ \o SubSeq(ClientText, arrived + 1, arrived + n)])
  /\ UNCHANGED req

Sending == ~ c.closed /\ c.up # NoUp

Connected ==
  /\ Sending /\ ~ c.up.connected
  /\ c' = SendUpstream([c EXCEPT !.up.connected = TRUE])
  /\ UNCHANGED <<req, arrived>>

\* on_connect_error.
Refused ==
  /\ Sending /\ ~ c.up.connected
  /\ c' \in FailRequest(Unpair(c))
  /\ UNCHANGED <<req, arrived>>

\* upstream_lost: a stale pooled connection is retried once, on the same venue.
MayRetry == c.up.pooled /\ ~ c.up.retried /\ c.phase = "Dispatched"
Rebuilt == IF c.parts THEN Parts(c).text ELSE c.up.got \o c.up.staged
Lost ==
  /\ Sending /\ c.up.connected
  /\ \/ MayRetry /\ c' = [c EXCEPT !.up.pooled = FALSE, !.up.retried = TRUE, !.up.connected = FALSE,
                                    !.up.got = <<>>, !.up.staged = Rebuilt]
     \/ c' \in FailRequest(c)
  /\ UNCHANGED <<req, arrived>>

\* on_upstream_bytes: the first byte of a response ends the request's body.
ResponseBegins ==
  /\ Sending /\ c.up.connected /\ c.phase = "Dispatched"
  /\ c' = [IF c.inRbuf THEN EndBodyStream(c) ELSE c EXCEPT !.phase = "Responding"]
  /\ UNCHANGED <<req, arrived>>

\* on_response.
ResponseEnds ==
  /\ Sending /\ c.phase = "Responding"
  /\ c' = [Unpair(c) EXCEPT !.phase = "Replying", !.closeAfter = FALSE]
  /\ UNCHANGED <<req, arrived>>

\* The reply has been written.
Flushed ==
  /\ ~ c.closed /\ c.phase = "Replying"
  /\ c' \in Finish(c)
  /\ UNCHANGED <<req, arrived>>

\* body_timeout.
Slow ==
  /\ ~ c.closed /\ (c.streaming \/ c.parked)
  /\ c' \in ErrorRespond(c, FALSE)
  /\ UNCHANGED <<req, arrived>>

\* forget.
ClientGone ==
  /\ ~ c.closed
  /\ c' = [CutBody(c) EXCEPT !.parked = FALSE, !.closed = TRUE]
  /\ UNCHANGED <<req, arrived>>

Next ==
  \/ \E n \in Arrives : Arrive(n)
  \/ Connected \/ Refused \/ Lost
  \/ ResponseBegins \/ ResponseEnds
  \/ Flushed \/ Slow \/ ClientGone

Spec == Init /\ [][Next]_vars

-----------------------------------------------------------------------------
(* What venues hold. *)

PairsIn(text) == {<<m.key, m.value>> : m \in ToSet(T!ForEachMember(text).members)}
\* The members a decision's venue must be given, from the client's.
NewModel(ps, d) ==
  IF d.model # <<>> THEN d.model
  ELSE IF d.sub # <<>> /\ <<<<"m">>, T!Quoted(d.for)>> \in ps THEN d.sub ELSE <<>>
Replaced(ps, mem, model) ==
  {p \in ps : p[1] \notin {<<k>> : k \in DOMAIN mem} /\ (model # <<>> => p[1] # <<"m">>)}
    \union {<<<<k>>, T!Quoted(mem[k])>> : k \in DOMAIN mem}
    \union (IF model = <<>> THEN {} ELSE {<<<<"m">>, T!Quoted(model)>>})
MeantFor(ps, d) == Replaced(ps, d.mem, NewModel(ps, d))

SentAsDecided(w) ==
  /\ w.venue = w.by.venue
  /\ w.translated \/ (T!J!Parse(w.text, {}).ok = T!J!Parse(req.body, {}).ok
                       /\ PairsIn(w.text) = MeantFor(PairsIn(req.body), w.by))

\* However a body was cut, spliced, parked, resent or failed over, a venue that has all
\* it was promised has the members the decision in force names and every other of the
\* client's, as JSON; the decision in force is the policy's last word on the whole body,
\* confirm's or a later failover's (Splice::append, confirm_body, upstream_failed).
ServedAsDecided == \A w \in c.whole : SentAsDecided(w)

\* prompt_cache_options alone repeats or escapes a key.
OptionsBad(body) == OpenAi /\ T!CheckKeys(T!FirstMember(body, <<"p">>)) # "Ok"

\* No venue ever holds the whole of a body that was not vouched for: one a policy saw
\* only the head of goes whole only after its confirm, one it refused then never does,
\* nor does one whose keys the facts refuse, or that is not JSON, when a scan looks for
\* them; a venue left with less than it was promised runs nothing (pump_body,
\* refuse_body).  The one exception is a streamed body no policy decided on: the scan
\* does not look into prompt_cache_options, and end_upload drops the verdict of the
\* facts, which do (body.cpp:278).
OnlyVouched ==
  c.whole # {} =>
    /\ c.onHead => c.outcome \in {"Kept", "Redone"} /\ ~ c.confirm
    /\ c.scanned =>
         /\ T!B!Feed(T!B!NewScan(OpenAi, FALSE, {}), req.body, TRUE).verdict = "Done"
         /\ KeysBad(req.body) => OptionsBad(req.body) /\ ~ c.onHead

\* "A repeated or escaped key inside `prompt_cache_options` is refused where a sink or
\* policy reads the body" (CHANGELOG.md:378): no venue gets such a body whole.
OptionsRefused == (req.sink \/ req.policy) /\ OptionsBad(req.body) => c.whole = {}

\* Whatever became of the body, answered early, refused or cut, exactly its own bytes
\* are dropped: the next request is framed from its own first byte (end_body_stream,
\* drop_discard).
NextIntact == c.next = <<>> \/ IsPrefix(c.next, NextText)

=============================================================================
