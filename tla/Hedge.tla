------------------------------- MODULE Hedge -------------------------------
(***************************************************************************)
(* A hedged request (core/hedge.cpp): the request goes to several venues   *)
(* at once, one leg each, and the first leg with an answer serves the      *)
(* client.  A leg is a client connection with no socket                    *)
(* (io/shadow_io.cpp), run by the lifecycle of any other request           *)
(* (core/client.cpp, core/stream.cpp, core/upstream.cpp, core/sweep.cpp),  *)
(* so the handlers below take a connection i, where 0 is the client and    *)
(* 1..Legs its legs, the decision's own first.                             *)
(*                                                                         *)
(* The engine is one thread: a handler is one step, an operator from the   *)
(* engine's state s to the SET of states it may leave, one for each answer *)
(* of the pool, the kernel and the client's socket; only spawn_hedge's     *)
(* loop is a step for each leg, and nothing else runs until it is over.    *)
(* Venue connection i is the one leg i acquired; the winner's goes on with *)
(* the client.                                                             *)
(***************************************************************************)
EXTENDS Integers, Sequences

CONSTANTS
  Legs,        \* legs of a request, the decision's own included
  MaxTokens    \* tokens a venue streams

ASSUME LegsAssumption == Legs \in Nat \ {0, 1}

VARIABLE s

Leg == 1 .. Legs
Conns == 0 .. Legs

\* ReqState, as much of it as a hedge reads. leg: whose request this is, 0 the client's own.
NewReq(leg) ==
  [leg |-> leg, phase |-> "Idle", streaming |-> FALSE, ended |-> FALSE, token |-> FALSE,
   sunk |-> FALSE, won |-> FALSE, cut |-> FALSE, failed |-> FALSE]
\* ClientConn. up: its venue connection, 0 none. of: hedge_of is set. owes: bytes the
\* kernel has not taken are still owed.
NewConn(i) ==
  [open |-> i = 0, req |-> NewReq(i), out |-> <<>>, owes |-> FALSE, up |-> 0, closing |-> FALSE, of |-> FALSE]
\* UpstreamConn. st: none, dialing, ready, pooled, closed. stale: pooled before, its retry unspent.
NoUp == [st |-> "none", stale |-> FALSE, reset |-> FALSE, tokens |-> 0]

Init ==
  s = [conn |-> [i \in Conns |-> NewConn(i)],
       legs |-> {},                         \* hedge_legs, those not null
       waiting |-> FALSE,                   \* hedge_open
       ups |-> [i \in Leg |-> NoUp],
       recs |-> [i \in Conns |-> 0],        \* records of each leg, and of the client's own request
       seen |-> <<>>,                       \* what the client has read
       left |-> FALSE,                      \* the client's connection was lost in mid-request
       turn |-> 0]                          \* the leg spawn_hedge's loop sends next, 0 outside it

\* Handlers one after another: each takes the states the one before it left.
Then(S, F(_)) == UNION {F(t) : t \in S}
Item(leg, kind) == [leg |-> leg, kind |-> kind]

-----------------------------------------------------------------------------
(* Leaves: the venue connection, a record, the bytes staged. *)

Unpair(t, i) == [t EXCEPT !.conn[i].up = 0]
CloseUp(t, u) == IF u = 0 THEN t ELSE [t EXCEPT !.ups[u].st = "closed"]
DropUp(t, i) == CloseUp(Unpair(t, i), t.conn[i].up)
\* release_upstream: the pool takes it, or it is closed.
Release(t, i, keep) ==
  [Unpair(t, i) EXCEPT !.ups[t.conn[i].up].st = IF keep /\ ~ t.ups[t.conn[i].up].reset THEN "pooled" ELSE "closed"]
Stage(t, i, kind) == [t EXCEPT !.conn[i].out = Append(@, Item(t.conn[i].req.leg, kind)), !.conn[i].owes = TRUE]
SinkEmit(t, i) == [t EXCEPT !.recs[t.conn[i].req.leg] = @ + 1, !.conn[i].req.sunk = TRUE]
SinkUnlessSunk(t, i) == IF t.conn[i].req.sunk THEN t ELSE SinkEmit(t, i)

\* The client's socket takes all that is staged, leaves some of it queued, or fails.
Wrote(c) == [c EXCEPT !.out = <<>>, !.owes = FALSE]
SendDone(t) == [t EXCEPT !.seen = @ \o t.conn[0].out, !.conn[0] = Wrote(@)]

-----------------------------------------------------------------------------
(* A leg that goes: close_shadow up to its last test, cut_leg, settle_hedge. *)

Unlinked(c) == [c EXCEPT !.open = FALSE, !.of = FALSE]
ForgetLeg(t, i) == [DropUp(t, i) EXCEPT !.conn[i] = Unlinked(@), !.legs = @ \ {i}]
ShadowRecord(t, i) ==
  IF t.conn[i].req.sunk \/ t.conn[i].req.phase = "Idle" THEN t ELSE SinkEmit(t, i)
Buried(t, i) == IF t.conn[i].open THEN ForgetLeg(ShadowRecord(t, i), i) ELSE t

\* cut_leg, and settle_hedge: every leg still linked is cut, its venue reset and closed.
CutUp_Quiet(up) == [up EXCEPT !.st = "closed"]
CutUp(up) == [up EXCEPT !.st = "closed", !.reset = TRUE]
CutConn(c) == [c EXCEPT !.req.cut = TRUE, !.req.sunk = TRUE, !.open = FALSE, !.of = FALSE, !.up = 0]
CutRecords(t, i) == IF t.conn[i].req.sunk \/ t.conn[i].req.phase = "Idle" THEN 0 ELSE 1
Settle(t) ==
  [t EXCEPT !.waiting = FALSE, !.legs = {},
            !.recs = [i \in Conns |-> IF i \in t.legs THEN @[i] + CutRecords(t, i) ELSE @[i]],
            !.ups = [u \in Leg |-> IF \E i \in t.legs : t.conn[i].up = u THEN CutUp(@[u]) ELSE @[u]],
            !.conn = [i \in Conns |-> IF i \in t.legs THEN CutConn(@[i]) ELSE @[i]]]

\* adopt_leg: the leg's request, its venue and what it staged become the client's.
Adopter(c, d) ==
  [c EXCEPT !.req = [d.req EXCEPT !.won = TRUE], !.closing = d.closing, !.out = @ \o d.out, !.owes = TRUE, !.up = d.up]
Emptied(d, c) ==
  [d EXCEPT !.req = [c.req EXCEPT !.sunk = TRUE], !.out = <<>>, !.owes = FALSE, !.up = 0, !.of = FALSE]
Swapped(t, i) ==
  [t EXCEPT !.legs = @ \ {i},
            !.conn = [@ EXCEPT ![0] = Adopter(t.conn[0], t.conn[i]), ![i] = Emptied(t.conn[i], t.conn[0])]]
Closed(t, i) == [t EXCEPT !.conn[i].open = FALSE]      \* the emptied leg: no venue, no record
Adopted(t, i) == Then({Swapped(t, i)}, LAMBDA a : {Settle(Closed(a, i))})
LegAlone(t, i) == t.legs \subseteq {i}
\* A leg judges itself where a reply would go out, while its client waits.
Judging(t, i) == i # 0 /\ t.conn[i].of /\ t.waiting

-----------------------------------------------------------------------------
(* The client's connection: closed, finished, answered. *)

\* sink_unfinished: a hedged request is recorded leg by leg, so only one refused before
\* any leg was made is recorded here.
Hedged(t) == t.waiting \/ t.conn[0].req.leg # 0 \/ \E i \in Leg : t.recs[i] > 0
SinkUnfinished(t) ==
  IF Hedged(t) \/ t.conn[0].req.sunk \/ t.conn[0].req.phase = "Idle" THEN t ELSE SinkEmit(t, 0)
\* forget, and the backend's close.
Shut(c) == [c EXCEPT !.open = FALSE, !.out = <<>>, !.owes = FALSE]
CloseClient(t) ==
  IF ~ t.conn[0].open THEN t
  ELSE LET gone == [DropUp(SinkUnfinished(t), 0) EXCEPT !.conn[0] = Shut(@)]
       IN IF t.waiting THEN Settle(gone) ELSE gone
AbortClient(t) == [CloseClient(t) EXCEPT !.left = TRUE]
FinishClient(t) ==
  LET over == [SinkUnlessSunk(t, 0) EXCEPT !.conn[0].req.phase = "Idle"]
  IN IF t.conn[0].closing THEN CloseClient(over) ELSE over
RespondClient(t) == Then({SendDone(t)}, LAMBDA d : {FinishClient(d)}) \union {t, AbortClient(t)}
\* error_respond: our own reply, unless one was already begun.
Owning(c) == [c EXCEPT !.req.phase = "Replying", !.req.failed = TRUE, !.closing = TRUE]
ReplyOwn(t, i) == [Stage(DropUp(t, i), i, "own") EXCEPT !.conn[i] = Owning(@)]
Begun(t, i) == t.conn[i].req.phase \in {"Streaming", "Replying"} \/ t.conn[i].owes
ErrorRespondClient(t) ==
  IF ~ t.conn[0].open THEN {t} ELSE IF Begun(t, 0) THEN {AbortClient(t)} ELSE Then({ReplyOwn(t, 0)}, RespondClient)

-----------------------------------------------------------------------------
(* A leg's connection: the same handlers, through the seam. *)

\* close_shadow: the last leg gone with nothing to show is the gateway's 502.
LastGone_Recorded(t) == [t EXCEPT !.waiting = FALSE]
LastGone(t) == [t EXCEPT !.waiting = FALSE, !.conn[0].req.sunk = TRUE]
CloseShadow_Silent(t, i) == {Buried(t, i)}
CloseShadow(t, i) ==
  IF t.conn[i].open /\ Judging(t, i) /\ LegAlone(t, i) THEN Then({LastGone(Buried(t, i))}, ErrorRespondClient)
  ELSE {Buried(t, i)}
Abort(t, i) == IF i = 0 THEN {AbortClient(t)} ELSE CloseShadow(t, i)

Finished(c) == [c EXCEPT !.req.phase = "Idle", !.out = <<>>]
FinishLeg(t, i) ==
  Then({[SinkUnlessSunk(t, i) EXCEPT !.conn[i] = Finished(@)]},
       LAMBDA d : CloseShadow(d, i))
Respond_AnyStatus(t, i) ==
  IF i = 0 THEN RespondClient(t) ELSE IF Judging(t, i) THEN Then(Adopted(t, i), RespondClient) ELSE FinishLeg(t, i)
Respond(t, i) ==
  IF i = 0 THEN RespondClient(t)
  ELSE IF Judging(t, i) /\ (~ t.conn[i].req.failed \/ LegAlone(t, i)) THEN Then(Adopted(t, i), RespondClient)
  ELSE FinishLeg(t, i)
ErrorRespond(t, i) ==
  IF i = 0 THEN ErrorRespondClient(t) ELSE IF Begun(t, i) THEN CloseShadow(t, i)
  ELSE Then({ReplyOwn(t, i)}, LAMBDA r : Respond(r, i))

\* finalize_stream: the venue's connection is pooled or closed, the stream recorded.
Released(t, i, keep) == IF t.conn[i].up = 0 THEN t ELSE Release(t, i, keep /\ ~ t.conn[i].closing)
StreamOver(c) == [c EXCEPT !.req.phase = "Idle", !.req.streaming = FALSE]
Finalized(t, i) ==
  IF i # 0 THEN CloseShadow(t, i)
  ELSE IF t.conn[0].closing THEN {CloseClient(t)}
  ELSE {[t EXCEPT !.conn[0] = StreamOver(@)]}
Finalize(t, i) ==
  Then({SinkUnlessSunk(Released(t, i, keep), i) : keep \in BOOLEAN}, LAMBDA d : Finalized(d, i))
FlushClient(t) ==
  {t, AbortClient(t)} \union
  Then({SendDone(t)}, LAMBDA d : IF d.conn[0].req.ended THEN Finalize(d, 0) ELSE {d})
\* stream_flush: a leg holds its bytes until its first token, or its end if no other is left.
LegSent(t, i) == [t EXCEPT !.conn[i] = Wrote(@)]
StreamFlush(t, i) ==
  IF i = 0 THEN FlushClient(t)
  ELSE LET f == t.conn[i].req
       IN IF Judging(t, i) /\ ~ f.token /\ ~ f.ended THEN {t}
          ELSE IF Judging(t, i) /\ (f.token \/ LegAlone(t, i)) THEN Then(Adopted(t, i), FlushClient)
          ELSE Then({LegSent(t, i)}, LAMBDA d : IF f.ended THEN Finalize(d, i) ELSE {d})
Cropped(c) == [c EXCEPT !.req.ended = TRUE, !.closing = TRUE]
Truncated(t, i) == [t EXCEPT !.conn[i] = Cropped(@)]

-----------------------------------------------------------------------------
(* dispatch and spawn_hedge. *)

\* A leg's attempt: refused or out of connections, on a fresh connection, or on a pooled one.
Attempt(c, i) == [c EXCEPT !.up = i, !.req.phase = "Dispatched"]
Paired(t, i, up) == [t EXCEPT !.ups[i] = up, !.conn[i] = Attempt(@, i)]
Dispatch(t, i) ==
  Then({[t EXCEPT !.conn[i].req.phase = "Dispatched"]}, LAMBDA d : ErrorRespond(d, i))
  \union {Paired(t, i, [NoUp EXCEPT !.st = "dialing"]), Paired(t, i, [NoUp EXCEPT !.st = "ready", !.stale = TRUE])}

\* spawn_hedge: every leg is made and linked before any is sent, each by a turn of its loop.
Linked(t) ==
  [t EXCEPT !.conn = [i \in Conns |-> IF i = 0 THEN [t.conn[0] EXCEPT !.req.phase = "Dispatched"]
                                      ELSE [t.conn[i] EXCEPT !.open = TRUE, !.of = TRUE]],
            !.legs = Leg, !.waiting = TRUE, !.turn = 1]
Turned(t) == [t EXCEPT !.turn = IF @ = Legs THEN 0 ELSE @ + 1]
SendLeg ==
  /\ s.turn # 0
  /\ s' \in Then(IF s.conn[s.turn].open THEN Dispatch(s, s.turn) ELSE {s}, LAMBDA t : {Turned(t)})

\* apply_hedge: the legs are checked, key and overrides, before any is sent; one unusable
\* leg is a 500 and an ordinary request's record.
Fresh(t) ==
  [t EXCEPT !.conn = [i \in Conns |-> IF i = 0 THEN [t.conn[0] EXCEPT !.req = NewReq(0)] ELSE NewConn(i)],
            !.ups = [i \in Leg |-> NoUp], !.recs = [i \in Conns |-> 0], !.seen = <<>>]
ApplyHedge(t, usable) == IF usable = Leg THEN {Linked(t)} ELSE ErrorRespondClient(t)

\* A request decided for several venues, its body whole: on a connection that owes nothing.
Ask ==
  /\ s.conn[0].open /\ s.conn[0].req.phase = "Idle"
  /\ \E usable \in SUBSET Leg : s' \in Then({Fresh(s)}, LAMBDA t : ApplyHedge(t, usable))

-----------------------------------------------------------------------------
(* What the venues do. Holder(i, st): connection i has a venue connection in state st. *)

Holder(i, st) == s.conn[i].open /\ s.conn[i].up # 0 /\ s.ups[s.conn[i].up].st = st
Streams(i) == Holder(i, "ready") /\ s.conn[i].req.streaming
Awaits(i) == Holder(i, "ready") /\ s.conn[i].req.phase = "Dispatched"

Connected(i) == Holder(i, "dialing") /\ s' = [s EXCEPT !.ups[s.conn[i].up].st = "ready"]
\* on_connect_error, and the sweep's connect deadline.
ConnectFails(i) == Holder(i, "dialing") /\ s' \in Then({DropUp(s, i)}, LAMBDA t : ErrorRespond(t, i))

\* upstream_lost: a stale connection is retried once, on a fresh one to the same venue.
Retry(t, i) == [t EXCEPT !.ups[t.conn[i].up] = [NoUp EXCEPT !.st = "dialing"]]
Lost(i) ==
  /\ Awaits(i)
  /\ \/ s' \in ErrorRespond(s, i)                    \* not retryable, or the retry cannot dial
     \/ s.ups[s.conn[i].up].stale /\ s' = Retry(s, i)

\* on_response: a whole reply, a success or not, and whether its connection may be pooled.
Answered(c, ok) == [c EXCEPT !.req.phase = "Replying", !.req.failed = ~ ok]
Replied(t, i, ok, keep) ==
  [Stage(Release(t, i, keep), i, IF ok THEN "ok" ELSE "bad") EXCEPT !.conn[i] = Answered(@, ok)]
Reply(i) ==
  /\ Awaits(i)
  /\ s' \in Then({Replied(s, i, ok, keep) : ok, keep \in BOOLEAN}, LAMBDA t : Respond(t, i))
\* One that cannot be framed, or cannot be translated, which leaves its connection good.
BadReply(i) ==
  /\ Awaits(i)
  /\ \/ s' \in ErrorRespond(s, i)
     \/ s' \in Then({Release(s, i, keep) : keep \in BOOLEAN}, LAMBDA t : ErrorRespond(t, i))

Began(c) == [c EXCEPT !.req.phase = "Streaming", !.req.streaming = TRUE]
BeginStream(i) ==
  /\ Awaits(i)
  /\ s' \in Then({[Stage(s, i, "head") EXCEPT !.conn[i] = Began(@)]}, LAMBDA t : StreamFlush(t, i))
Token(i) ==
  /\ Streams(i) /\ ~ s.conn[i].req.ended /\ s.ups[s.conn[i].up].tokens < MaxTokens
  /\ s' \in Then({[Stage(s, i, "token") EXCEPT !.conn[i].req.token = TRUE, !.ups[s.conn[i].up].tokens = @ + 1]},
                  LAMBDA t : StreamFlush(t, i))
StreamEnd(i) ==
  /\ Streams(i) /\ ~ s.conn[i].req.ended
  /\ s' \in Then({[Stage(s, i, "done") EXCEPT !.conn[i].req.ended = TRUE]}, LAMBDA t : StreamFlush(t, i))
Corrupt(i) ==
  /\ Streams(i) /\ ~ s.conn[i].req.ended
  /\ s' \in Then({Truncated(s, i)}, LAMBDA t : StreamFlush(t, i))
\* stream_on_upstream_eof: the end, if the framing allows, and a truncation if it does not.
StreamEof(i) ==
  /\ Streams(i)
  /\ LET ends == IF s.conn[i].req.ended THEN {s}
                 ELSE {[s EXCEPT !.conn[i].req.ended = TRUE], Truncated(s, i)}
     IN s' \in Then({DropUp(t, i) : t \in ends}, LAMBDA t : StreamFlush(t, i))
\* A failed TLS session, or a stream past its cap.
StreamAborts(i) == Streams(i) /\ s' \in Abort(s, i)

\* sweep_client's idle deadline: on each leg its own, on a waiting client none.
Silent(i) ==
  /\ s.conn[i].open /\ ~ (i = 0 /\ s.waiting)
  /\ s.conn[i].up # 0 \/ s.conn[i].req.streaming
  /\ s' \in IF s.conn[i].req.streaming THEN Then({Truncated(s, i)}, LAMBDA t : Abort(t, i)) ELSE ErrorRespond(s, i)

\* The client's socket takes more, or its end comes, or it idles past its deadline.
Drains ==
  /\ s.conn[0].open /\ s.conn[0].owes /\ ~ s.waiting
  /\ s' \in IF s.conn[0].req.streaming THEN FlushClient(s) ELSE RespondClient(s)
ClientGone ==
  /\ s.conn[0].open
  /\ s' = IF s.conn[0].req.phase = "Idle" THEN CloseClient(s) ELSE AbortClient(s)

VenueStep(i) ==
  \/ Connected(i) \/ ConnectFails(i) \/ Lost(i) \/ Reply(i) \/ BadReply(i)
  \/ BeginStream(i) \/ Token(i) \/ StreamEnd(i) \/ Corrupt(i) \/ StreamEof(i) \/ StreamAborts(i)
\* One handler at a time: nothing else runs until spawn_hedge has sent every leg.
Handler == Ask \/ Drains \/ ClientGone \/ \E i \in Conns : VenueStep(i) \/ Silent(i)
Next == SendLeg \/ (s.turn = 0 /\ Handler)

Spec == Init /\ [][Next]_s

\* spawn_hedge's loop runs to its end, and the sweep runs on every tick of the engine's, so a
\* venue that stays silent meets its deadline.
FairSpec == Spec /\ WF_s(SendLeg) /\ \A i \in Conns : WF_s(s.turn = 0 /\ Silent(i))

-----------------------------------------------------------------------------
(* Properties. *)

Winner == s.conn[0].req.leg
Read == s.seen \o s.conn[0].out
\* The client reads the reply of ONE leg, or the gateway's own 502: never bytes of two
\* legs, whichever leg answered, failed or was cut while another was mid-reply. And it is
\* told of a failure only when no leg could still have answered: none was cut for it.
OneServes ==
  /\ \A k \in 1 .. Len(Read) : Read[k].leg = Winner
  /\ (\E k \in 1 .. Len(Read) : Read[k].kind \in {"own", "bad"}) =>
        \A i \in Leg : ~ s.conn[i].req.cut

\* Once the race is decided no leg runs on: each is closed and unlinked, a cut leg's venue
\* connection was reset and never pooled, and every connection still held is the winner's.
LegsSettled ==
  ~ s.waiting =>
    /\ s.legs = {}
    /\ \A i \in Leg :
         /\ ~ s.conn[i].open
         /\ s.ups[i].st \in {"dialing", "ready"} => s.conn[0].open /\ s.conn[0].up = i /\ Winner = i
         /\ s.conn[i].req.cut /\ s.ups[i].st # "none" => s.ups[i].reset /\ s.ups[i].st = "closed"

\* Each leg leaves one record once it is gone, and the client's own request none,
\* unless it was refused before a leg was made; the winner's comes when the client has its
\* answer. A winner whose client is lost is left out here: EveryLegRecorded is about it.
LegsRecorded ==
  /\ s.recs[0] <= IF \E i \in Leg : s.recs[i] > 0 \/ s.ups[i] # NoUp THEN 0 ELSE 1
  /\ \A i \in Leg :
       /\ s.recs[i] <= 1
       /\ i # Winner /\ s.ups # [j \in Leg |-> NoUp] /\ i \notin s.legs => s.recs[i] = 1
       /\ i = Winner /\ s.conn[0].req.phase = "Idle" => s.recs[i] = 1

\* A client never waits on a race that cannot end: some leg's answer, the last one's
\* failure, or the sweep's deadline on each settles it.
WaitEnds == s.waiting ~> ~ s.waiting

\* "Records. One per leg" (GATEWAY-INTERNALS.md 13); "Every leg leaves a record, whatever
\* ended it" (close_shadow): when nothing of the request is left, each leg has its record.
EveryLegRecorded ==
  s.left /\ s.recs[0] = 0 => \A i \in Leg : s.recs[i] = 1
=============================================================================
