------------------------------ MODULE Lifecycle ------------------------------
(***************************************************************************)
(* A request's life in one worker: framed from a client's buffer, sent to  *)
(* a venue on a pooled or a fresh connection, retried or failed over,      *)
(* answered whole or streamed, recorded, and its two connections reused or *)
(* closed (core/client.cpp, upstream.cpp, stream.cpp, sweep.cpp).          *)
(*                                                                         *)
(* A worker is one event loop: an event's handler and everything it calls  *)
(* run to completion.  `todo' is that call stack: while it is not empty    *)
(* only its head runs, and every event action needs it empty.  What the    *)
(* kernel, the clients and the venues do is the nondeterminism of the      *)
(* events and of each send.                                                *)
(*                                                                         *)
(* Bytes are abstracted to items, each tagged with the request it belongs  *)
(* to.  From a venue: "w" a whole response, "a" then "b" its two halves,   *)
(* "h" a head no framer accepts; "sc", "sl", "se" the head of an event     *)
(* stream whose body is chunked, of a given length, or ended by EOF; then  *)
(* "t" events, "z" the venue's last event and the body's last byte, "y"    *)
(* the body's last byte with the answer unfinished, "e" chunk framing that *)
(* is corrupt, "f" an event the translator refuses; "x" bytes past the     *)
(* response.  To a client: "w", "t" as above, "100" the interim continue,  *)
(* "err" an error reply, "head" a stream's head, "done" its last event,    *)
(* "end" the terminating chunk, "raw" events outside any chunk.            *)
(***************************************************************************)
EXTENDS Naturals, Sequences, SequencesExt, FiniteSets, FiniteSetsExt

CONSTANTS Client,      \* client connections
          Venue,       \* configured upstreams
          FirstVenue,  \* venue 0, the one a gateway without a policy uses
          Translated,  \* the venues whose dialect is not the client's
          NUp,         \* upstream connection slots (never the bound: see Fresh)
          MaxReq,      \* requests a client sends
          MaxTok,      \* events of a stream
          Segment,     \* items one read of a venue's socket may bring
          Kinds,       \* the items venues send
          Versions,    \* the requests' HTTP version and Connection
          Expects,     \* whether clients use Expect: 100-continue
          Policy,      \* whether a policy is installed
          MaxAttempts, \* kMaxFailoverAttempts
          PoolCap,     \* the pool's capacity
          MaxBuffered, \* kMaxClientBuffered, in requests
          PauseAbove,  \* _caps.stream_pause_above, in items
          StreamCap,   \* _caps.stream_cap, in items; 0 for none
          NoClient

ASSUME LifecycleConstants ==
  /\ FirstVenue \in Venue /\ Translated \subseteq Venue
  /\ IsFiniteSet(Client) /\ PoolCap \in Nat
  /\ NUp \in Nat /\ NUp >= Cardinality(Client) + PoolCap + 2
  /\ Client \cap (1..NUp) = {}
  /\ Versions \subseteq {"keep", "keep10", "close"}
  /\ MaxAttempts \in Nat \ {0} /\ MaxReq \in Nat
  /\ NoClient \notin Client

VARIABLES cl,       \* the client connections
          us,       \* the upstream connections
          pool,     \* per venue, the pooled ones, newest first
          todo,     \* the call stack: <<routine, connection>>
          rx,       \* what each client has read, as its own parser sees it
          asks,     \* history: how often a request was staged to a venue
          recs,     \* history: a request's sink records
          answered, \* history: requests some response byte came in for
          fin       \* history: requests whose answer a venue finished

vars == <<cl, us, pool, todo, rx, asks, recs, answered, fin>>
hist == <<rx, asks, recs, answered, fin>>

Up      == 1..NUp
NoUp    == 0
NoReq   == <<NoClient, 0>>
Request == Client \X (1..MaxReq)
Bodies  == {"sc", "sl", "se"}

NewClient ==
  [st |-> "new", rbuf |-> <<>>, sent |-> 0, half |-> FALSE, told |-> FALSE,
   n |-> 0, phase |-> "Idle", up |-> NoUp, slot |-> FirstVenue, saved |-> 0,
   attempts |-> 0, out |-> <<>>, msg |-> "close", closeAfter |-> FALSE,
   streaming |-> FALSE, ended |-> FALSE, terminated |-> FALSE, body |-> "sc",
   chunkedOut |-> FALSE, keepUp |-> FALSE, bodyDone |-> FALSE, bad |-> FALSE,
   said |-> FALSE, sunk |-> FALSE, framed |-> FALSE, paused |-> FALSE, mute |-> FALSE]

NewUp ==
  [st |-> "free", venue |-> FirstVenue, c |-> NoClient, fromPool |-> FALSE,
   retried |-> FALSE, eof |-> FALSE, rbuf |-> <<>>, paused |-> FALSE,
   ask |-> NoReq, wire |-> "none", ans |-> "none", toks |-> 0, extra |-> FALSE]

Init == /\ cl = [c \in Client |-> NewClient]
        /\ us = [u \in Up |-> NewUp]
        /\ pool = [v \in Venue |-> <<>>]
        /\ todo = <<>>
        /\ rx = [c \in Client |-> [n |-> 0, mode |-> "between", raw |-> FALSE]]
        /\ asks = [r \in Request |-> 0]
        /\ recs = [r \in Request |-> 0]
        /\ answered = {}
        /\ fin = {}

-----------------------------------------------------------------------------
(* The stack.                                                              *)

Quiet == todo = <<>>

\* The routine at the head of the stack runs.
Runs(op, x) == todo # <<>> /\ Head(todo) = <<op, x>>

\* It returns, having called those in `calls'.
Then(calls) == todo' = calls \o Tail(todo)
Return      == Then(<<>>)

\* An event calls its handler.
Calls(calls) == Quiet /\ todo' = calls

-----------------------------------------------------------------------------
(* Connections.                                                            *)

Req(c)    == <<c, cl[c].n>>
Open(c)   == cl[c].st = "open"
Live(u)   == us[u].st # "free"
Pooled(u) == \E v \in Venue : u \in Range(pool[v])
Count     == Cardinality({u \in Up : Pooled(u)})

\* A new UpstreamConn.  The freed slot of a connection some caller still
\* holds is not reused before it returns, as its memory is not.
Fresh == CHOOSE u \in Up : ~Live(u) /\ \A i \in 1..Len(todo) : todo[i][2] # u

\* Mutant: the client's upstream is unpaired and left open.
DropUp_Unpairs(c) ==
  IF cl[c].up = NoUp THEN us ELSE [us EXCEPT ![cl[c].up].c = NoClient]

\* The states after closing upstream u, unpaired first: its client, itself.
ForgetUp(u) == IF us[u].c = NoClient THEN cl ELSE [cl EXCEPT ![us[u].c].up = NoUp]
FreeUp(u)   == [us EXCEPT ![u] = NewUp]
DropUp(c)   == IF cl[c].up = NoUp THEN us ELSE FreeUp(cl[c].up)
\* `mute', history: error_respond closed it, its request still Idle.
Closed(c)   == [NewClient EXCEPT !.st = "closed", !.n = cl[c].n, !.sent = cl[c].sent,
                                 !.mute = Runs("error", c) /\ cl[c].phase = "Idle"]

\* Mutant: a reply that never left is not recorded.
SinkUnfinished_ButReplies(k) == k.phase \notin {"Idle", "Replying"} /\ ~k.sunk

\* sink_unfinished records the request of a client it forgets, unless it is
\* over or its record has gone.
SinkUnfinished(k) == k.phase # "Idle" /\ ~k.sunk

\* Mutant: the record is not latched.
SinkEmit_NoLatch(k) == k

\* sink_emit: a record, and the latch that keeps a later close from making
\* another.
SinkEmit(k) == [k EXCEPT !.sunk = TRUE]

\* The records of a request that is over: its own, and the one of the close
\* that may follow, with the client then in state k.
Record(c, emits, k, closes) ==
  recs' = [recs EXCEPT ![Req(c)] = @ + (IF emits THEN 1 ELSE 0)
                                     + (IF closes /\ SinkUnfinished(k) THEN 1 ELSE 0)]

\* The backend's close and Engine::forget of a client: what it had in flight
\* is recorded (sink_unfinished), and the paired upstream goes with it.
CloseClient(c) ==
  /\ cl' = [cl EXCEPT ![c] = Closed(c)]
  /\ us' = DropUp(c)
  /\ recs' = IF SinkUnfinished(cl[c]) THEN [recs EXCEPT ![Req(c)] = @ + 1] ELSE recs
  /\ UNCHANGED <<pool, rx, asks, answered, fin>>

\* Dropping u out of the pool, from any position.
Unpool(u) ==
  [v \in Venue |-> IF u \in Range(pool[v])
                   THEN RemoveAt(pool[v], CHOOSE i \in 1..Len(pool[v]) : pool[v][i] = u)
                   ELSE pool[v]]

\* Why an exchange's connection may not be pooled (UpstreamPool::release).
Poolable(u, keepAlive, bodyEnded) ==
  /\ keepAlive /\ bodyEnded
  /\ ~us[u].eof
  /\ us[u].wire = "all"
  /\ Count < PoolCap

\* Mutant: pooled with bytes past the response in rbuf.
ReleaseUp_Leftover(u, left, keepAlive, bodyEnded) ==
  IF Poolable(u, keepAlive, bodyEnded)
  THEN /\ us' = [us EXCEPT ![u].c = NoClient, ![u].rbuf = left, ![u].paused = FALSE]
       /\ pool' = [pool EXCEPT ![us[u].venue] = <<u>> \o @]
  ELSE us' = FreeUp(u) /\ UNCHANGED pool

\* release_upstream, given what is left in rbuf: pooled and readable again,
\* or closed.  The client is unpaired by the caller.
ReleaseUp(u, left, keepAlive, bodyEnded) ==
  IF left = <<>> /\ Poolable(u, keepAlive, bodyEnded)
  THEN /\ us' = [us EXCEPT ![u].c = NoClient, ![u].rbuf = left, ![u].paused = FALSE]
       /\ pool' = [pool EXCEPT ![us[u].venue] = <<u>> \o @]
  ELSE us' = FreeUp(u) /\ UNCHANGED pool

-----------------------------------------------------------------------------
(* What a client makes of the bytes it reads: its own HTTP parser.  Bytes  *)
(* outside any chunk (`raw') lose it: nothing behind them can be read.     *)

See(c, s, i) ==
  LET mine == i.r = <<c, s.n + 1>>
      bad  == [s EXCEPT !.mode = "bad"]
  IN  CASE s.mode = "bad" \/ ~mine \/ (s.raw /\ i.k # "raw") -> bad
        [] i.k = "100" -> IF s.mode = "between" THEN s ELSE bad
        [] i.k \in {"w", "err"} -> IF s.mode = "between" THEN [s EXCEPT !.n = @ + 1] ELSE bad
        [] i.k = "head" -> IF s.mode = "between" THEN [s EXCEPT !.mode = "body"] ELSE bad
        [] i.k = "t" -> IF s.mode = "body" THEN s ELSE bad
        [] i.k = "raw" -> IF s.mode = "body" THEN [s EXCEPT !.raw = TRUE] ELSE bad
        [] i.k = "done" -> IF s.mode = "body" /\ i.r \in fin THEN s ELSE bad
        [] i.k = "end" -> IF s.mode = "body" /\ i.r \in fin
                          THEN [s EXCEPT !.n = @ + 1, !.mode = "between"] ELSE bad
        [] OTHER -> bad

\* It reads the first k items of `out'.
SeeAll(c, s, out, k) ==
  LET read[i \in 0..k] == IF i = 0 THEN s ELSE See(c, read[i - 1], out[i])
  IN  read[k]

\* They reach the client.
Deliver(c, out, k) == rx' = [rx EXCEPT ![c] = SeeAll(c, @, out, k)]

Unsent(out, k) == SubSeq(out, k + 1, Len(out))

\* What a send may do: write some prefix (all of it: Sent::Done), or fail,
\* which it cannot with nothing to write.
Written(out) == 0..Len(out)
MayFail(out)  == out # <<>>

-----------------------------------------------------------------------------
(* The client side: core/client.cpp.                                       *)

\* on_client_bytes.
Bytes(c) == <<<<"frame", c>>, <<"gate", c>>>>

\* gate_client_reads.
Over(c) == cl[c].phase # "Idle" /\ Len(cl[c].rbuf) > MaxBuffered

Gate(c) ==
  /\ Runs("gate", c)
  /\ Return
  /\ cl' = IF Open(c) THEN [cl EXCEPT ![c].paused = Over(c)] ELSE cl
  /\ UNCHANGED <<us, pool, hist>>

CanFrame(c) == Open(c) /\ cl[c].phase = "Idle" /\ cl[c].rbuf # <<>>
Partial(c)  == cl[c].half /\ Len(cl[c].rbuf) = 1

FrameNothing(c) ==
  /\ Runs("frame", c)
  /\ ~CanFrame(c) \/ (Partial(c) /\ cl[c].told)
  /\ Return
  /\ UNCHANGED <<cl, us, pool, hist>>

\* try_frame on a head whose body has yet to come: send_continue.
FrameContinue(c) ==
  LET out == Append(cl[c].out, [r |-> <<c, Head(cl[c].rbuf)>>, k |-> "100"]) IN
  /\ Runs("frame", c)
  /\ CanFrame(c) /\ Partial(c) /\ ~cl[c].told
  /\ Return
  /\ \/ \E k \in Written(out) :
          /\ Deliver(c, out, k)
          /\ cl' = [cl EXCEPT ![c].out = Unsent(out, k), ![c].told = TRUE]
          /\ UNCHANGED <<us, pool, asks, recs, answered, fin>>
     \/ CloseClient(c)

\* open_request: the one per-request reset.
OpenRequest(c, version) ==
  [cl[c] EXCEPT !.n = Head(cl[c].rbuf), !.told = FALSE, !.msg = version, !.saved = 0,
                !.attempts = 0, !.streaming = FALSE, !.ended = FALSE,
                !.terminated = FALSE, !.bodyDone = FALSE, !.bad = FALSE,
                !.said = FALSE, !.sunk = FALSE]

\* try_frame on a whole request: refused (framing, request line, encoding, the
\* policy), or dispatched to the venue the policy picked.
Frame(c) ==
  /\ Runs("frame", c)
  /\ CanFrame(c) /\ ~Partial(c)
  /\ \E version \in Versions :
       \/ /\ cl' = [cl EXCEPT ![c] = OpenRequest(c, version)]
          /\ Then(<<<<"error", c>>>>)
       \/ \E v \in IF Policy THEN Venue ELSE {FirstVenue} :
            /\ cl' = [cl EXCEPT ![c] = [OpenRequest(c, version) EXCEPT !.slot = v]]
            /\ Then(<<<<"dispatch", c>>>>)
  /\ UNCHANGED <<us, pool, hist>>

\* take_request: the request leaves rbuf, kept aside when a failover may want it.
TakeRequest(k) ==
  [k EXCEPT !.rbuf  = Tail(@),
            !.saved = IF k.saved # 0 \/ ~Policy \/ Cardinality(Venue) < 2
                      THEN k.saved ELSE Head(k.rbuf)]

\* dispatch, up to the acquire: the request may not fit this venue.
DispatchRefused(c) ==
  /\ Runs("dispatch", c)
  /\ Then(<<<<"error", c>>>>)
  /\ UNCHANGED <<cl, us, pool, hist>>

\* dispatch when no connection can be had: this host's own fault is answered,
\* the venue's (unresolved, refused at once) may fail over.
DispatchNoConn(c) ==
  /\ Runs("dispatch", c)
  /\ pool[cl[c].slot] = <<>>
  /\ \/ /\ cl' = [cl EXCEPT ![c].phase = "Dispatched",
                            ![c].rbuf = IF cl[c].saved # 0 THEN Tail(@) ELSE @]
        /\ Then(<<<<"error", c>>>>)
     \/ /\ cl' = [cl EXCEPT ![c] = [TakeRequest(@) EXCEPT !.phase = "Dispatched"]]
        /\ Then(<<<<"failed", c>>>>)
  /\ UNCHANGED <<us, pool, hist>>

\* dispatch onto u: the newest pooled connection, sent at once, or a fresh
\* one, sent when its connect completes.
Dispatch(c) ==
  LET v      == cl[c].slot
      reused == pool[v] # <<>>
      u      == IF reused THEN Head(pool[v]) ELSE Fresh
      r      == <<c, Head(cl[c].rbuf)>>
      paired == [(IF reused THEN us[u] ELSE NewUp) EXCEPT
                   !.st = IF reused THEN "open" ELSE "connecting", !.venue = v, !.c = c,
                   !.fromPool = reused, !.retried = FALSE, !.ask = r, !.wire = "none",
                   !.ans = "none", !.toks = 0, !.extra = FALSE]
  IN
  /\ Runs("dispatch", c)
  /\ cl' = [cl EXCEPT ![c] = [TakeRequest(@) EXCEPT !.phase = "Dispatched", !.up = u,
                                                    !.framed = TRUE]]
  /\ us' = [us EXCEPT ![u] = paired]
  /\ pool' = IF reused THEN [pool EXCEPT ![v] = Tail(@)] ELSE pool
  /\ asks' = [asks EXCEPT ![r] = @ + 1]
  /\ IF reused THEN Then(<<<<"send", u>>>>) ELSE Return
  /\ UNCHANGED <<rx, recs, answered, fin>>

\* error_respond: our own reply, then close; never behind a reply already begun.
Error(c) ==
  /\ Runs("error", c)
  /\ IF ~Open(c) THEN Return /\ UNCHANGED <<cl, us, pool, hist>>
     ELSE IF cl[c].phase \in {"Streaming", "Replying"} \/ cl[c].out # <<>>
     THEN Return /\ CloseClient(c)
     ELSE /\ cl' = [cl EXCEPT ![c].out = <<[r |-> Req(c), k |-> "err"]>>,
                              ![c].phase = "Replying", ![c].closeAfter = TRUE,
                              ![c].up = NoUp]
          /\ us' = DropUp(c)
          /\ Then(<<<<"respond", c>>>>)
          /\ UNCHANGED <<pool, hist>>

\* finish, once the send is done: recorded, then the next request or a close.
Finish(c) ==
  LET over   == [SinkEmit(cl[c]) EXCEPT !.out = <<>>, !.phase = "Idle"]
      closes == cl[c].closeAfter \/ cl[c].msg = "close"
  IN
  /\ IF cl[c].phase # "Replying"
     THEN /\ cl' = [cl EXCEPT ![c].out = <<>>]
          /\ Return
          /\ UNCHANGED <<us, recs>>
     ELSE /\ Record(c, ~cl[c].sunk, over, closes)
          /\ IF closes
             THEN /\ cl' = [cl EXCEPT ![c] = Closed(c)]
                  /\ us' = DropUp(c)
                  /\ Return
             ELSE /\ cl' = [cl EXCEPT ![c] = over]
                  /\ UNCHANGED us
                  /\ Then(Bytes(c))
  /\ UNCHANGED <<pool, asks, answered, fin>>

\* respond: send what is staged.
Respond(c) ==
  LET out == cl[c].out IN
  /\ Runs("respond", c)
  /\ \/ Deliver(c, out, Len(out)) /\ Finish(c)
     \/ \E k \in Written(out) \ {Len(out)} :
          /\ Deliver(c, out, k)
          /\ cl' = [cl EXCEPT ![c].out = Unsent(out, k)]
          /\ Return
          /\ UNCHANGED <<us, pool, asks, recs, answered, fin>>
     \/ MayFail(out) /\ CloseClient(c) /\ Return

-----------------------------------------------------------------------------
(* The upstream side: core/upstream.cpp.                                   *)

\* send_upstream: all of the request, some of it, or a write that failed.
SendUpstream(u) ==
  /\ Runs("send", u)
  /\ \/ us' = [us EXCEPT ![u].wire = "all"] /\ Return
     \/ us' = [us EXCEPT ![u].wire = "part"] /\ Return
     \/ Then(<<<<"lost", u>>>>) /\ UNCHANGED us
  /\ UNCHANGED <<cl, pool, hist>>

\* Mutant: a request whose answer has begun may be sent again.
CanRedispatch_Responding(c) == cl[c].phase \in {"Dispatched", "Responding"}

\* can_redispatch: no response byte yet.
CanRedispatch(c) == cl[c].phase = "Dispatched"

\* retry_upstream's conditions; the stale window is the environment's choice.
MayRetry(u) ==
  /\ us[u].c # NoClient
  /\ us[u].fromPool /\ ~us[u].retried
  /\ CanRedispatch(us[u].c)

\* upstream_lost: dropped if idle; resent once on a fresh connection to the
\* same venue; else a failure of the request.
UpstreamLost(u) ==
  LET c == us[u].c
      w == Fresh
  IN
  /\ Runs("lost", u)
  /\ \/ /\ c = NoClient
        /\ us' = FreeUp(u) /\ pool' = Unpool(u)
        /\ Return
        /\ UNCHANGED <<cl, hist>>
     \/ /\ MayRetry(u)
        /\ us' = [us EXCEPT ![u] = NewUp,
                            ![w] = [NewUp EXCEPT !.st = "connecting", !.venue = us[u].venue,
                                                 !.c = c, !.retried = TRUE, !.ask = us[u].ask]]
        /\ cl' = [cl EXCEPT ![c].up = w]
        /\ asks' = [asks EXCEPT ![us[u].ask] = @ + 1]
        /\ Return
        /\ UNCHANGED <<pool, rx, recs, answered, fin>>
     \/ /\ MayRetry(u)     \* this host cannot connect
        /\ Then(<<<<"error", c>>>>)
        /\ UNCHANGED <<cl, us, pool, hist>>
     \/ /\ c # NoClient    \* no retry, too late for one, or the venue is unreachable
        /\ Then(<<<<"failed", c>>>>)
        /\ UNCHANGED <<cl, us, pool, hist>>

\* failover_target's conditions; the policy picks among the other venues.
MayFailOver(c) ==
  /\ Policy /\ Open(c)
  /\ cl[c].phase \in {"Dispatched", "Responding"}
  /\ cl[c].out = <<>>
  /\ Cardinality(Venue) >= 2
  /\ CanRedispatch(c)
  /\ cl[c].saved # 0
  /\ cl[c].attempts < MaxAttempts - 1

\* fail_request: upstream_failed sends the request again to another venue, the
\* bytes kept aside back at the front of rbuf, or the client gets an error.
Failed(c) ==
  /\ Runs("failed", c)
  /\ \/ \E v \in Venue \ {cl[c].slot} :
          /\ MayFailOver(c)
          /\ us' = DropUp(c)
          /\ cl' = [cl EXCEPT ![c].up = NoUp, ![c].attempts = @ + 1, ![c].slot = v,
                              ![c].rbuf = <<cl[c].saved>> \o @]
          /\ Then(<<<<"dispatch", c>>>>)
     \/ Then(<<<<"error", c>>>>) /\ UNCHANGED <<cl, us>>
  /\ UNCHANGED <<pool, hist>>

\* on_response: the message is the client's, the connection released; or it
\* does not translate, and the client gets an error instead.
OnResponse(u, len) ==
  LET c    == us[u].c
      left == Unsent(us[u].rbuf, len)
      r    == Head(us[u].rbuf).r
  IN
  /\ \E keepAlive \in BOOLEAN : ReleaseUp(u, left, keepAlive, TRUE)
  /\ \/ /\ cl' = [cl EXCEPT ![c].up = NoUp, ![c].phase = "Replying",
                            ![c].out = Append(@, [r |-> r, k |-> "w"])]
        /\ Then(<<<<"respond", c>>>>)
     \/ /\ us[u].venue \in Translated
        /\ cl' = [cl EXCEPT ![c].up = NoUp]
        /\ Then(<<<<"error", c>>>>)
  /\ UNCHANGED hist

\* begin_stream: the client's head is staged; the rest of rbuf is body.
BeginStream(u) ==
  LET c == us[u].c
      i == Head(us[u].rbuf)
  IN
  /\ \E keepAlive \in BOOLEAN :
       cl' = [cl EXCEPT ![c].streaming = TRUE, ![c].phase = "Streaming",
                        ![c].body = i.k, ![c].keepUp = keepAlive,
                        ![c].chunkedOut = (cl[c].msg = "keep"),
                        ![c].out = Append(@, [r |-> i.r, k |-> "head"])]
  /\ us' = [us EXCEPT ![u].rbuf = Tail(@)]
  /\ Then(<<<<"pump", u>>>>)
  /\ UNCHANGED <<pool, hist>>

\* on_upstream_bytes.
UpstreamBytes(u) ==
  LET c  == us[u].c
      in == us[u].rbuf
  IN
  /\ Runs("upBytes", u)
  /\ \/ /\ c = NoClient
        /\ us' = FreeUp(u) /\ pool' = Unpool(u) /\ Return /\ UNCHANGED <<cl, hist>>
     \/ /\ c # NoClient /\ cl[c].streaming
        /\ Then(<<<<"pump", u>>>>) /\ UNCHANGED <<cl, us, pool, hist>>
     \/ /\ c # NoClient /\ ~cl[c].streaming
        /\ \/ /\ in = <<>> \/ (Len(in) = 1 /\ in[1].k = "a")
              /\ Return /\ UNCHANGED <<cl, us, pool, hist>>
           \/ /\ in # <<>> /\ in[1].k = "h"
              /\ Then(<<<<"error", c>>>>) /\ UNCHANGED <<cl, us, pool, hist>>
           \/ in # <<>> /\ in[1].k \in {"w", "x"} /\ OnResponse(u, 1)
           \/ Len(in) > 1 /\ in[1].k = "a" /\ OnResponse(u, 2)
           \/ in # <<>> /\ in[1].k \in Bodies /\ BeginStream(u)

\* on_upstream_eof.
UpstreamEof(u) ==
  LET c == us[u].c IN
  /\ Runs("upEof", u)
  /\ IF ~Live(u) \/ (us[u].eof /\ c = NoClient)
     THEN Return /\ UNCHANGED us   \* closed by the bytes read with it
     ELSE /\ us' = [us EXCEPT ![u].eof = TRUE]
          /\ Then(IF c # NoClient /\ cl[c].streaming THEN <<<<"pumpEof", u>>>>
                                                     ELSE <<<<"lost", u>>>>)
  /\ UNCHANGED <<cl, pool, hist>>

-----------------------------------------------------------------------------
(* Streams: core/stream.cpp, stream.hpp.                                   *)

\* stream_complete: the framing alone says where a body ends; only one without
\* framing ends at EOF.
StreamComplete(body, done, atEof) == IF body = "se" THEN atEof ELSE done

\* Mutant: the translator ends a stream cut before the venue's last event.
Unfinished_Never(xlate, said) == FALSE

\* finish: no end is made up for a venue that did not say its last event.
Unfinished(xlate, said) == xlate /\ ~said

\* chunk_wrap: an event staged by a step that ended well is framed in a chunk;
\* the translator's failure returns before it is.
ChunkWrap(failed, chunkedOut, k) ==
  CASE failed /\ chunkedOut -> "raw" [] k = "z" /\ ~(failed /\ chunkedOut) -> "done" [] OTHER -> "t"

\* The items of `in' at the indices I, in order.
Picked(in, I) ==
  [j \in 1..Cardinality(I) |-> in[CHOOSE i \in I : Cardinality({h \in I : h <= i}) = j]]

\* stream_step: decode, translate, detect the end.  What it leaves of `in',
\* what it stages, and the outcome.
StreamStep(c, u, atEof) ==
  LET s     == cl[c]
      in    == us[u].rbuf
      xlate == us[u].venue \in Translated
      \* A framed body ends at its last byte.
      cut   == IF s.body = "se" THEN Len(in)
               ELSE IF s.bodyDone THEN 0
               ELSE Cardinality({i \in 1..Len(in) : \A h \in 1..(i - 1) : in[h].k \notin {"z", "y"}})
      has(k) == \E i \in 1..cut : in[i].k = k
      done  == s.bodyDone \/ (s.body # "se" /\ (has("z") \/ has("y")))
      said  == s.said \/ has("z")
      \* The decoder fails on corrupt framing, the translator on an event it
      \* refuses; either stays failed.
      bad   == s.bad \/ (s.body = "sc" /\ has("e")) \/ (xlate /\ has("f"))
      \* Corrupt framing stages nothing of this read; the translator's failure
      \* leaves what it had translated, before it is framed in a chunk.
      corrupt == s.bad \/ (s.body = "sc" /\ has("e"))
      staged == Picked(in, {i \in 1..cut : /\ in[i].k \in {"t", "z", "f"} /\ ~corrupt
                                           /\ bad => \A h \in 1..i : in[h].k # "f"})
      complete == StreamComplete(s.body, done, atEof)
  IN  [left  |-> IF s.body = "sl" THEN Unsent(in, cut) ELSE <<>>,
       items |-> [i \in 1..Len(staged) |->
                  [r |-> staged[i].r, k |-> ChunkWrap(bad, s.chunkedOut, staged[i].k)]],
       done |-> done, said |-> said, bad |-> bad,
       end  |-> CASE bad -> "Failed"
                  [] ~bad /\ complete /\ ~s.ended ->
                       IF Unfinished(xlate, said) THEN "Failed" ELSE "Ended"
                  [] ~bad /\ ~complete /\ atEof /\ ~s.ended -> "Failed"
                  [] OTHER -> IF s.ended THEN "Ended" ELSE "Ok"]

\* Mutant: a truncated stream is not latched as ended.
Stepped_NoLatch(c, st) ==
  [cl[c] EXCEPT !.out = @ \o st.items, !.bodyDone = st.done, !.said = st.said,
                !.bad = st.bad, !.ended = @ \/ st.end = "Ended",
                !.closeAfter = @ \/ st.end = "Failed"]

\* The client after a step; a failed one truncates (stream_truncate).
Stepped(c, st) ==
  [cl[c] EXCEPT !.out = @ \o st.items, !.bodyDone = st.done, !.said = st.said,
                !.bad = st.bad, !.ended = @ \/ st.end # "Ok",
                !.closeAfter = @ \/ st.end = "Failed"]

\* stream_pump.
StreamPump(u) ==
  LET c  == us[u].c
      st == StreamStep(c, u, FALSE)
  IN
  /\ Runs("pump", u)
  /\ IF st.end # "Failed" /\ StreamCap # 0 /\ Len(cl[c].out \o st.items) > StreamCap
     THEN CloseClient(c) /\ Return
     ELSE /\ us' = [us EXCEPT ![u].rbuf = st.left]
          /\ cl' = [cl EXCEPT ![c] = Stepped(c, st)]
          /\ Then(<<<<"flush", c>>>>)
          /\ UNCHANGED <<pool, hist>>

\* stream_on_upstream_eof: the last step, and the upstream is closed.
StreamEof(u) ==
  LET c == us[u].c IN
  /\ Runs("pumpEof", u)
  /\ us' = FreeUp(u)
  /\ cl' = [cl EXCEPT ![c] = [Stepped(c, StreamStep(c, u, TRUE)) EXCEPT !.up = NoUp]]
  /\ Then(<<<<"flush", c>>>>)
  /\ UNCHANGED <<pool, hist>>

\* stream_terminate, before the send that ends a clean stream.
Terminates(c) == cl[c].ended /\ ~cl[c].terminated /\ ~cl[c].closeAfter
Staged(c) ==
  IF Terminates(c) /\ cl[c].chunkedOut
  THEN Append(cl[c].out, [r |-> Req(c), k |-> "end"]) ELSE cl[c].out

\* finalize_stream: the upstream is released, the request recorded, and the
\* client kept when its framing has an end.  Closed, it is still Streaming.
FinalizeStream(c) ==
  LET u    == cl[c].up
      keep == cl[c].chunkedOut /\ ~cl[c].closeAfter /\ cl[c].msg # "close"
  IN
  /\ IF u = NoUp THEN UNCHANGED <<us, pool>>
     ELSE ReleaseUp(u, us[u].rbuf, cl[c].keepUp /\ ~cl[c].closeAfter,
                    cl[c].body # "se" /\ cl[c].bodyDone)
  /\ Record(c, ~cl[c].sunk, SinkEmit(cl[c]), ~keep)
  /\ cl' = [cl EXCEPT ![c] = IF keep THEN [SinkEmit(cl[c]) EXCEPT
                                             !.up = NoUp, !.out = <<>>, !.phase = "Idle",
                                             !.streaming = FALSE]
                             ELSE Closed(c)]
  /\ Then(IF keep THEN Bytes(c) ELSE <<>>)

\* stream_flush: write what the stream owes.  Queued, the upstream is paused;
\* drained, it is resumed, or the stream finalized.
StreamFlush(c) ==
  LET out == Staged(c)
      u   == cl[c].up
      flushed(k) == [cl EXCEPT ![c].out = Unsent(out, k),
                               ![c].terminated = @ \/ Terminates(c)]
  IN
  /\ Runs("flush", c)
  /\ \/ \E k \in Written(out) \ {Len(out)} :
          /\ Deliver(c, out, k)
          /\ cl' = flushed(k)
          /\ us' = IF u # NoUp /\ Len(out) - k > PauseAbove
                   THEN [us EXCEPT ![u].paused = TRUE] ELSE us
          /\ Return
          /\ UNCHANGED <<pool, asks, recs, answered, fin>>
     \/ /\ Deliver(c, out, Len(out))
        /\ IF cl[c].ended THEN FinalizeStream(c)
           ELSE /\ cl' = flushed(Len(out))
                /\ us' = IF u = NoUp THEN us ELSE [us EXCEPT ![u].paused = FALSE]
                /\ Return
                /\ UNCHANGED <<pool, recs>>
        /\ UNCHANGED <<asks, answered, fin>>
     \/ MayFail(out) /\ CloseClient(c) /\ Return

-----------------------------------------------------------------------------
(* Events.                                                                 *)

Accept(c) ==
  /\ Quiet /\ cl[c].st = "new"
  /\ cl' = [cl EXCEPT ![c].st = "open"]
  /\ UNCHANGED <<us, pool, todo, hist>>

\* A client's bytes: the next request whole, its head alone, or its rest.
ClientSends(c) ==
  /\ Open(c) /\ ~cl[c].paused
  /\ Calls(Bytes(c))
  /\ \/ /\ cl[c].sent < MaxReq /\ ~cl[c].half
        /\ \E half \in IF Expects THEN BOOLEAN ELSE {FALSE} :
             cl' = [cl EXCEPT ![c].rbuf = Append(@, cl[c].sent + 1),
                              ![c].sent = @ + 1, ![c].half = half]
     \/ /\ cl[c].half
        /\ cl' = [cl EXCEPT ![c].half = FALSE]
  /\ UNCHANGED <<us, pool, hist>>

\* client_gone: EOF or an error on the client's socket.
ClientGone(c) ==
  /\ Quiet /\ Open(c)
  /\ CloseClient(c)
  /\ UNCHANGED todo

\* on_client_writable, armed while something is owed.
ClientWritable(c) ==
  /\ Open(c) /\ cl[c].out # <<>>
  /\ Calls(<<<<IF cl[c].streaming THEN "flush" ELSE "respond", c>>>>)
  /\ UNCHANGED <<cl, us, pool, hist>>

\* on_upstream_writable: a connect completed, or more room for the request.
UpstreamWritable(u) ==
  /\ \/ us[u].st = "connecting"
     \/ us[u].st = "open" /\ us[u].wire = "part"
  /\ Calls(<<<<"send", u>>>>)
  /\ us' = [us EXCEPT ![u].st = "open"]
  /\ UNCHANGED <<cl, pool, hist>>

\* on_connect_error: this host's own, answered; or the venue's.
ConnectError(u) ==
  /\ us[u].st = "connecting"
  /\ us' = FreeUp(u)
  /\ cl' = ForgetUp(u)
  /\ \E answer \in {"error", "failed"} : Calls(<<<<answer, us[u].c>>>>)
  /\ UNCHANGED <<pool, hist>>

\* What a venue may put on the wire next, by how far its answer is.
Follows(v, ans) ==
  (Kinds \ IF v \in Translated THEN {} ELSE {"f"})
  \cap CASE ans = "none" -> {"w", "a", "h"} \cup Bodies
         [] ans = "a"    -> {"b"}
         [] ans = "sc"   -> {"t", "z", "y", "e", "f"}
         [] ans = "sl"   -> {"t", "z", "y", "f"}
         [] ans = "se"   -> {"t", "z", "f"}
         [] ans = "done" -> {"x"}
         [] OTHER        -> {}

After(ans, k) ==
  CASE k \in {"a", "sc", "sl", "se"} -> k
    [] k \in {"e", "f", "h", "x"} -> "over"
    [] k = "t" -> ans
    [] OTHER -> "done"

AfterAll(ans, seg) ==
  LET far[i \in 0..Len(seg)] == IF i = 0 THEN ans ELSE After(far[i - 1], seg[i])
  IN  far[Len(seg)]

\* The legal runs of items from `ans', up to Segment long.
Segments(v, ans) ==
  LET one == {<<k>> : k \in Follows(v, ans)}
      two == UNION {{<<k, j>> : j \in Follows(v, After(ans, k))} : k \in Follows(v, ans)}
  IN  {<<>>} \cup one \cup IF Segment > 1 THEN two ELSE {}

\* One drain of u's socket: the items `seg', and then perhaps EOF.  Bytes read
\* along with an EOF are framed first, unless the stream's own EOF will.
Drained(u, seg, eof) ==
  LET x == us[u]
      c == x.c
      streaming == cl[c].streaming
      toks == x.toks + Cardinality({i \in 1..Len(seg) : seg[i] = "t"})
      ans  == AfterAll(x.ans, seg)
      items == [i \in 1..Len(seg) |-> [r |-> x.ask, k |-> seg[i]]]
      some == x.rbuf # <<>> \/ seg # <<>>
      ended == \/ ToSet(seg) \cap {"z", "w", "b"} # {}
               \/ x.venue \notin Translated /\ ("y" \in ToSet(seg) \/ (eof /\ ans = "se"))
  IN
  /\ toks <= MaxTok
  /\ us' = [us EXCEPT ![u] =
              [x EXCEPT !.rbuf = @ \o items, !.ans = ans, !.toks = toks,
                        !.extra = @ \/ "x" \in ToSet(seg),
                        !.eof = eof /\ seg # <<>> /\ ~streaming]]
  \* note_response_bytes
  /\ cl' = IF some /\ cl[c].phase = "Dispatched"
           THEN [cl EXCEPT ![c].phase = "Responding"] ELSE cl
  /\ answered' = IF seg # <<>> THEN answered \cup {Req(c)} ELSE answered
  /\ fin' = IF ended THEN fin \cup {x.ask} ELSE fin
  /\ Calls((IF seg # <<>> /\ ~(eof /\ streaming) THEN <<<<"upBytes", u>>>> ELSE <<>>)
           \o (IF eof THEN <<<<"upEof", u>>>> ELSE <<>>))

\* on_upstream_readable.  Paused, only a hangup is reported.
VenueSends(u) ==
  /\ us[u].st = "open" /\ ~us[u].eof /\ us[u].c # NoClient
  /\ \E seg \in Segments(us[u].venue, us[u].ans), eof \in BOOLEAN :
       /\ seg # <<>> \/ eof
       /\ us[u].paused => eof
       /\ Drained(u, seg, eof)
  /\ UNCHANGED <<pool, rx, asks, recs>>

\* A venue's bytes or EOF on a pooled connection, or its reaping: closed.
IdleDrop(u) ==
  /\ Quiet /\ Pooled(u)
  /\ us' = FreeUp(u) /\ pool' = Unpool(u)
  /\ UNCHANGED <<cl, todo, hist>>

\* sweep_client: the deadline that applies has passed.
Busy(c) == cl[c].up # NoUp \/ cl[c].streaming

\* Mutant: a stream has no deadline.
SweepClose_NotStreams(c) ==
  /\ Quiet /\ Open(c)
  /\ ~cl[c].framed \/ ~Busy(c)
  /\ CloseClient(c)
  /\ UNCHANGED todo

SweepClose(c) ==      \* never framed a request; quiet; or a stream neither leg moves
  /\ Quiet /\ Open(c)
  /\ ~cl[c].framed \/ ~Busy(c) \/ cl[c].streaming
  /\ CloseClient(c)
  /\ UNCHANGED todo

SweepConnect(c) ==    \* a connect that never completed
  /\ Open(c) /\ cl[c].framed
  /\ cl[c].up # NoUp /\ us[cl[c].up].st = "connecting"
  /\ us' = DropUp(c)
  /\ cl' = [cl EXCEPT ![c].up = NoUp]
  /\ Calls(<<<<"failed", c>>>>)
  /\ UNCHANGED <<pool, hist>>

SweepSilent(c) ==     \* the venue is silent, or the client does not read
  /\ Open(c) /\ cl[c].framed
  /\ Busy(c) /\ ~cl[c].streaming
  /\ Calls(<<<<IF cl[c].out = <<>> THEN "failed" ELSE "error", c>>>>)
  /\ UNCHANGED <<cl, us, pool, hist>>

Sweep(c) == SweepClose(c) \/ SweepConnect(c) \/ SweepSilent(c)

Internal ==
  \/ \E c \in Client :
       \/ Gate(c) \/ FrameNothing(c) \/ FrameContinue(c) \/ Frame(c)
       \/ DispatchRefused(c) \/ DispatchNoConn(c) \/ Dispatch(c)
       \/ Failed(c) \/ Error(c) \/ Respond(c) \/ StreamFlush(c)
  \/ \E u \in Up :
       \/ SendUpstream(u) \/ UpstreamLost(u) \/ UpstreamBytes(u) \/ UpstreamEof(u)
       \/ StreamPump(u) \/ StreamEof(u)

Event ==
  \/ \E c \in Client : Accept(c) \/ ClientSends(c) \/ ClientGone(c) \/ ClientWritable(c)
                       \/ Sweep(c)
  \/ \E u \in Up : UpstreamWritable(u) \/ ConnectError(u) \/ VenueSends(u) \/ IdleDrop(u)

Next == Internal \/ Event

Spec == Init /\ [][Next]_vars

\* The loop runs its handlers, and every deadline in the end expires.
FairSpec == Spec /\ WF_vars(Internal) /\ \A c \in Client : SF_vars(Sweep(c))

-----------------------------------------------------------------------------
(* Properties.                                                             *)

\* Every variable has its type.
TypeOK ==
  /\ \A c \in Client :
       LET k == cl[c] IN
       /\ k.st \in {"new", "open", "closed"}
       /\ k.phase \in {"Idle", "Dispatched", "Responding", "Streaming", "Replying"}
       /\ k.up \in Up \cup {NoUp} /\ k.slot \in Venue
       /\ k.saved \in 0..MaxReq /\ k.n \in 0..MaxReq /\ k.sent \in 0..MaxReq
       /\ k.attempts \in 0..MaxAttempts - 1
       /\ k.body \in Bodies
  /\ \A u \in Up :
       /\ us[u].st \in {"free", "connecting", "open"}
       /\ us[u].c \in Client \cup {NoClient} /\ us[u].venue \in Venue
       /\ us[u].wire \in {"none", "part", "all"}
  /\ \A v \in Venue : \A i \in 1..Len(pool[v]) : pool[v][i] \in Up
  /\ answered \subseteq Request /\ fin \subseteq Request

\* What a client reads parses: its own replies and no one else's, one per
\* request in the order it asked, none begun before the last is over, and a
\* stream's end only if a venue finished that answer.  One exception: a step the
\* translator fails in leaves its events outside any chunk (stream.hpp:415).
\* Nothing follows them but the close.
ClientsReadTheirReplies ==
  \A c \in Client :
    /\ rx[c].mode # "bad"
    /\ rx[c].raw => cl[c].st = "closed" \/ (cl[c].bad /\ cl[c].closeAfter)

\* A request some venue has begun to answer is never sent again: the venue may
\* have acted on it (retry_upstream, failover_target).
NeverResendAnswered ==
  [][\A r \in Request : asks'[r] # asks[r] => r \notin answered]_vars

\* However a request is retried and failed over, it is staged at most twice
\* per attempt.
AsksBounded ==
  \A r \in Request : asks[r] <= 2 * (IF Policy THEN MaxAttempts ELSE 1)

\* The sink gets at most one record of a request, and exactly one once it is
\* over, whatever ended it.  One exception: a request refused while its own 100
\* Continue is still queued is closed on with its phase Idle, and gets none
\* (error_respond, sink_unfinished).
RecordedOnce ==
  /\ \A r \in Request : recs[r] <= 1
  /\ Quiet => \A c \in Client : \A n \in 1..cl[c].n :
       recs[<<c, n>>] = IF n = cl[c].n /\ (cl[c].phase # "Idle" \/ cl[c].mute) THEN 0 ELSE 1

\* pair and unpair: a link is never one-sided, and a pooled connection has none.
Linked ==
  /\ \A c \in Client : cl[c].up # NoUp => us[cl[c].up].c = c
  /\ \A u \in Up : us[u].c # NoClient => cl[us[u].c].up = u

\* Between events a live upstream is a client's or the pool's, never both:
\* none leaks, none is shared.
NoOrphan ==
  Quiet => \A u \in Up : Live(u) => (us[u].c # NoClient) # Pooled(u)

\* A pooled connection is fit for another client: the request fully sent, no
\* byte of the last response, no EOF, its reads on.
PooledFit ==
  /\ Count <= PoolCap
  /\ \A v \in Venue : \A u \in Range(pool[v]) :
       /\ us[u].st = "open" /\ us[u].venue = v
       /\ us[u].rbuf = <<>> /\ us[u].wire = "all"
       /\ ~us[u].eof /\ ~us[u].paused

\* Between events nothing waits for a wakeup that cannot come: a request in
\* flight has its upstream, a staged reply and an ended stream have bytes owed
\* (so the socket is armed), a paused upstream has a client that owes, a
\* paused client has a request whose end will resume it, and an idle client
\* has no whole request buffered.
NoLostWakeup ==
  Quiet =>
    /\ \A c \in Client : LET k == cl[c] IN
         /\ k.phase \in {"Dispatched", "Responding"} => k.up # NoUp
         /\ k.phase = "Replying" => k.out # <<>>
         /\ k.phase = "Streaming" => k.out # <<>> \/ (k.up # NoUp /\ ~k.ended)
         /\ k.paused => k.phase # "Idle"
         /\ CanFrame(c) => Partial(c)
    /\ \A u \in Up : us[u].paused => us[u].c # NoClient /\ cl[us[u].c].out # <<>>

\* A pipelined request is neither lost, doubled nor overtaken, though a
\* failover puts the one in flight back in front of it: behind a request a
\* venue holds, rbuf has exactly the later ones, in order.
PipelineKept ==
  Quiet => \A c \in Client :
    Open(c) /\ ~cl[c].closeAfter =>
      cl[c].rbuf = [i \in 1..(cl[c].sent - cl[c].n) |-> cl[c].n + i]

\* Every request ends: answered, or its connection closed.
RequestsEnd ==
  \A c \in Client : cl[c].phase # "Idle" ~> (cl[c].phase = "Idle" \/ cl[c].st = "closed")

-----------------------------------------------------------------------------
(* What the repository says and the code does not do.                      *)

\* "Bytes past the response are a second message the gateway never asked for,
\* so UpstreamPool::release refuses the connection" (gateway_test.cpp).
ResidueNeverPooled == \A u \in Up : Pooled(u) => ~us[u].extra

\* "Every way a request ends reaches forget(), so a request that never completed
\* is recorded here whatever closed it" (client.cpp).
EveryRequestRecorded ==
  Quiet => \A c \in Client : \A n \in 1..cl[c].n :
    recs[<<c, n>>] = IF n = cl[c].n /\ cl[c].phase # "Idle" THEN 0 ELSE 1

\* Every byte of a chunked reply is inside a chunk ("framed like every other
\* write", stream.hpp).
ChunksFramed == \A c \in Client : ~rx[c].raw
=============================================================================
