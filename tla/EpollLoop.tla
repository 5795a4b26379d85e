----------------------------- MODULE EpollLoop -----------------------------
(***************************************************************************)
(* A worker on epoll (io/epoll_io.cpp): a batch of events is handled, the  *)
(* clients are swept, and what was closed meanwhile is freed.  Under it,   *)
(* the TLS session between a connection's plaintext and its socket         *)
(* (core/transport.cpp, net/src/tls.cpp), and the registry the sweep walks *)
(* (core/registry.hpp, core/sweep.cpp).                                    *)
(*                                                                         *)
(* The engine above is Lifecycle's; here it may do, when it is handed an   *)
(* event, anything it has the calls for: stage bytes and send them, dial,  *)
(* pause or resume reads, add a hedge's legs to the registry, close any    *)
(* connections at all.                                                     *)
(***************************************************************************)
EXTENDS Integers, Sequences, FiniteSets

CONSTANTS
  Clients, Ups,  \* connection objects: clients', venues'
  Tls,           \* those under TLS
  MaxOut,        \* pieces of plaintext staged on a connection in its life
  MaxPost,       \* records a session makes of its own after its handshake
  MaxBatch       \* kMaxEvents

ASSUME EpollAssumption ==
  /\ Clients \cap Ups = {} /\ Tls \subseteq Clients \union Ups
  /\ "listener" \notin Clients \union Ups
  /\ MaxBatch \in Nat

VARIABLES
  conn,       \* every connection object
  items,      \* _clients: the registry's vector
  pc,         \* wait, batch, reap, sweep, free: where the worker is in its loop
  engine,     \* the worker is inside the engine, called from there
  batch,      \* events of this batch still to handle
  at,         \* the sweep's index
  looked,     \* clients this sweep has looked at, or that joined under it
  accepting   \* the listener's read interest

vars == <<conn, items, pc, engine, batch, at, looked, accepting>>

Conns == Clients \union Ups
Listener == "listener"
NoSlot == 0

\* ConnBase. out: plaintext neither sent nor fed to the session. staging: records inside the
\* session, tls_out: on their way to the socket; both by their number, in the order the
\* session made them. wire: records on the socket. sent, staged: pieces of plaintext.
Free ==
  [st |-> "free", slot |-> NoSlot, paused |-> FALSE, armed |-> FALSE, connected |-> FALSE, hs |-> "none",
   out |-> 0, staged |-> 0, made |-> 0, post |-> 0, staging |-> <<>>, tlsOut |-> <<>>, data |-> {}, wire |-> <<>>]

Init ==
  /\ conn = [k \in Conns |-> Free]
  /\ items = <<>> /\ pc = "wait" /\ engine = FALSE /\ batch = <<>> /\ at = 0 /\ looked = {} /\ accepting = TRUE

-----------------------------------------------------------------------------
(* Registry: add, and remove by moving the last member into the hole. *)

\* A client joins: accepted, or a hedge's leg, which has no socket of its own.
Joined(socket) == [Free EXCEPT !.st = "live", !.slot = Len(items) + 1, !.connected = socket]
Join(k, socket) ==
  /\ conn[k].st = "free"
  /\ items' = Append(items, k) /\ conn' = [conn EXCEPT ![k] = Joined(socket)]
Holds(v, cs, k) == cs[k].slot \in 1 .. Len(v) /\ v[cs[k].slot] = k
RemoveFrom(v, cs, k) == SubSeq([v EXCEPT ![cs[k].slot] = v[Len(v)]], 1, Len(v) - 1)
Reslot(v, cs, k) == [cs EXCEPT ![v[Len(v)]].slot = cs[k].slot]

-----------------------------------------------------------------------------
(* The session. A connection c; what it makes goes to the sink, or is staged inside. *)

Handshook(c) == c.hs = "done"
Emit(c) == [c EXCEPT !.made = @ + 1, !.staging = Append(@, c.made + 1)]
\* tls_pump_out: pull_ciphertext until nothing is staged inside.
PumpOut(c) == [c EXCEPT !.tlsOut = @ \o c.staging, !.staging = <<>>]
\* tls_push_out: the plaintext as records straight into tls_out, behind what was staged.
PushOut(c) ==
  LET p == PumpOut(c)
  IN [p EXCEPT !.tlsOut = @ \o [i \in 1 .. c.out |-> c.made + i], !.data = @ \union {c.made + i : i \in 1 .. c.out},
               !.made = @ + c.out, !.out = 0]

ArmWrite(c) == [c EXCEPT !.armed = TRUE]
DisarmWrite(c) == [c EXCEPT !.armed = FALSE]

\* A write that the socket took n pieces of.
Wrote(c, n) ==
  [c EXCEPT !.wire = @ \o SubSeq(c.tlsOut, 1, n), !.tlsOut = SubSeq(@, n + 1, Len(@))]
WrotePlain(c, n) ==
  [c EXCEPT !.wire = @ \o [i \in 1 .. n |-> c.made + i], !.data = @ \union {c.made + i : i \in 1 .. n},
            !.made = @ + n, !.out = @ - n]
\* tls_flush: the socket takes some, and the rest waits for EPOLLOUT.
TlsFlush_Unarmed(c) == {Wrote(PumpOut(c), n) : n \in 0 .. Len(c.staging \o c.tlsOut)}
TlsFlush(c) ==
  {IF n < Len(c.staging \o c.tlsOut) THEN ArmWrite(Wrote(PumpOut(c), n)) ELSE Wrote(PumpOut(c), n)
     : n \in 0 .. Len(c.staging \o c.tlsOut)}
\* pump_write, by whether the connection is under TLS.
PumpWrite(k, c) ==
  IF k \in Tls THEN TlsFlush(IF Handshook(c) THEN PushOut(c) ELSE c)
  ELSE {WrotePlain(c, n) : n \in 0 .. c.out}

\* tls_out_flushed, upstream_request_sent.
RequestSent_Plaintext(c) == c.out = 0
RequestSent(c) == c.out = 0 /\ c.tlsOut = <<>> /\ c.staging = <<>>
\* send: done, or the rest is written when the socket is writable. A failed write closes.
Send(k, c) == {IF RequestSent(d) THEN DisarmWrite(d) ELSE ArmWrite(d) : d \in PumpWrite(k, c)}

\* tls_feed: ciphertext may bring the handshake on, finish it, which sends the request that
\* waited for it, or make the session answer with a record of its own.
HandshakeStep(k, c) ==
  IF c.hs = "done" THEN {c} \union (IF c.post < MaxPost THEN {[Emit(c) EXCEPT !.post = @ + 1]} ELSE {})
  ELSE {c} \union {[Emit(c) EXCEPT !.hs = IF @ = "none" THEN "begun" ELSE "done"]}
Fed(k, c) ==
  {IF k \in Ups /\ ~ Handshook(c) /\ Handshook(d) /\ d.out > 0 THEN PushOut(d) ELSE d : d \in HandshakeStep(k, c)}
\* drain_read, tls_drain_read: what came in, and what it made the session send.
DrainRead(k, c) == IF k \in Tls THEN UNION {TlsFlush(d) : d \in Fed(k, c)} ELSE {c}

\* on_upstream_writable: the connect's end, the ClientHello, and what is owed.
StartHandshake(k, c) == IF k \in Tls /\ c.hs = "none" THEN [Emit(c) EXCEPT !.hs = "begun"] ELSE c
Connected(k, c) == IF c.connected THEN c ELSE StartHandshake(k, [c EXCEPT !.connected = TRUE])
\* Without TLS the plaintext; under it only ciphertext, and tls_flush arms again what it left.
UpWritable(k, c) ==
  IF k \in Tls THEN {IF d.tlsOut = <<>> THEN DisarmWrite(d) ELSE d : d \in TlsFlush(c)}
  ELSE {IF d.out = 0 THEN DisarmWrite(d) ELSE ArmWrite(d) : d \in PumpWrite(k, c)}

-----------------------------------------------------------------------------
(* The engine, once it is handed an event: any of its calls, in any order. *)

\* close: the fd now, the memory when the batch is over. forget takes it off its registry.
CloseOne_Frees(cs, k) == [cs EXCEPT ![k] = Free]
CloseOne(cs, k) == [cs EXCEPT ![k] = [Free EXCEPT !.st = "doomed"]]
Close(k) ==
  IF Holds(items, conn, k)
  THEN items' = RemoveFrom(items, conn, k) /\ conn' = CloseOne(Reslot(items, conn, k), k)
  ELSE conn' = CloseOne(conn, k) /\ UNCHANGED items

Live(cs) == {k \in Conns : cs[k].st = "live"}
Becomes(k, cs) == \E c \in cs : conn' = [conn EXCEPT ![k] = c]
\* connect: read and write interest at once; a fresh object.
Dialled == [Free EXCEPT !.st = "live", !.armed = TRUE]
Staged(c) == [c EXCEPT !.out = @ + 1, !.staged = @ + 1]
\* A request waits in `out` for its connect; a reply, and a part of a body, is sent at once.
StageAndSend(k, c) == IF k \in Ups /\ ~ c.connected THEN {Staged(c)} ELSE Send(k, Staged(c))
MayStage(k, c) ==
  c.staged < MaxOut /\ (k \in Clients => c.connected) /\ (k \in Clients /\ k \in Tls => Handshook(c))
SetRead(c) == [c EXCEPT !.paused = ~ @]

Stage ==
  /\ engine
  /\ \E k \in Live(conn) : MayStage(k, conn[k]) /\ Becomes(k, StageAndSend(k, conn[k]))
  /\ UNCHANGED <<items, pc, engine, batch, at, looked, accepting>>
Dial ==
  /\ engine
  /\ \E u \in Ups : conn[u].st = "free" /\ Becomes(u, {Dialled})
  /\ UNCHANGED <<items, pc, engine, batch, at, looked, accepting>>
\* spawn_hedge, in the dispatch of a client's request; in a sweep too, where the answer to
\* one request frames the next.
AddLeg ==
  /\ engine
  /\ \E k \in Clients : Join(k, FALSE) /\ looked' = IF pc = "sweep" THEN looked \union {k} ELSE looked
  /\ UNCHANGED <<pc, engine, batch, at, accepting>>
PauseOrResume ==
  /\ engine
  /\ \E u \in Ups : conn[u].st = "live" /\ Becomes(u, {SetRead(conn[u])})
  /\ UNCHANGED <<items, pc, engine, batch, at, looked, accepting>>
Drop ==
  /\ engine
  /\ \E k \in Live(conn) : Close(k)
  /\ UNCHANGED <<pc, engine, batch, at, looked, accepting>>
Return ==
  /\ engine /\ engine' = FALSE
  /\ UNCHANGED <<conn, items, pc, batch, at, looked, accepting>>

-----------------------------------------------------------------------------
(* The loop. *)

\* What epoll_wait may report: reads unless paused, a hangup even then, writes if armed.
Entries ==
  {[conn |-> k, r |-> TRUE, w |-> FALSE] : k \in {j \in Live(conn) : j \in Clients => conn[j].connected}}
  \union {[conn |-> k, r |-> r, w |-> TRUE] : k \in {j \in Live(conn) : conn[j].armed}, r \in BOOLEAN}
  \union (IF accepting THEN {[conn |-> Listener, r |-> TRUE, w |-> FALSE]} ELSE {})
\* One entry a descriptor.
Batches == {b \in UNION {[1 .. n -> Entries] : n \in 0 .. MaxBatch} :
              \A i, j \in DOMAIN b : i # j => b[i].conn # b[j].conn}

Wait ==
  /\ pc = "wait"
  /\ batch' \in Batches
  /\ pc' = "batch"
  /\ UNCHANGED <<conn, items, engine, at, looked, accepting>>

\* The entry at the head of the batch. A venue's connection is written first, a client's
\* read first; doomed is checked before each.
Handling == pc = "batch" /\ ~ engine /\ batch # <<>>
Entry == Head(batch)
HeadLive == Entry.conn \in Live(conn)

\* Bytes, and what the engine makes of them; an EOF or a failure closes, and a connection
\* not yet up has nothing else to read.
Readable(k) ==
  \/ conn[k].connected /\ Becomes(k, DrainRead(k, conn[k])) /\ UNCHANGED items
  \/ Close(k)
Writable(k) ==
  \/ k \in Clients /\ Becomes(k, Send(k, conn[k])) /\ UNCHANGED items
  \/ k \in Ups /\ Becomes(k, UpWritable(k, Connected(k, conn[k]))) /\ UNCHANGED items
  \/ Close(k)
ReadHalf ==
  /\ Handling /\ HeadLive /\ Entry.r /\ (Entry.conn \in Ups => ~ Entry.w)
  /\ Readable(Entry.conn)
  /\ batch' = [batch EXCEPT ![1].r = FALSE] /\ engine' = TRUE
  /\ UNCHANGED <<pc, at, looked, accepting>>
WriteHalf ==
  /\ Handling /\ HeadLive /\ Entry.w /\ (Entry.conn \in Clients => ~ Entry.r)
  /\ Writable(Entry.conn)
  /\ batch' = [batch EXCEPT ![1].w = FALSE] /\ engine' = TRUE
  /\ UNCHANGED <<pc, at, looked, accepting>>
\* Both directions done, or the connection doomed.
NextEntry ==
  /\ Handling /\ Entry.conn # Listener /\ (HeadLive => ~ Entry.r /\ ~ Entry.w)
  /\ batch' = Tail(batch)
  /\ UNCHANGED <<conn, items, pc, engine, at, looked, accepting>>

\* on_accept: clients until there are no more, or no descriptor left, and the listener rests.
Accept ==
  /\ Handling /\ Entry.conn = Listener
  /\ \E k \in Clients : Join(k, TRUE)
  /\ UNCHANGED <<pc, engine, batch, at, looked, accepting>>
AcceptEnd ==
  /\ Handling /\ Entry.conn = Listener
  /\ batch' = Tail(batch)
  /\ accepting' \in {accepting, FALSE}
  /\ UNCHANGED <<conn, items, pc, engine, at, looked>>

\* sweep_idle: expired venues' connections, then the clients, backwards. A look may close
\* the client, and others with it: a hedge's legs go with their client, and the last leg
\* takes its client.
BatchOver == pc = "batch" /\ ~ engine /\ batch = <<>>
SweepBegin ==
  /\ BatchOver
  /\ pc' = "reap" /\ engine' = TRUE
  /\ UNCHANGED <<conn, items, batch, at, looked, accepting>>
WalkBegin ==
  /\ pc = "reap" /\ ~ engine
  /\ pc' = "sweep" /\ at' = Len(items) /\ looked' = {}
  /\ UNCHANGED <<conn, items, engine, batch, accepting>>
LookAt(k) == looked' = looked \union {k} /\ engine' = TRUE
SweepOne_Forward ==
  /\ pc = "sweep" /\ ~ engine /\ at > 0
  /\ at' = at - 1
  /\ IF Cardinality(looked) >= Len(items) THEN UNCHANGED <<looked, engine>>
     ELSE LookAt(items[Cardinality(looked) + 1])
  /\ UNCHANGED <<conn, items, pc, batch, accepting>>
SweepOne ==
  /\ pc = "sweep" /\ ~ engine /\ at > 0
  /\ at' = at - 1
  /\ IF at > Len(items) THEN UNCHANGED <<looked, engine>> ELSE LookAt(items[at])
  /\ UNCHANGED <<conn, items, pc, batch, accepting>>
SweepEnd ==
  /\ pc = "sweep" /\ ~ engine /\ at = 0
  /\ pc' = "free"
  /\ UNCHANGED <<conn, items, engine, batch, at, looked, accepting>>

\* The batch is over, swept or swept too lately to be swept again: what was closed is freed,
\* and the listener may have rested enough.
FreeDoomed ==
  /\ pc = "free" \/ BatchOver
  /\ conn' = [k \in Conns |-> IF conn[k].st = "doomed" THEN Free ELSE conn[k]]
  /\ accepting' \in {accepting, TRUE}
  /\ pc' = "wait" /\ looked' = {}
  /\ UNCHANGED <<items, engine, batch, at>>

Next ==
  \/ Stage \/ Dial \/ AddLeg \/ PauseOrResume \/ Drop \/ Return
  \/ Wait \/ ReadHalf \/ WriteHalf \/ NextEntry \/ Accept \/ AcceptEnd
  \/ SweepBegin \/ WalkBegin \/ SweepOne \/ SweepEnd \/ FreeDoomed
Spec == Init /\ [][Next]_vars

-----------------------------------------------------------------------------
(* Properties. *)

\* An event still to be handled, and the registry the sweep walks, name no connection that
\* has been freed: not one closed by an earlier event of its batch, by the other direction
\* of its own, or by the sweep.
EntriesLive ==
  /\ \A i \in DOMAIN batch : batch[i].conn # Listener => conn[batch[i].conn].st # "free"
  /\ \A i \in DOMAIN items : conn[items[i]].st = "live" /\ conn[items[i]].slot = i

\* A sweep looks at every client it began with that outlives it, though each close moves
\* another client to a new place in the registry while it is walked, and legs may join it
\* meanwhile: no deadline is skipped.
SweepLooksAtAll == pc = "free" => {items[i] : i \in DOMAIN items} \subseteq looked

\* The socket carries a session's records in the order it made them, its own among the
\* request's, and a request judged sent is on the socket whole: no part of it waits inside
\* the session or behind it.
WireWhole ==
  \A k \in Live(conn) :
    /\ \A i \in DOMAIN conn[k].wire : conn[k].wire[i] = i
    /\ RequestSent(conn[k]) => Cardinality({i \in DOMAIN conn[k].wire : i \in conn[k].data}) = conn[k].staged

\* Whenever the worker waits, a connection with bytes its socket could take is armed for
\* the writable event that sends them: none is left to a read that may never come.
OwedArmed ==
  pc = "wait" =>
    \A k \in Live(conn) :
      LET c == conn[k]
      IN c.tlsOut # <<>> \/ c.staging # <<>> \/ (c.out > 0 /\ (k \notin Tls \/ Handshook(c))) => c.armed
=============================================================================
