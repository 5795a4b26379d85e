------------------------------ MODULE UringConn ------------------------------
(***************************************************************************)
(* The io_uring backend's connections (io/uring_io.cpp, core/outbuf.hpp):  *)
(* operations queued in the submission ring, held by the kernel, and       *)
(* completed after the code has moved on; a send that pins the bytes the   *)
(* kernel reads; one multishot receive, cancelled to pause and re-armed to *)
(* resume; a close that frees a connection only when nothing refers to it. *)
(*                                                                         *)
(* A connection is a slot: the address and the fd a freed one leaves to    *)
(* the next, told apart by the generation `g'.  What the engine does in    *)
(* its callbacks (stage a reply, pause, close, dial) is an action of its   *)
(* own, possible between any two completions.                              *)
(***************************************************************************)
EXTENDS Integers, Sequences, FiniteSets, Functions

CONSTANTS Client, Upstream,  \* the slots
          Depth,             \* entries of the submission ring
          MaxGen,            \* connections a slot has in turn
          MaxBytes,          \* bytes staged on one connection
          MaxReads,          \* completions with data on one connection
          MaxPauses,         \* times reads are paused on one connection
          MaxCq,             \* completions unread when the kernel adds its own
          FlushFails,        \* io_uring_enter may refuse the flush of a full ring
          DrainFails,        \* it may refuse (EBUSY, EAGAIN) while draining
          None

ASSUME UringConstants ==
  /\ Client \cap Upstream = {} /\ None \notin Client \cup Upstream
  /\ IsFiniteSet(Client \cup Upstream)
  /\ Depth \in Nat \ {0} /\ MaxGen \in Nat /\ MaxBytes \in Nat /\ MaxReads \in Nat
  /\ MaxPauses \in Nat /\ MaxCq \in Nat \ {0}

VARIABLES k,     \* the connections
          r,     \* the rings: sq, ker (what the kernel holds), cq; and, a history,
                 \* lost: the connections whose cancel found no entry
          mode,  \* the loop: "run", "drain", then "ended" (drained) or "quit"
          stop,  \* draining: the live connections still to be cancelled
          heard  \* history: the bytes each connection's peer has received

vars == <<k, r, mode, stop, heard>>

Conn == Client \cup Upstream

\* A slot no connection is in.
Vacant(g) ==
  [st |-> "none", g |-> g, inflight |-> 0, armed |-> FALSE, paused |-> FALSE,
   connected |-> FALSE, mate |-> None, front |-> <<>>, off |-> 0, back |-> <<>>,
   pinned |-> FALSE, staged |-> 0, reads |-> 0, pauses |-> 0]

Init == /\ k = [c \in Conn |-> Vacant(0)]
        /\ r = [sq |-> <<>>, ker |-> {}, cq |-> <<>>, lost |-> {}]
        /\ mode = "run"
        /\ stop = {}
        /\ heard = [c \in Conn |-> <<>>]

-----------------------------------------------------------------------------
(* OutBuf: the front half the transport reads, and the back half staged    *)
(* behind a pinned front.                                                  *)

\* stage().append: behind a pinned front; a drained front is reset first.
Stage(x, b) ==
  IF x.pinned THEN [x EXCEPT !.back = Append(@, b)]
  ELSE IF x.off # 0 /\ x.off = Len(x.front) THEN [x EXCEPT !.front = <<b>>, !.off = 0]
  ELSE [x EXCEPT !.front = Append(@, b)]

\* Mutant: what staged during a partial send goes before the rest of it.
SentBytes_BackFirst(x, n) ==
  LET off == x.off + n IN
  IF x.back = <<>> THEN [x EXCEPT !.off = off, !.pinned = FALSE]
  ELSE [x EXCEPT !.front = x.back \o SubSeq(x.front, off + 1, Len(x.front)), !.off = 0,
                 !.back = <<>>, !.pinned = FALSE]

\* sent(n): n bytes left; unpinned; what staged folds in behind the rest.
SentBytes(x, n) ==
  LET off == x.off + n IN
  IF x.back = <<>> THEN [x EXCEPT !.off = off, !.pinned = FALSE]
  ELSE IF off = Len(x.front)
  THEN [x EXCEPT !.front = x.back, !.off = 0, !.back = <<>>, !.pinned = FALSE]
  ELSE [x EXCEPT !.front = @ \o x.back, !.off = off, !.back = <<>>, !.pinned = FALSE]

Idle(x)  == x.off = Len(x.front) /\ x.back = <<>>
Unsent(x) == Len(x.front) - x.off

-----------------------------------------------------------------------------
(* The rings.  Helpers map a state s = [k, r] to the set of those it may   *)
(* become.                                                                 *)

Op(op, x, c) == [op |-> op, c |-> c, g |-> x.g, n |-> 0]

\* A completion that leaves its operation out: a multishot with more to come.
Continues(d) == d.op = "recv" /\ d.more /\ d.res = "data"

Done(o, res, n, more) == [op |-> o.op, c |-> o.c, g |-> o.g, res |-> res, n |-> n, more |-> more]

Cancels == {"cancel", "cancelRecv"}

\* Cancel e finds operation o: any on the fd, or the receive alone.
Finds(e, o) == e.c = o.c /\ (e.op = "cancel" \/ (e.op = "cancelRecv" /\ o.op = "recv"))

\* The operations among the entries, and those of them and of the kernel's own
\* that a cancel finds when its turn comes.
Taken(q) == {q.sq[i] : i \in {j \in DOMAIN q.sq : q.sq[j].op \notin Cancels}}
Hit(q) ==
  {o \in q.ker : \E i \in DOMAIN q.sq : Finds(q.sq[i], o)}
  \cup {q.sq[i] : i \in {j \in DOMAIN q.sq : /\ q.sq[j].op \notin Cancels
                                             /\ \E l \in DOMAIN q.sq : j < l /\ Finds(q.sq[l], q.sq[j])}}

\* submit: the kernel takes every entry, and completes what a cancel finds at
\* once, in any order.
Flush(q) ==
  LET hit == Hit(q) IN
  {[sq   |-> <<>>,
    ker  |-> (q.ker \cup Taken(q)) \ hit,
    cq   |-> q.cq \o [i \in 1..Cardinality(hit) |-> Done(p[i], "cancelled", 0, FALSE)],
    lost |-> q.lost]
     : p \in Bijection(1..Cardinality(hit), hit)}

\* next_sqe, then the entry filled in: a full ring is flushed once.
Puts(q, e) ==
  IF Len(q.sq) < Depth THEN {[ok |-> TRUE, r |-> [q EXCEPT !.sq = Append(@, e)]]}
  ELSE {[ok |-> TRUE, r |-> [f EXCEPT !.sq = <<e>>]] : f \in Flush(q)}
       \cup IF FlushFails THEN {[ok |-> FALSE, r |-> q]} ELSE {}

\* submit_cancel: everything on the fd, if an entry is to be had.
SubmitCancel(q, x, c) ==
  {IF p.ok THEN p.r ELSE [p.r EXCEPT !.lost = @ \cup {<<c, x.g>>}] : p \in Puts(q, Op("cancel", x, c))}

\* Mutant: a doomed connection is freed at once, as epoll's would be.
MaybeFree_AtOnce(x) == IF x.st = "doomed" THEN Vacant(x.g + 1) ELSE x

\* maybe_free: doomed, and no completion still refers to it.
MaybeFree(x) == IF x.st = "doomed" /\ x.inflight = 0 THEN Vacant(x.g + 1) ELSE x

\* Mutant: shut down only, which a multishot receive outlives.
CloseOne_NoCancel(s, c) ==
  LET freed == MaybeFree([s.k[c] EXCEPT !.st = "doomed", !.mate = None]) IN
  {[s EXCEPT !.k = [d \in Conn |-> IF d = c THEN freed
                                  ELSE IF d = s.k[c].mate THEN [s.k[d] EXCEPT !.mate = None]
                                  ELSE s.k[d]]]}

\* close of one connection: forgotten, shut down, its operations cancelled,
\* freed when nothing is in flight.
CloseOne(s, c) ==
  LET x     == s.k[c]
      other == x.mate
      freed == MaybeFree([x EXCEPT !.st = "doomed", !.mate = None])
  IN  {[k |-> [d \in Conn |-> IF d = c THEN freed
                              ELSE IF d = other THEN [s.k[d] EXCEPT !.mate = None] ELSE s.k[d]],
        r |-> q] : q \in SubmitCancel(s.r, x, c)}

\* UringIo::close: a client takes its upstream along.
Close(s, c) ==
  IF s.k[c].st # "live" THEN {s}
  ELSE LET u == IF c \in Client THEN s.k[c].mate ELSE None IN
       UNION {IF u = None THEN {t} ELSE CloseOne(t, u) : t \in CloseOne(s, c)}

\* drop_sq_full: the pair cannot progress; both legs end together.
DropSqFull(s, c) ==
  Close(s, IF c \in Upstream /\ s.k[c].mate # None THEN s.k[c].mate ELSE c)

Arm(x) == [x EXCEPT !.inflight = @ + 1, !.armed = TRUE]
Pin(x) == [x EXCEPT !.inflight = @ + 1, !.pinned = TRUE]

\* arm_recv.
ArmRecv(s, c) ==
  UNION {IF p.ok THEN {[k |-> [s.k EXCEPT ![c] = Arm(@)], r |-> p.r]}
         ELSE DropSqFull(s, c) : p \in Puts(s.r, Op("recv", s.k[c], c))}

\* submit_send: the one place that pins.
SubmitSend(s, c) ==
  LET x == s.k[c] IN
  UNION {IF p.ok THEN {[k |-> [s.k EXCEPT ![c] = Pin(@)], r |-> p.r]}
         ELSE DropSqFull(s, c) : p \in Puts(s.r, [Op("send", x, c) EXCEPT !.n = Unsent(x)])}

\* send: behind one in flight, its completion sends the rest.
Send(s, c) == IF s.k[c].pinned \/ Idle(s.k[c]) THEN {s} ELSE SubmitSend(s, c)

Now == [k |-> k, r |-> r]

\* The next state is one of S.
Becomes(S) == \E s \in S : k' = s.k /\ r' = s.r

-----------------------------------------------------------------------------
(* What the engine asks of the backend.                                    *)

\* on_accept: a client's connection, its receive armed.
Accept(c) ==
  /\ mode = "run" /\ c \in Client
  /\ k[c].st = "none" /\ k[c].g < MaxGen
  /\ Becomes(ArmRecv([Now EXCEPT !.k[c].st = "live", !.k[c].connected = TRUE], c))
  /\ heard' = [heard EXCEPT ![c] = <<>>]
  /\ UNCHANGED <<mode, stop>>

\* connect, the request staged: for client c.  A full ring fails the acquire.
Connect(u, c) ==
  /\ mode = "run" /\ u \in Upstream /\ c \in Client
  /\ k[u].st = "none" /\ k[u].g < MaxGen
  /\ k[c].st = "live" /\ k[c].mate = None
  /\ \E p \in Puts(r, Op("connect", k[u], u)) :
       /\ p.ok
       /\ r' = p.r
       /\ k' = [k EXCEPT ![u] = [Vacant(k[u].g) EXCEPT !.st = "live", !.inflight = 1,
                                   !.front = <<1>>, !.staged = 1, !.mate = c],
                         ![c].mate = u]
  /\ heard' = [heard EXCEPT ![u] = <<>>]
  /\ UNCHANGED <<mode, stop>>

\* Bytes staged on a connection, and sent.
StageAndSend(c) ==
  /\ mode = "run"
  /\ k[c].st = "live" /\ k[c].connected /\ k[c].staged < MaxBytes
  /\ LET b == k[c].staged + 1
         x == [Stage(k[c], b) EXCEPT !.staged = b]
     IN  Becomes(Send([Now EXCEPT !.k[c] = x], c))
  /\ UNCHANGED <<mode, stop, heard>>

\* Mutant: reads resume by clearing the flag alone.
Resumes_FlagOnly(c) == {[Now EXCEPT !.k[c].paused = FALSE]}

\* set_read(on): armed at once, unless the receive is still to complete, whose
\* completion then re-arms.
Resumes(c) ==
  LET s == [Now EXCEPT !.k[c].paused = FALSE] IN
  IF k[c].armed THEN {s} ELSE ArmRecv(s, c)

\* set_read(off): the receive is cancelled; without an entry it goes on.
Pauses(c) ==
  LET m == [k EXCEPT ![c].pauses = @ + 1] IN
  IF ~k[c].armed THEN {[k |-> [m EXCEPT ![c].paused = TRUE], r |-> r]}
  ELSE {[k |-> [m EXCEPT ![c].paused = p.ok], r |-> p.r]
          : p \in Puts(r, Op("cancelRecv", k[c], c))}

SetRead(c) ==
  /\ mode = "run"
  /\ k[c].st = "live" /\ k[c].connected
  /\ k[c].paused \/ k[c].pauses < MaxPauses
  /\ Becomes(IF k[c].paused THEN Resumes(c) ELSE Pauses(c))
  /\ UNCHANGED <<mode, stop, heard>>

\* A connection closed by the engine: a deadline, a refusal to pool, an abort.
CloseConn(c) ==
  /\ mode = "run"
  /\ k[c].st = "live"
  /\ Becomes(Close(Now, c))
  /\ UNCHANGED <<mode, stop, heard>>

-----------------------------------------------------------------------------
(* The kernel.                                                             *)

\* submit_and_wait.
Enter ==
  /\ mode \in {"run", "drain"} /\ stop = {} /\ r.sq # <<>>
  /\ r' \in Flush(r)
  /\ UNCHANGED <<k, mode, stop, heard>>

Post(o, d, ends) == r' = [r EXCEPT !.cq = Append(@, d), !.ker = IF ends THEN @ \ {o} ELSE @]

\* A receive: data and more to come, data and the multishot over, no buffer,
\* or the peer's EOF, which may still carry F_MORE.  Shutdown alone does not
\* end it.
KernelRecv(o) ==
  /\ o.op = "recv"
  /\ \/ /\ k[o.c].reads < MaxReads
        /\ \E more \in BOOLEAN : Post(o, Done(o, "data", 0, more), ~more)
        /\ k' = [k EXCEPT ![o.c].reads = @ + 1]
     \/ /\ k[o.c].reads < MaxReads
        /\ Post(o, Done(o, "nobufs", 0, FALSE), TRUE)
        /\ k' = [k EXCEPT ![o.c].reads = @ + 1]
     \/ /\ \E more \in BOOLEAN : Post(o, Done(o, "eof", 0, more), TRUE)
        /\ UNCHANGED k
  /\ UNCHANGED <<mode, stop, heard>>

\* A send: the kernel reads the bytes it was pointed at, all or some, or fails.
KernelSend(o) ==
  LET x == k[o.c] IN
  /\ o.op = "send"
  /\ \/ \E n \in 1..o.n :
          /\ Post(o, Done(o, "data", n, FALSE), TRUE)
          /\ heard' = [heard EXCEPT ![o.c] = @ \o SubSeq(x.front, x.off + 1, x.off + n)]
     \/ Post(o, Done(o, "failed", 0, FALSE), TRUE) /\ UNCHANGED heard
  /\ UNCHANGED <<k, mode, stop>>

KernelConnect(o) ==
  /\ o.op = "connect"
  /\ \E res \in {"data", "failed"} : Post(o, Done(o, res, 0, FALSE), TRUE)
  /\ UNCHANGED <<k, mode, stop, heard>>

Kernel ==
  /\ Len(r.cq) < MaxCq
  /\ \E o \in r.ker : KernelRecv(o) \/ KernelSend(o) \/ KernelConnect(o)

-----------------------------------------------------------------------------
(* Completions: on_cqe.                                                    *)

\* on_recv: re-armed when it ended by itself; an EOF or an error closes.
OnRecv(s, d) ==
  LET c == d.c IN
  CASE d.res \in {"nobufs", "cancelled"} -> IF s.k[c].paused THEN {s} ELSE ArmRecv(s, c)
    [] d.res = "data" -> IF d.more \/ s.k[c].paused THEN {s} ELSE ArmRecv(s, c)
    [] OTHER -> Close(s, c)

\* on_send: unpinned, then the rest, partial or staged behind.
OnSend(s, d) ==
  LET c == d.c
      t == [s EXCEPT !.k[c] = SentBytes(@, d.n)]
  IN  IF d.res # "data" THEN Close(t, c)
      ELSE IF Idle(t.k[c]) THEN {t} ELSE SubmitSend(t, c)

\* on_connect: the receive for the connection's life, then the request.
OnConnect(s, d) ==
  LET c == d.c IN
  IF d.res # "data" THEN Close(s, c)
  ELSE UNION {IF t.k[c].st = "live" /\ t.k[c].g = d.g THEN SubmitSend(t, c) ELSE {t}
                : t \in ArmRecv([s EXCEPT !.k[c].connected = TRUE], c)}

\* The slot a completion gives back; a multishot with more to come keeps its own.
Released(x, d) ==
  [x EXCEPT !.inflight = IF Continues(d) THEN @ ELSE @ - 1,
            !.armed = IF d.op = "recv" /\ ~Continues(d) THEN FALSE ELSE @]

\* A completion of a doomed connection, or while draining: only the books.
Discard(x, d) == MaybeFree(IF d.op = "send" THEN SentBytes(x, 0) ELSE x)

OnCqe(d) ==
  LET s == [k |-> [k EXCEPT ![d.c] = Released(@, d)], r |-> [r EXCEPT !.cq = Tail(@)]] IN
  IF mode = "drain" \/ s.k[d.c].st # "live"
  THEN {[s EXCEPT !.k[d.c] = Discard(@, d)]}
  ELSE CASE d.op = "recv" -> OnRecv(s, d)
         [] d.op = "send" -> OnSend(s, d)
         [] d.op = "connect" -> OnConnect(s, d)

Reap ==
  /\ mode \in {"run", "drain"} /\ stop = {} /\ r.cq # <<>>
  /\ Becomes(OnCqe(Head(r.cq)))
  /\ UNCHANGED <<mode, stop, heard>>

-----------------------------------------------------------------------------
(* The end of run().                                                       *)

\* _inflight > 0, by connection.
InFlight == {c \in Conn : k[c].inflight > 0}

\* Mutant: only the connections in a pair are stopped, not the idle ones.
ToStop_Paired == {c \in Conn : k[c].st = "live" /\ k[c].mate # None}

\* Every live connection, pooled and in flight alike; closed ones were cancelled
\* by their close.
ToStop == {c \in Conn : k[c].st = "live"}

\* The loop is left: from here on completions are only counted.
BeginDrain ==
  /\ mode = "run"
  /\ mode' = "drain"
  /\ stop' = ToStop
  /\ UNCHANGED <<k, r, heard>>

\* stop_conn: the operations of one fd cancelled, while the kernel goes on.
StopConn(c) ==
  /\ c \in stop
  /\ stop' = stop \ {c}
  /\ r' \in SubmitCancel(r, k[c], c)
  /\ UNCHANGED <<k, mode, heard>>

\* Nothing in flight: run() returns, and the engine frees what is left.
EndDrain ==
  /\ mode = "drain" /\ stop = {} /\ InFlight = {}
  /\ mode' = "ended"
  /\ UNCHANGED <<k, r, stop, heard>>

\* submit_and_wait refused with EBUSY or EAGAIN: the drain loop leaves, run()
\* returns and the engine frees what is left.
QuitDrain ==
  /\ DrainFails
  /\ mode = "drain" /\ stop = {} /\ InFlight # {}
  /\ mode' = "quit"
  /\ UNCHANGED <<k, r, stop, heard>>

Next ==
  \/ \E c \in Conn : Accept(c) \/ StageAndSend(c) \/ SetRead(c) \/ CloseConn(c)
                     \/ \E d \in Conn : Connect(c, d)
  \/ Enter \/ Kernel \/ Reap
  \/ BeginDrain \/ (\E c \in Conn : StopConn(c)) \/ EndDrain \/ QuitDrain

Spec == Init /\ [][Next]_vars

\* The loop submits and reaps; once stopping, it ends its drain.
FairSpec ==
  /\ Spec
  /\ WF_vars(Enter) /\ WF_vars(Reap) /\ WF_vars(\E c \in Conn : StopConn(c)) /\ WF_vars(EndDrain)

-----------------------------------------------------------------------------
(* Properties.                                                             *)

Kinds  == {"recv", "send", "connect"}
Results == {"data", "nobufs", "eof", "failed", "cancelled"}
Connections ==
  [st : {"none", "live", "doomed"}, g : Nat, inflight : Nat, armed : BOOLEAN,
   paused : BOOLEAN, connected : BOOLEAN, mate : Conn \cup {None}, front : Seq(Nat),
   off : Nat, back : Seq(Nat), pinned : BOOLEAN, staged : Nat, reads : Nat, pauses : Nat]
Operations  == [op : Kinds, c : Conn, g : Nat, n : Nat]
Entries     == [op : Kinds \cup Cancels, c : Conn, g : Nat, n : Nat]
Completions == [op : Kinds, c : Conn, g : Nat, res : Results, n : Nat, more : BOOLEAN]
Rings       == [sq : Seq(Entries), ker : SUBSET Operations, cq : Seq(Completions),
                lost : SUBSET (Conn \X Nat)]

\* Every variable has its type.
TypeOK ==
  /\ k \in [Conn -> Connections]
  /\ r \in Rings /\ Len(r.sq) <= Depth
  /\ mode \in {"run", "drain", "ended", "quit"}
  /\ stop \in SUBSET Conn
  /\ heard \in [Conn -> Seq(Nat)]

Ops(c)   == {i \in 1..Len(r.sq) : r.sq[i].c = c /\ r.sq[i].op \notin Cancels}
Held(c)  == {o \in r.ker : o.c = c}
Final(c) == {i \in 1..Len(r.cq) : r.cq[i].c = c /\ ~Continues(r.cq[i])}

\* A connection's count is exactly what still refers to it, queued, with the
\* kernel or completed and unread: it moves in lockstep, so zero means zero.
InflightExact ==
  \A c \in Conn : k[c].inflight = Cardinality(Ops(c)) + Cardinality(Held(c)) + Cardinality(Final(c))

\* Nothing the kernel holds or has completed refers to a freed connection, or
\* to the next one in its place.
NoUseAfterFree ==
  /\ \A o \in r.ker : k[o.c].st # "none" /\ k[o.c].g = o.g
  /\ \A i \in 1..Len(r.cq) : k[r.cq[i].c].st # "none" /\ k[r.cq[i].c].g = r.cq[i].g

\* run() returns with an operation still with the kernel only by a refused wait
\* (uring_io.cpp:570), and then of a connection it counts as in flight and the
\* engine is about to free: the one way out of "reaped until none is outstanding,
\* so no kernel write lands in freed memory" (:557).
DrainedAtEnd ==
  mode \in {"ended", "quit"} =>
    \A o \in r.ker : mode = "quit" /\ k[o.c].st # "none" /\ k[o.c].g = o.g /\ k[o.c].inflight > 0

\* What the drain's comment says of every return (uring_io.cpp:556-558).
DrainReapsAll == mode \in {"ended", "quit"} => r.ker = {}

\* Pinned means exactly one send is out.
PinnedOneSend ==
  \A c \in Conn :
    LET n == Cardinality({i \in Ops(c) : r.sq[i].op = "send"})
             + Cardinality({o \in Held(c) : o.op = "send"})
             + Cardinality({i \in Final(c) : r.cq[i].op = "send"})
    IN  n = IF k[c].pinned THEN 1 ELSE 0

\* While the kernel may read a connection's front, it does not move.
PinnedStill ==
  [][\A c \in Conn : (k[c].pinned /\ k'[c].pinned /\ k'[c].g = k[c].g
                        /\ (\E o \in r.ker \cap r'.ker : o.c = c /\ o.op = "send"))
                       => k'[c].front = k[c].front /\ k'[c].off = k[c].off]_vars

\* A peer receives a connection's bytes in the order they were staged, none
\* twice, none skipped, however sends are cut and staged over.
InOrder == \A c \in Conn : heard[c] = [i \in 1..Len(heard[c]) |-> i]

\* Reads are never lost: a live connection that is not paused has a receive
\* out, however pauses, resumes and the kernel's own endings cross.
ReadsHeld ==
  \A c \in Conn :
    mode = "run" /\ k[c].st = "live" /\ k[c].connected /\ ~k[c].paused => k[c].armed

\* Every closed connection whose cancel got an entry is freed while the loop
\* runs.  Of one whose cancel found the ring full and unflushable nothing ends
\* the receive (submit_cancel returns, uring_io.cpp:199), so that "every op on
\* the fd completes" (:235) is not said of it.
ClosedIsFreed ==
  \A c \in Conn : k[c].st = "doomed" /\ <<c, k[c].g>> \notin r.lost
                    ~> k[c].st # "doomed" \/ mode \in {"ended", "quit"}

\* A drain ends, by its count or by a refused wait, unless it waits for a
\* connection whose cancel got no entry.
DrainEnds ==
  mode = "drain" ~> mode # "drain" \/ \E c \in Conn : k[c].inflight > 0 /\ <<c, k[c].g>> \in r.lost
=============================================================================
