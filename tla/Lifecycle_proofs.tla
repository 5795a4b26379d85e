-------------------------- MODULE Lifecycle_proofs --------------------------
(***************************************************************************)
(* Proofs about Lifecycle, for any clients, venues, requests and bounds.   *)
(***************************************************************************)
EXTENDS Lifecycle, FiniteSetTheorems, SequenceTheorems, TLAPS

-----------------------------------------------------------------------------
(* The inductive invariant.                                                *)

\* A sequence, of whatever.
IsSeq(s) == Len(s) \in Nat /\ s = [i \in 1..Len(s) |-> s[i]]

Phases    == {"Idle", "Dispatched", "Responding", "Streaming", "Replying"}
ClientOps == {"frame", "gate", "dispatch", "error", "failed", "respond", "flush"}
UpOps     == {"send", "lost", "upBytes", "upEof", "pump", "pumpEof"}

\* The stack: below its head only what a handler still owes when its callee
\* returns, the gate of a client's reads and the EOF read along with bytes,
\* and that of one upstream.
Entries == (ClientOps \X Client) \cup (UpOps \X Up)
StackSound(td) ==
  /\ td \in Seq(Entries)
  /\ \A i \in 2..Len(td) : td[i][1] \in {"gate", "upEof"}
  /\ \A i, j \in 2..Len(td) : td[i][1] = "upEof" /\ td[j][1] = "upEof" => td[i] = td[j]

\* The routine at the head of the stack, when it is about x; a gate is as good
\* as none.
At(td, x) == IF td # <<>> /\ td[1][2] = x /\ td[1][1] # "gate" THEN td[1][1] ELSE "none"
Gated(td, c) == \E i \in 1..Len(td) : td[i] = <<"gate", c>>
Owed(td)     == {u \in Up : \E i \in 2..Len(td) : td[i] = <<"upEof", u>>}

ClientShape(x) ==
  x \in [st : {"new", "open", "closed"}, rbuf : Seq(Nat), sent : 0..MaxReq, half : BOOLEAN,
         told : BOOLEAN, n : 0..MaxReq, phase : Phases, up : Up \cup {NoUp}, slot : Venue,
         saved : 0..MaxReq, attempts : 0..(MaxAttempts - 1), out : {x.out}, msg : {x.msg},
         closeAfter : BOOLEAN, streaming : BOOLEAN, ended : BOOLEAN, terminated : BOOLEAN,
         body : Bodies, chunkedOut : BOOLEAN, keepUp : BOOLEAN, bodyDone : BOOLEAN,
         bad : BOOLEAN, said : BOOLEAN, sunk : BOOLEAN, framed : BOOLEAN, paused : BOOLEAN,
         mute : BOOLEAN]

UpShape(y) ==
  y \in [st : {"free", "connecting", "open"}, venue : Venue, c : Client \cup {NoClient},
         fromPool : BOOLEAN, retried : BOOLEAN, eof : BOOLEAN, rbuf : {y.rbuf},
         paused : BOOLEAN, ask : {y.ask}, wire : {"none", "part", "all"}, ans : {y.ans},
         toks : {y.toks}, extra : BOOLEAN]

\* What a client's phase says of the rest.
Mode(st, phase, up, n, streaming, ended, closeAfter, sunk, mute, at) ==
  /\ st # "open" => phase = "Idle"
  /\ at # "none" => st = "open"
  /\ streaming <=> phase = "Streaming"
  /\ closeAfter => phase \in {"Replying", "Streaming"}
  /\ phase \in {"Idle", "Replying"} => up = NoUp
  /\ phase = "Streaming" /\ up = NoUp => ended
  /\ phase # "Idle" \/ at \in {"dispatch", "error", "failed"} => n >= 1
  /\ at = "dispatch" => up = NoUp /\ phase \in {"Idle", "Dispatched"}
  /\ at = "failed" => phase # "Idle"
  /\ at = "respond" => phase # "Streaming"
  /\ at = "flush" => phase = "Streaming"
  /\ sunk => phase = "Idle" /\ at \notin {"dispatch", "error", "failed"}
  /\ mute => st = "closed"

\* The requests buffered, the last of them the last sent.
UpTo(q, s) == q \in Seq(Nat) /\ \A i \in 1..Len(q) : q[i] = s - Len(q) + i

\* The requests buffered: those after the one in hand, and that one itself
\* until it is taken or when it is refused.
Pipe(st, rbuf, sent, n, saved, phase, closeAfter, at) ==
  /\ n <= sent
  /\ saved \in {0, n}
  /\ st = "new" => rbuf = <<>> /\ sent = 0
  /\ st = "open" =>
       /\ UpTo(rbuf, sent)
       /\ Len(rbuf) \in {sent - n, sent - n + 1}
       /\ at = "dispatch" => Len(rbuf) = sent - n + 1
       /\ at \notin {"dispatch", "error"} /\ ~closeAfter => Len(rbuf) = sent - n

\* Nothing waits for what cannot come.
Awake(st, phase, up, rbuf, half, out, ended, paused, at, gated) ==
  /\ phase \in {"Dispatched", "Responding"} /\ up = NoUp => at \in {"failed", "error", "dispatch"}
  /\ phase = "Replying" => out # <<>>
  /\ phase = "Streaming" /\ ended /\ at # "flush" => out # <<>>
  /\ st # "open" => ~paused
  /\ paused /\ phase = "Idle" => gated
  /\ st = "open" /\ phase = "Idle" /\ rbuf # <<>> =>
       (half /\ Len(rbuf) = 1) \/ at \in {"frame", "dispatch", "error"}

ClientSound(x, at, gated) ==
  /\ ClientShape(x) /\ IsSeq(x.out)
  /\ Mode(x.st, x.phase, x.up, x.n, x.streaming, x.ended, x.closeAfter, x.sunk, x.mute, at)
  /\ Pipe(x.st, x.rbuf, x.sent, x.n, x.saved, x.phase, x.closeAfter, at)
  /\ Awake(x.st, x.phase, x.up, x.rbuf, x.half, x.out, x.ended, x.paused, at, gated)

\* One record a request, once it is over; and no answered request in hand
\* that may be sent again.
Recorded(c, n, phase, mute, at, rc) ==
  \A m \in 1..MaxReq :
    rc[<<c, m>>] = IF \/ m < n
                      \/ m = n /\ phase = "Idle" /\ ~mute /\ at \notin {"dispatch", "error"}
                   THEN 1 ELSE 0
Unanswered(c, n, phase, at, an) ==
  \A m \in 1..MaxReq : <<c, m>> \in an =>
    m <= n /\ (m = n => phase # "Dispatched" /\ at # "dispatch")

Local(c, x, at, gated, rc, an) ==
  /\ ClientSound(x, at, gated)
  /\ Recorded(c, x.n, x.phase, x.mute, at, rc)
  /\ Unanswered(c, x.n, x.phase, at, an)

\* Who owns an upstream: the client that names it, or the pool.  O: those
\* whose EOF is still to be told.
UpSound(y, owed) ==
  /\ UpShape(y) /\ IsSeq(y.rbuf)
  /\ y.st = "free" => y.c = NoClient /\ ~y.paused
  /\ owed => y.st = "free" \/ y.eof

Pair(c, n, phase, out, y) ==
  /\ y.c = c /\ y.st # "free"
  /\ y.ask = <<c, n>>
  /\ y.paused => phase = "Streaming" /\ out # <<>>
  /\ y.st = "connecting" => phase = "Dispatched"

Pairs(m, w) ==
  /\ \A c \in Client : m[c].up # NoUp =>
       m[c].up \in Up /\ Pair(c, m[c].n, m[c].phase, m[c].out, w[m[c].up])
  /\ \A u \in Up : w[u].c # NoClient => m[w[u].c].up = u

Unpaired(y) == y.st # "free" /\ y.c = NoClient
Fit(y, v) ==
  /\ y.st = "open" /\ y.venue = v /\ y.c = NoClient
  /\ y.rbuf = <<>> /\ y.wire = "all" /\ ~y.eof /\ ~y.paused

PoolSound(w, p) ==
  /\ p \in [Venue -> Seq(Up)]
  /\ \A v \in Venue : \A i, j \in 1..Len(p[v]) : p[v][i] = p[v][j] => i = j
  /\ \A v \in Venue : \A i \in 1..Len(p[v]) : Fit(w[p[v][i]], v)
  /\ \A u \in Up : Unpaired(w[u]) => \E i \in 1..Len(p[w[u].venue]) : p[w[u].venue][i] = u
  /\ Cardinality({u \in Up : Unpaired(w[u])}) <= PoolCap

Owned(m, w, p, O) ==
  /\ \A u \in Up : UpSound(w[u], u \in O)
  /\ Pairs(m, w)
  /\ PoolSound(w, p)

\* What the routine at the head of the stack needs of its upstream.
HeadFit(m, w, td) ==
  td # <<>> => LET op == td[1][1]
                   u  == td[1][2]
               IN  /\ op \in UpOps \ {"upEof"} => w[u].c # NoClient
                   /\ op = "upBytes" => w[u].st = "open"
                   /\ op = "upEof" => w[u].st = "free" \/ w[u].c # NoClient
                   /\ op \in {"pump", "pumpEof"} => m[w[u].c].phase = "Streaming"

Inv ==
  /\ DOMAIN cl = Client /\ DOMAIN us = Up
  /\ recs \in [Request -> Nat] /\ answered \subseteq Request /\ fin \subseteq Request
  /\ StackSound(todo)
  /\ \A c \in Client : Local(c, cl[c], At(todo, c), Gated(todo, c), recs, answered)
  /\ Owned(cl, us, pool, Owed(todo))
  /\ HeadFit(cl, us, todo)

-----------------------------------------------------------------------------
(* Sequences of whatever.                                                  *)

LEMMA SeqIs ==
  ASSUME NEW S, NEW s \in Seq(S)
  PROVE  IsSeq(s)
BY LenProperties DEF IsSeq

LEMMA IsSeqOf ==
  ASSUME NEW s, IsSeq(s)
  PROVE  s \in Seq({s[i] : i \in 1..Len(s)})
<1> DEFINE S == {s[i] : i \in 1..Len(s)}
<1>1. s \in [1..Len(s) -> S]
  BY DEF IsSeq
<1> QED BY <1>1, SeqDef DEF IsSeq

LEMMA FcnIs ==
  ASSUME NEW n \in Nat, NEW f, DOMAIN f = 1..n, f = [i \in DOMAIN f |-> f[i]]
  PROVE  IsSeq(f) /\ Len(f) = n
<1> DEFINE S == {f[i] : i \in 1..n}
<1>1. f \in [1..n -> S]
  OBVIOUS
<1>2. f \in Seq(S)
  BY <1>1, SeqDef
<1>3. Len(f) = n
  BY <1>2, LenProperties
<1> QED BY <1>2, <1>3, SeqIs

LEMMA EmptyIs == IsSeq(<<>>)
BY EmptySeq, SeqIs

LEMMA ConcatIs ==
  ASSUME NEW s, NEW t, IsSeq(s), IsSeq(t)
  PROVE  /\ IsSeq(s \o t)
         /\ s # <<>> => s \o t # <<>>
<1> DEFINE A == {s[i] : i \in 1..Len(s)}
           B == {t[i] : i \in 1..Len(t)}
           S == A \cup B
<1>a. s \in Seq(A) /\ t \in Seq(B)
  BY IsSeqOf
<1> HIDE DEF A, B
<1>1. s \in Seq(S) /\ t \in Seq(S)
  BY <1>a, SeqMonotonic
<1> HIDE DEF S
<1>2. s \o t \in Seq(S) /\ Len(s \o t) = Len(s) + Len(t)
  BY <1>1, ConcatProperties
<1>3. s # <<>> => Len(s) # 0 /\ Len(s) \in Nat /\ Len(t) \in Nat
  BY <1>1, EmptySeq
<1>4. s # <<>> => Len(s \o t) # 0
  BY <1>2, <1>3
<1> QED BY <1>2, <1>4, SeqIs, EmptySeq

LEMMA AppendIs ==
  ASSUME NEW s, NEW e, IsSeq(s)
  PROVE  IsSeq(Append(s, e)) /\ Append(s, e) # <<>>
<1> DEFINE A == {s[i] : i \in 1..Len(s)}
           S == A \cup {e}
<1>a. s \in Seq(A)
  BY IsSeqOf
<1> HIDE DEF A
<1>1. s \in Seq(S) /\ e \in S
  BY <1>a, SeqMonotonic
<1> HIDE DEF S
<1>2. Append(s, e) \in Seq(S) /\ Append(s, e) # <<>>
  BY <1>1, AppendProperties
<1> QED BY <1>2, SeqIs

LEMMA UnsentIs ==
  ASSUME NEW s, IsSeq(s), NEW k \in 0..Len(s)
  PROVE  /\ IsSeq(Unsent(s, k))
         /\ k # Len(s) => Unsent(s, k) # <<>>
<1> DEFINE S == {s[i] : i \in 1..Len(s)}
<1>1. s \in Seq(S) /\ Len(s) \in Nat
  BY IsSeqOf DEF IsSeq
<1> HIDE DEF S
<1>2. /\ SubSeq(s, k + 1, Len(s)) \in Seq(S)
      /\ Len(SubSeq(s, k + 1, Len(s))) = Len(s) - k
  BY <1>1
<1>3. k # Len(s) => Len(SubSeq(s, k + 1, Len(s))) # 0
  BY <1>1, <1>2
<1> QED BY <1>2, <1>3, SeqIs, EmptySeq DEF Unsent

LEMMA TailIs ==
  ASSUME NEW s, IsSeq(s), s # <<>>
  PROVE  IsSeq(Tail(s))
<1> DEFINE S == {s[i] : i \in 1..Len(s)}
<1>1. s \in Seq(S)
  BY IsSeqOf
<1> HIDE DEF S
<1> QED BY <1>1, SeqIs, HeadTailProperties

-----------------------------------------------------------------------------
(* The stack.                                                              *)

\* From stack td to t: the head is done, and op on x is called ("none": no
\* one); what else was owed still is.
Goes(td, t, x, op) ==
  /\ StackSound(t)
  /\ \A c \in Client : At(t, c) = IF c = x THEN op ELSE "none"
  /\ Owed(t) \subseteq Owed(td)
  /\ \A c \in Client : Gated(td, c) => Gated(t, c)

LEMMA Apart == \A c \in Client, u \in Up : c # u
BY LifecycleConstants DEF Up

LEMMA EntryTypes ==
  ASSUME NEW e \in Entries
  PROVE  /\ (e[1] \in ClientOps /\ e[2] \in Client) \/ (e[1] \in UpOps /\ e[2] \in Up)
         /\ e = <<e[1], e[2]>>
<1>1. CASE e \in ClientOps \X Client
  BY <1>1
<1>2. CASE e \in UpOps \X Up
  BY <1>2
<1> QED BY <1>1, <1>2 DEF Entries

\* What a handler still owes when its callee returns.
RestSound(r) ==
  /\ r \in Seq(Entries)
  /\ \A i \in 1..Len(r) : r[i][1] \in {"gate", "upEof"}
  /\ \A i, j \in 1..Len(r) : r[i][1] = "upEof" /\ r[j][1] = "upEof" => r[i] = r[j]
OwedIn(r) == {u \in Up : \E i \in 1..Len(r) : r[i] = <<"upEof", u>>}

LEMMA RestNone == RestSound(<<>>) /\ OwedIn(<<>>) = {} /\ \A c : ~Gated(<<>>, c)
<1>1. <<>> \in Seq(Entries) /\ Len(<<>>) = 0
  BY EmptySeq
<1> QED BY <1>1 DEF RestSound, OwedIn, Gated

LEMMA TailRest ==
  ASSUME NEW td, StackSound(td), td # <<>>
  PROVE  /\ td[1] \in Entries /\ Head(td) = td[1]
         /\ RestSound(Tail(td)) /\ OwedIn(Tail(td)) = Owed(td)
         /\ \A c \in Client : Gated(td, c) => td[1] = <<"gate", c>> \/ Gated(Tail(td), c)
<1> DEFINE t == Tail(td)
<1>1. td \in Seq(Entries)
  BY DEF StackSound
<1>2. /\ Head(td) = td[1] /\ td[1] \in Entries
      /\ t \in Seq(Entries) /\ Len(td) \in Nat \ {0} /\ Len(t) = Len(td) - 1
  BY <1>1
<1>3. \A i \in 1..Len(t) : t[i] = td[i + 1] /\ i + 1 \in 2..Len(td)
  BY <1>1, <1>2
<1>4. \A i \in 2..Len(td) : i - 1 \in 1..Len(t) /\ t[i - 1] = td[i]
  BY <1>1, <1>2
<1> HIDE DEF t
<1>5. RestSound(t)
  <2>1. \A i \in 1..Len(t) : t[i][1] \in {"gate", "upEof"}
    BY <1>3 DEF StackSound
  <2>2. ASSUME NEW i \in 1..Len(t), NEW j \in 1..Len(t), t[i][1] = "upEof", t[j][1] = "upEof"
        PROVE  t[i] = t[j]
    <3>1. /\ i + 1 \in 2..Len(td) /\ j + 1 \in 2..Len(td)
          /\ td[i + 1][1] = "upEof" /\ td[j + 1][1] = "upEof" /\ t[i] = td[i + 1]
          /\ t[j] = td[j + 1]
      BY <1>3, <2>2
    <3>2. \A h, k \in 2..Len(td) : td[h][1] = "upEof" /\ td[k][1] = "upEof" => td[h] = td[k]
      BY DEF StackSound
    <3>3. td[i + 1] = td[j + 1]
      BY ONLY <3>1, <3>2
    <3> QED BY <3>1, <3>3
  <2> QED BY <1>2, <2>1, <2>2 DEF RestSound
<1>6. OwedIn(t) = Owed(td)
  BY <1>2, <1>3, <1>4 DEF Owed, OwedIn
<1>7. ASSUME NEW c \in Client, Gated(td, c), td[1] # <<"gate", c>>
      PROVE  Gated(t, c)
  <2>1. PICK i \in 1..Len(td) : td[i] = <<"gate", c>>
    BY <1>7 DEF Gated
  <2>2. i # 1
    BY <2>1, <1>7
  <2>3. i \in 2..Len(td)
    BY <2>2, <1>2
  <2> QED BY <2>1, <2>3, <1>4 DEF Gated
<1> QED BY <1>2, <1>5, <1>6, <1>7 DEF t

\* t is e, then r.
Fronts(t, e, r) ==
  /\ t \in Seq(Entries) /\ Len(t) = Len(r) + 1 /\ t[1] = e
  /\ \A i \in 1..Len(r) : t[i + 1] = r[i]

LEMMA FrontsConcat ==
  ASSUME NEW r \in Seq(Entries), NEW e \in Entries
  PROVE  Fronts(<<e>> \o r, e, r)
<1> DEFINE t == <<e>> \o r
<1>1. Len(r) \in Nat /\ <<e>> \in Seq(Entries) /\ Len(<<e>>) = 1 /\ <<e>>[1] = e
  OBVIOUS
<1>2. t \in Seq(Entries) /\ Len(t) = Len(r) + 1
  BY <1>1, ConcatProperties
<1>3. \A i \in 1..(Len(<<e>>) + Len(r)) :
        t[i] = IF i <= Len(<<e>>) THEN <<e>>[i] ELSE r[i - Len(<<e>>)]
  BY <1>1, ConcatProperties
<1>4. t[1] = e
  BY <1>1, <1>3
<1>5. ASSUME NEW i \in 1..Len(r) PROVE t[i + 1] = r[i]
  <2>1. i + 1 \in 1..(1 + Len(r)) /\ ~(i + 1 <= 1) /\ (i + 1) - 1 = i
    BY <1>1
  <2> QED BY <2>1, <1>1, <1>3
<1> HIDE DEF t
<1>6. Fronts(t, e, r)
  BY <1>2, <1>4, <1>5 DEF Fronts
<1> QED BY <1>6 DEF t

LEMMA InFront ==
  ASSUME NEW r, RestSound(r), NEW e \in Entries, NEW t, Fronts(t, e, r)
  PROVE  /\ StackSound(t) /\ t # <<>> /\ t[1] = e /\ Owed(t) = OwedIn(r)
         /\ \A c \in Client : Gated(t, c) <=> e = <<"gate", c>> \/ Gated(r, c)
         /\ e[1] = "gate" => RestSound(t) /\ OwedIn(t) = OwedIn(r)
<1>1. r \in Seq(Entries) /\ Len(r) \in Nat
  BY DEF RestSound
<1>2. t \in Seq(Entries) /\ Len(t) = Len(r) + 1 /\ t[1] = e
  BY DEF Fronts
<1>3. t # <<>>
  BY <1>1, <1>2
<1>4. \A i \in 1..Len(r) : i + 1 \in 2..Len(t) /\ t[i + 1] = r[i]
  BY <1>1, <1>2 DEF Fronts
<1>5. ASSUME NEW i \in 2..Len(t)
      PROVE  i - 1 \in 1..Len(r) /\ t[i] = r[i - 1]
  <2>1. i - 1 \in 1..Len(r) /\ (i - 1) + 1 = i
    BY <1>1, <1>2
  <2> QED BY <2>1, <1>4
<1>6. \A i \in 1..Len(t) : i = 1 \/ i \in 2..Len(t)
  BY <1>1, <1>2
<1>7. StackSound(t)
  <2>1. \A i \in 2..Len(t) : t[i][1] \in {"gate", "upEof"}
    BY <1>5 DEF RestSound
  <2>2. ASSUME NEW i \in 2..Len(t), NEW j \in 2..Len(t), t[i][1] = "upEof", t[j][1] = "upEof"
        PROVE  t[i] = t[j]
    BY <2>2, <1>5 DEF RestSound
  <2> QED BY <2>1, <2>2, <1>2 DEF StackSound
<1>8. ASSUME NEW u \in Up
      PROVE  u \in Owed(t) <=> u \in OwedIn(r)
  BY <1>4, <1>5 DEF Owed, OwedIn
<1>9. ASSUME NEW c \in Client
      PROVE  Gated(t, c) <=> e = <<"gate", c>> \/ Gated(r, c)
  <2>1. ASSUME Gated(t, c) PROVE e = <<"gate", c>> \/ Gated(r, c)
    BY <2>1, <1>2, <1>5, <1>6 DEF Gated
  <2>2. ASSUME Gated(r, c) PROVE Gated(t, c)
    <3>1. PICK i \in 1..Len(r) : r[i] = <<"gate", c>>
      BY <2>2 DEF Gated
    <3>2. i + 1 \in 1..Len(t) /\ t[i + 1] = r[i]
      BY <1>1, <1>2, <1>4
    <3> QED BY <3>1, <3>2 DEF Gated
  <2>3. ASSUME e = <<"gate", c>> PROVE Gated(t, c)
    <3>1. 1 \in 1..Len(t)
      BY <1>1, <1>2
    <3> QED BY <3>1, <2>3, <1>2 DEF Gated
  <2> QED BY <2>1, <2>2, <2>3
<1>10. ASSUME e[1] = "gate"
       PROVE  RestSound(t) /\ OwedIn(t) = OwedIn(r)
  <2>1. \A i \in 1..Len(t) : t[i][1] \in {"gate", "upEof"} /\ (t[i][1] = "upEof" => i \in 2..Len(t))
    BY <1>2, <1>5, <1>6, <1>10 DEF RestSound
  <2>2. ASSUME NEW i \in 1..Len(t), NEW j \in 1..Len(t), t[i][1] = "upEof", t[j][1] = "upEof"
        PROVE  t[i] = t[j]
    <3>1. i \in 2..Len(t) /\ j \in 2..Len(t)
      BY <2>1, <2>2
    <3> QED BY <3>1, <2>2, <1>5 DEF RestSound
  <2>3. ASSUME NEW u \in Up
        PROVE  u \in OwedIn(t) <=> u \in OwedIn(r)
    <3>1. ASSUME u \in OwedIn(t) PROVE u \in OwedIn(r)
      <4>1. PICK i \in 1..Len(t) : t[i] = <<"upEof", u>>
        BY <3>1 DEF OwedIn
      <4>2. i \in 2..Len(t)
        BY <4>1, <2>1
      <4> QED BY <4>1, <4>2, <1>5 DEF OwedIn
    <3>2. ASSUME u \in OwedIn(r) PROVE u \in OwedIn(t)
      <4>1. PICK i \in 1..Len(r) : r[i] = <<"upEof", u>>
        BY <3>2 DEF OwedIn
      <4>2. i + 1 \in 1..Len(t) /\ t[i + 1] = r[i]
        BY <1>1, <1>2, <1>4
      <4> QED BY <4>1, <4>2 DEF OwedIn
    <3> QED BY <3>1, <3>2
  <2>4. OwedIn(t) = OwedIn(r)
    BY <2>3 DEF OwedIn
  <2> QED BY <2>1, <2>2, <2>4, <1>2 DEF RestSound
<1>11. Owed(t) = OwedIn(r)
  BY <1>8 DEF Owed, OwedIn
<1> QED BY <1>2, <1>3, <1>7, <1>9, <1>10, <1>11

LEMMA RestStack ==
  ASSUME NEW r, RestSound(r)
  PROVE  /\ StackSound(r) /\ Owed(r) \subseteq OwedIn(r)
         /\ \A c \in Client : At(r, c) = "none"
         /\ r # <<>> => r[1] \in Entries /\ (r[1][1] = "gate" \/ (r[1][1] = "upEof" /\ r[1][2] \in OwedIn(r)))
<1>1. r \in Seq(Entries) /\ Len(r) \in Nat
  BY DEF RestSound
<1>2. StackSound(r)
  BY <1>1 DEF RestSound, StackSound
<1>3. Owed(r) \subseteq OwedIn(r)
  BY <1>1 DEF Owed, OwedIn
<1>4. ASSUME r # <<>>
      PROVE  r[1] \in Entries /\ (r[1][1] = "gate" \/ (r[1][1] = "upEof" /\ r[1][2] \in OwedIn(r)))
  <2>1. 1 \in 1..Len(r)
    BY <1>1, <1>4
  <2>2. r[1] \in Entries /\ r[1][1] \in {"gate", "upEof"}
    BY <2>1, <1>1 DEF RestSound
  <2>3. ASSUME r[1][1] = "upEof"
        PROVE  r[1][2] \in OwedIn(r)
    <3>1. r[1][2] \in Up /\ r[1] = <<"upEof", r[1][2]>>
      BY <2>2, <2>3, EntryTypes DEF ClientOps
    <3> QED BY <2>1, <3>1 DEF OwedIn
  <2> QED BY <2>2, <2>3
<1>5. \A c \in Client : At(r, c) = "none"
  BY <1>4, Apart DEF At, OwedIn
<1> QED BY <1>2, <1>3, <1>4, <1>5

\* r is what td owes once its head is done.
Leaves(td, r) ==
  /\ RestSound(r) /\ OwedIn(r) = Owed(td)
  /\ \A c \in Client : Gated(td, c) => Gated(r, c)

LEMMA LeavesTail ==
  ASSUME NEW td, StackSound(td), td # <<>>, td[1][1] # "gate"
  PROVE  Leaves(td, Tail(td))
<1> DEFINE t == Tail(td)
<1>1. /\ RestSound(t) /\ OwedIn(t) = Owed(td)
      /\ \A c \in Client : Gated(td, c) => td[1] = <<"gate", c>> \/ Gated(t, c)
  BY TailRest
<1> HIDE DEF t
<1>2. \A c \in Client : Gated(td, c) => Gated(t, c)
  BY <1>1
<1> QED BY <1>1, <1>2 DEF Leaves, t

LEMMA LeavesNone == Leaves(<<>>, <<>>)
<1>1. Len(<<>>) = 0
  OBVIOUS
<1>2. Owed(<<>>) = {}
  BY <1>1 DEF Owed
<1> QED BY <1>2, RestNone DEF Leaves

LEMMA PushClient ==
  ASSUME NEW td, NEW r, Leaves(td, r), NEW c \in Client, NEW op \in ClientOps \ {"gate"},
         NEW t, Fronts(t, <<op, c>>, r)
  PROVE  Goes(td, t, c, op) /\ t # <<>> /\ t[1] = <<op, c>>
<1> DEFINE e == <<op, c>>
<1>1. RestSound(r) /\ OwedIn(r) = Owed(td) /\ \A d \in Client : Gated(td, d) => Gated(r, d)
  BY DEF Leaves
<1>2. e \in Entries /\ e[1] = op /\ e[2] = c
  BY DEF Entries
<1> HIDE DEF e
<1>3. /\ StackSound(t) /\ t # <<>> /\ t[1] = e /\ Owed(t) = OwedIn(r)
      /\ \A d \in Client : Gated(t, d) <=> e = <<"gate", d>> \/ Gated(r, d)
  BY <1>1, <1>2, InFront DEF e
<1>4. \A d \in Client : Gated(td, d) => Gated(t, d)
  BY <1>1, <1>3
<1>5. \A d \in Client : At(t, d) = IF d = c THEN op ELSE "none"
  BY <1>2, <1>3 DEF At
<1> QED BY <1>1, <1>3, <1>4, <1>5 DEF Goes, e

LEMMA PushUp ==
  ASSUME NEW td, NEW r, Leaves(td, r), NEW u \in Up, NEW op \in UpOps, NEW x,
         NEW t, Fronts(t, <<op, u>>, r)
  PROVE  Goes(td, t, x, "none") /\ t # <<>> /\ t[1] = <<op, u>>
<1> DEFINE e == <<op, u>>
<1>1. RestSound(r) /\ OwedIn(r) = Owed(td) /\ \A d \in Client : Gated(td, d) => Gated(r, d)
  BY DEF Leaves
<1>2. e \in Entries /\ e[1] = op /\ e[2] = u
  BY DEF Entries
<1> HIDE DEF e
<1>3. /\ StackSound(t) /\ t # <<>> /\ t[1] = e /\ Owed(t) = OwedIn(r)
      /\ \A d \in Client : Gated(t, d) <=> e = <<"gate", d>> \/ Gated(r, d)
  BY <1>1, <1>2, InFront DEF e
<1>4. \A d \in Client : Gated(td, d) => Gated(t, d)
  BY <1>1, <1>3
<1>5. \A d \in Client : At(t, d) = "none"
  BY <1>2, <1>3, Apart DEF At
<1> QED BY <1>1, <1>3, <1>4, <1>5 DEF Goes, e

LEMMA PushGate ==
  ASSUME NEW td, NEW r, Leaves(td, r), NEW c \in Client, NEW t, Fronts(t, <<"gate", c>>, r)
  PROVE  Leaves(td, t) /\ Gated(t, c)
<1> DEFINE e == <<"gate", c>>
<1>1. RestSound(r) /\ OwedIn(r) = Owed(td) /\ \A d \in Client : Gated(td, d) => Gated(r, d)
  BY DEF Leaves
<1>2. e \in Entries /\ e[1] = "gate"
  BY DEF Entries, ClientOps
<1> HIDE DEF e
<1>3. /\ RestSound(t) /\ OwedIn(t) = OwedIn(r)
      /\ \A d \in Client : Gated(t, d) <=> e = <<"gate", d>> \/ Gated(r, d)
  BY <1>1, <1>2, InFront DEF e
<1>4. \A d \in Client : Gated(td, d) => Gated(t, d)
  BY <1>1, <1>3
<1> QED BY <1>1, <1>3, <1>4 DEF Leaves, e

\* A routine returns,
LEMMA Returns ==
  ASSUME NEW td, StackSound(td), td # <<>>, td[1][1] # "gate", NEW x
  PROVE  Goes(td, Tail(td), x, "none")
<1> DEFINE t == Tail(td)
<1>1. Leaves(td, t)
  BY LeavesTail
<1> HIDE DEF t
<1>2. StackSound(t) /\ Owed(t) \subseteq OwedIn(t) /\ \A c \in Client : At(t, c) = "none"
  BY <1>1, RestStack DEF Leaves
<1> QED BY <1>1, <1>2 DEF Goes, t, Leaves

\* calls one that is about a client,
LEMMA CallsClient ==
  ASSUME NEW td, StackSound(td), td # <<>>, td[1][1] # "gate",
         NEW c \in Client, NEW op \in ClientOps \ {"gate"}
  PROVE  LET t == <<<<op, c>>>> \o Tail(td) IN Goes(td, t, c, op) /\ t # <<>> /\ t[1] = <<op, c>>
<1> DEFINE e == <<op, c>>
           r == Tail(td)
           t == <<e>> \o r
<1>1. Leaves(td, r)
  BY LeavesTail
<1>2. e \in Entries
  BY DEF Entries
<1> HIDE DEF r
<1>3. Fronts(t, e, r)
  BY <1>1, <1>2, FrontsConcat DEF Leaves, RestSound
<1> HIDE DEF t
<1>4. Goes(td, t, c, op) /\ t # <<>> /\ t[1] = <<op, c>>
  BY <1>1, <1>3, PushClient
<1> QED BY <1>4 DEF t, r

\* about an upstream,
LEMMA CallsUp ==
  ASSUME NEW td, StackSound(td), td # <<>>, td[1][1] # "gate", NEW u \in Up, NEW op \in UpOps, NEW x
  PROVE  LET t == <<<<op, u>>>> \o Tail(td) IN Goes(td, t, x, "none") /\ t # <<>> /\ t[1] = <<op, u>>
<1> DEFINE e == <<op, u>>
           r == Tail(td)
           t == <<e>> \o r
<1>1. Leaves(td, r)
  BY LeavesTail
<1>2. e \in Entries
  BY DEF Entries
<1> HIDE DEF r
<1>3. Fronts(t, e, r)
  BY <1>1, <1>2, FrontsConcat DEF Leaves, RestSound
<1> HIDE DEF t
<1>4. Goes(td, t, x, "none") /\ t # <<>> /\ t[1] = <<op, u>>
  BY <1>1, <1>3, PushUp
<1> QED BY <1>4 DEF t, r

\* or goes on to the client's next request.
LEMMA CallsBytes ==
  ASSUME NEW td, StackSound(td), td # <<>>, td[1][1] # "gate", NEW c \in Client
  PROVE  LET t == Bytes(c) \o Tail(td)
         IN  Goes(td, t, c, "frame") /\ Gated(t, c) /\ t # <<>> /\ t[1] = <<"frame", c>>
<1> DEFINE f == <<"frame", c>>
           g == <<"gate", c>>
           r == Tail(td)
           q == <<g>> \o r
           t == <<f>> \o q
<1>1. Leaves(td, r)
  BY LeavesTail
<1>2. f \in Entries /\ g \in Entries
  BY DEF Entries, ClientOps
<1>3. Bytes(c) \o r = t
  <2> HIDE DEF f, g, r
  <2>1. r \in Seq(Entries)
    BY <1>1 DEF Leaves, RestSound
  <2>2. <<f>> \in Seq(Entries) /\ <<g>> \in Seq(Entries)
    BY <1>2
  <2>3. <<f, g>> = <<f>> \o <<g>>
    <3> DEFINE a == <<f, g>>
               b == <<f>> \o <<g>>
    <3>1. a \in Seq(Entries) /\ Len(a) = 2 /\ a[1] = f /\ a[2] = g
      BY <1>2
    <3>2. b \in Seq(Entries) /\ Len(b) = 2 /\ b[1] = f /\ b[2] = g
      BY <2>2, ConcatProperties
    <3> HIDE DEF a, b
    <3>3. \A i \in 1..Len(a) : a[i] = b[i]
      BY <3>1, <3>2
    <3>4. a = b
      BY <3>1, <3>2, <3>3, SeqEqual
    <3> QED BY <3>4 DEF a, b
  <2>4. <<f, g>> \o r = <<f>> \o (<<g>> \o r)
    BY <2>1, <2>2, <2>3, ConcatAssociative
  <2> QED BY <2>4 DEF Bytes, f, g
<1> HIDE DEF r
<1>4. Fronts(q, g, r)
  BY <1>1, <1>2, FrontsConcat DEF Leaves, RestSound
<1> HIDE DEF q
<1>5. Leaves(td, q) /\ Gated(q, c)
  BY <1>1, <1>4, PushGate
<1>6. Fronts(t, f, q)
  BY <1>2, <1>5, FrontsConcat DEF Leaves, RestSound
<1> HIDE DEF t
<1>7. Goes(td, t, c, "frame") /\ t # <<>> /\ t[1] = f
  BY <1>5, <1>6, PushClient DEF ClientOps
<1>8. Gated(t, c)
  BY <1>2, <1>5, <1>6, InFront DEF Leaves
<1> QED BY <1>3, <1>7, <1>8 DEF t, r

\* An event's handler, of a client and of an upstream.
LEMMA BeginsClient ==
  ASSUME NEW c \in Client, NEW op \in ClientOps \ {"gate"}
  PROVE  LET t == <<<<op, c>>>> IN Goes(<<>>, t, c, op) /\ t # <<>> /\ t[1] = <<op, c>>
<1> DEFINE e == <<op, c>>
           t == <<e>>
<1>1. e \in Entries
  BY DEF Entries
<1> HIDE DEF e
<1>2. Fronts(t, e, <<>>)
  BY <1>1 DEF Fronts
<1> HIDE DEF t
<1>3. Goes(<<>>, t, c, op) /\ t # <<>> /\ t[1] = <<op, c>>
  BY <1>2, LeavesNone, PushClient DEF e
<1> QED BY <1>3 DEF t, e

LEMMA BeginsUp ==
  ASSUME NEW u \in Up, NEW op \in UpOps, NEW x
  PROVE  LET t == <<<<op, u>>>> IN Goes(<<>>, t, x, "none") /\ t # <<>> /\ t[1] = <<op, u>>
<1> DEFINE e == <<op, u>>
           t == <<e>>
<1>1. e \in Entries
  BY DEF Entries
<1> HIDE DEF e
<1>2. Fronts(t, e, <<>>)
  BY <1>1 DEF Fronts
<1> HIDE DEF t
<1>3. Goes(<<>>, t, x, "none") /\ t # <<>> /\ t[1] = <<op, u>>
  BY <1>2, LeavesNone, PushUp DEF e
<1> QED BY <1>3 DEF t, e

LEMMA BeginsBytes ==
  ASSUME NEW c \in Client
  PROVE  LET t == Bytes(c)
         IN  Goes(<<>>, t, c, "frame") /\ Gated(t, c) /\ t # <<>> /\ t[1] = <<"frame", c>>
<1> DEFINE f == <<"frame", c>>
           g == <<"gate", c>>
           q == <<g>>
           t == <<f, g>>
<1>1. f \in Entries /\ g \in Entries
  BY DEF Entries, ClientOps
<1> HIDE DEF f, g
<1>2. Fronts(q, g, <<>>)
  BY <1>1 DEF Fronts
<1>3. Fronts(t, f, q)
  BY <1>1 DEF Fronts
<1> HIDE DEF q, t
<1>4. Leaves(<<>>, q) /\ Gated(q, c)
  BY <1>2, LeavesNone, PushGate DEF g
<1>5. Goes(<<>>, t, c, "frame") /\ t # <<>> /\ t[1] = f
  BY <1>3, <1>4, PushClient DEF ClientOps, f
<1>6. Gated(t, c)
  BY <1>1, <1>3, <1>4, InFront DEF Leaves
<1> QED BY <1>5, <1>6 DEF t, f, g, Bytes

-----------------------------------------------------------------------------
(* Ownership.                                                              *)

ButClient(m2, m, c) == \A d \in Client : d # c => m2[d] = m[d]
ButUp(w2, w, u)     == \A x \in Up : x # u => w2[x] = w[x]

LEMMA NoUpOut == NoUp \notin Up /\ NoClient \notin Client
BY LifecycleConstants DEF NoUp, Up

LEMMA NewUpSound ==
  UpShape(NewUp) /\ IsSeq(NewUp.rbuf) /\ NewUp.st = "free" /\ NewUp.c = NoClient /\ ~NewUp.paused
BY LifecycleConstants, EmptyIs DEF NewUp, UpShape

\* An upstream whose EOF is still to be told is not an idle one.
LEMMA OwedFit ==
  ASSUME NEW m, NEW w, NEW p, NEW O, Owned(m, w, p, O), NEW u \in Up, u \in O
  PROVE  w[u].st = "free" \/ w[u].c # NoClient
<1> SUFFICES ASSUME w[u].st # "free", w[u].c = NoClient
             PROVE  FALSE
  OBVIOUS
<1>1. UpSound(w[u], TRUE) /\ PoolSound(w, p)
  BY DEF Owned
<1>2. w[u].eof /\ w[u].venue \in Venue
  BY <1>1 DEF UpSound, UpShape
<1>3. PICK i \in 1..Len(p[w[u].venue]) : p[w[u].venue][i] = u
  BY <1>1 DEF PoolSound, Unpaired
<1>4. Fit(w[u], w[u].venue)
  BY <1>1, <1>2, <1>3 DEF PoolSound
<1> QED BY <1>2, <1>4 DEF Fit

LEMMA OwnFewer ==
  ASSUME NEW m, NEW w, NEW p, NEW O, Owned(m, w, p, O), NEW O2 \in SUBSET O
  PROVE  Owned(m, w, p, O2)
BY DEF Owned, UpSound

\* No upstream has two clients.
LEMMA PairsDistinct ==
  ASSUME NEW m, NEW w, Pairs(m, w), NEW c \in Client, NEW d \in Client, c # d, m[c].up # NoUp
  PROVE  m[d].up # m[c].up
BY DEF Pairs, Pair

\* The client's record or its upstream's changes, and they stay together.
LEMMA OwnKeep ==
  ASSUME NEW m, NEW w, NEW p, NEW O, Owned(m, w, p, O), NEW m2, NEW w2, NEW c \in Client,
         ButClient(m2, m, c), ButUp(w2, w, m[c].up), m2[c].up = m[c].up,
         m[c].up # NoUp => /\ UpSound(w2[m[c].up], m[c].up \in O)
                           /\ Pair(c, m2[c].n, m2[c].phase, m2[c].out, w2[m[c].up])
  PROVE  Owned(m2, w2, p, O)
<1> DEFINE u == m[c].up
<1>1. Pairs(m, w) /\ PoolSound(w, p) /\ \A x \in Up : UpSound(w[x], x \in O)
  BY DEF Owned
<1>2. u = NoUp \/ (u \in Up /\ w[u].c = c /\ w2[u].c = c)
  BY <1>1 DEF Pairs, Pair
<1>3. \A x \in Up : UpSound(w2[x], x \in O)
  BY <1>1, NoUpOut DEF ButUp
<1>4. \A x \in Up : Unpaired(w2[x]) <=> x # u /\ Unpaired(w[x])
  BY <1>2, NoUpOut DEF ButUp, Unpaired
<1>5. \A x \in Up : Unpaired(w[x]) => x # u
  BY <1>2, NoUpOut DEF Unpaired
<1>6. Pairs(m2, w2)
  <2>1. ASSUME NEW d \in Client, m2[d].up # NoUp
        PROVE  m2[d].up \in Up /\ Pair(d, m2[d].n, m2[d].phase, m2[d].out, w2[m2[d].up])
    <3>1. CASE d = c
      BY <3>1, <2>1, <1>2
    <3>2. CASE d # c
      <4>1. m2[d] = m[d] /\ m[d].up # u
        BY <3>2, <2>1, <1>1, PairsDistinct DEF ButClient
      <4> QED BY <4>1, <2>1, <1>1 DEF ButUp, Pairs
    <3> QED BY <3>1, <3>2
  <2>2. ASSUME NEW x \in Up, w2[x].c # NoClient
        PROVE  m2[w2[x].c].up = x
    <3>1. CASE x = u
      BY <3>1, <1>2, NoUpOut
    <3>2. CASE x # u
      <4>1. w2[x] = w[x] /\ m[w[x].c].up = x
        BY <3>2, <2>2, <1>1 DEF ButUp, Pairs
      <4>2. w[x].c \in Client
        BY <4>1, <2>2, <1>1 DEF UpSound, UpShape
      <4> QED BY <4>1, <4>2 DEF ButClient
    <3> QED BY <3>1, <3>2
  <2> QED BY <2>1, <2>2 DEF Pairs
<1>7. PoolSound(w2, p)
  <2>1. ASSUME NEW v \in Venue, NEW i \in 1..Len(p[v])
        PROVE  Fit(w2[p[v][i]], v)
    <3>1. p[v][i] \in Up /\ Fit(w[p[v][i]], v)
      BY <1>1 DEF PoolSound
    <3>2. p[v][i] # u
      BY <3>1, <1>2, NoUpOut DEF Fit
    <3> QED BY <3>1, <3>2 DEF ButUp
  <2>2. ASSUME NEW x \in Up, Unpaired(w2[x])
        PROVE  \E i \in 1..Len(p[w2[x].venue]) : p[w2[x].venue][i] = x
    <3>1. w2[x] = w[x] /\ Unpaired(w[x])
      BY <2>2, <1>4 DEF ButUp
    <3> QED BY <3>1, <1>1 DEF PoolSound
  <2>3. {x \in Up : Unpaired(w2[x])} = {x \in Up : Unpaired(w[x])}
    BY <1>4, <1>5
  <2> QED BY <2>1, <2>2, <2>3, <1>1 DEF PoolSound
<1> QED BY <1>3, <1>6, <1>7 DEF Owned

\* The client is unpaired and its upstream closed.
LEMMA OwnDrop ==
  ASSUME NEW m, NEW w, NEW p, NEW O, Owned(m, w, p, O), NEW m2, NEW w2, NEW c \in Client,
         ButClient(m2, m, c), ButUp(w2, w, m[c].up), m2[c].up = NoUp,
         m[c].up # NoUp => w2[m[c].up] = NewUp
  PROVE  Owned(m2, w2, p, O)
<1> DEFINE u == m[c].up
<1>1. Pairs(m, w) /\ PoolSound(w, p) /\ \A x \in Up : UpSound(w[x], x \in O)
  BY DEF Owned
<1>2. u = NoUp \/ (u \in Up /\ w[u].c = c /\ w2[u] = NewUp)
  BY <1>1 DEF Pairs, Pair
<1>3. \A x \in Up : UpSound(w2[x], x \in O)
  BY <1>1, <1>2, NewUpSound, NoUpOut DEF ButUp, UpSound
<1>4. \A x \in Up : Unpaired(w2[x]) <=> x # u /\ Unpaired(w[x])
  BY <1>2, NoUpOut, NewUpSound DEF ButUp, Unpaired
<1>5. \A x \in Up : Unpaired(w[x]) => x # u
  BY <1>2, NoUpOut DEF Unpaired
<1>6. Pairs(m2, w2)
  <2>1. ASSUME NEW d \in Client, m2[d].up # NoUp
        PROVE  m2[d].up \in Up /\ Pair(d, m2[d].n, m2[d].phase, m2[d].out, w2[m2[d].up])
    <3>1. m2[d] = m[d] /\ d # c
      BY <2>1 DEF ButClient
    <3>2. m[d].up # u
      BY <3>1, <2>1, <1>1, PairsDistinct
    <3> QED BY <3>1, <3>2, <2>1, <1>1 DEF ButUp, Pairs
  <2>2. ASSUME NEW x \in Up, w2[x].c # NoClient
        PROVE  m2[w2[x].c].up = x
    <3>1. x # u
      BY <2>2, <1>2, NewUpSound, NoUpOut
    <3>2. w2[x] = w[x] /\ m[w[x].c].up = x
      BY <3>1, <2>2, <1>1 DEF ButUp, Pairs
    <3>3. w[x].c \in Client
      BY <3>2, <2>2, <1>1 DEF UpSound, UpShape
    <3>4. w[x].c # c
      BY <3>1, <3>2
    <3> QED BY <3>2, <3>3, <3>4 DEF ButClient
  <2> QED BY <2>1, <2>2 DEF Pairs
<1>7. PoolSound(w2, p)
  <2>1. ASSUME NEW v \in Venue, NEW i \in 1..Len(p[v])
        PROVE  Fit(w2[p[v][i]], v)
    <3>1. p[v][i] \in Up /\ Fit(w[p[v][i]], v)
      BY <1>1 DEF PoolSound
    <3>2. p[v][i] # u
      BY <3>1, <1>2, NoUpOut DEF Fit
    <3> QED BY <3>1, <3>2 DEF ButUp
  <2>2. ASSUME NEW x \in Up, Unpaired(w2[x])
        PROVE  \E i \in 1..Len(p[w2[x].venue]) : p[w2[x].venue][i] = x
    <3>1. w2[x] = w[x] /\ Unpaired(w[x])
      BY <2>2, <1>4 DEF ButUp
    <3> QED BY <3>1, <1>1 DEF PoolSound
  <2>3. {x \in Up : Unpaired(w2[x])} = {x \in Up : Unpaired(w[x])}
    BY <1>4, <1>5
  <2> QED BY <2>1, <2>2, <2>3, <1>1 DEF PoolSound
<1> QED BY <1>3, <1>6, <1>7 DEF Owned

LEMMA UpFinite == IsFiniteSet(Up) /\ Cardinality(Up) = NUp
<1>1. NUp \in Nat
  BY LifecycleConstants
<1> QED BY <1>1, FS_Interval DEF Up

\* The exchange over, its connection goes to the front of its venue's list.
LEMMA OwnPool ==
  ASSUME NEW m, NEW w, NEW p, NEW O, Owned(m, w, p, O), NEW m2, NEW w2, NEW c \in Client,
         NEW v \in Venue,
         NEW u \in Up, u = m[c].up, ButClient(m2, m, c), ButUp(w2, w, u), m2[c].up = NoUp,
         UpShape(w2[u]), Fit(w2[u], v), ~w[u].eof,
         Cardinality({x \in Up : Unpaired(w[x])}) < PoolCap
  PROVE  Owned(m2, w2, [p EXCEPT ![v] = <<u>> \o @], O)
<1> DEFINE p2 == [p EXCEPT ![v] = <<u>> \o @]
<1>1. Pairs(m, w) /\ PoolSound(w, p) /\ \A x \in Up : UpSound(w[x], x \in O)
  BY DEF Owned
<1>2. u # NoUp /\ w[u].c = c /\ w[u].st # "free" /\ c # NoClient
  BY <1>1, NoUpOut DEF Pairs, Pair
<1>3. u \notin O
  BY <1>1, <1>2 DEF UpSound
<1>4. \A x \in Up : UpSound(w2[x], x \in O)
  BY <1>1, <1>3, EmptyIs DEF ButUp, UpSound, Fit
<1>5. Pairs(m2, w2)
  <2>1. ASSUME NEW d \in Client, m2[d].up # NoUp
        PROVE  m2[d].up \in Up /\ Pair(d, m2[d].n, m2[d].phase, m2[d].out, w2[m2[d].up])
    <3>1. m2[d] = m[d] /\ d # c
      BY <2>1 DEF ButClient
    <3>2. m[d].up # u
      BY <3>1, <2>1, <1>1, <1>2, PairsDistinct
    <3> QED BY <3>1, <3>2, <2>1, <1>1 DEF ButUp, Pairs
  <2>2. ASSUME NEW x \in Up, w2[x].c # NoClient
        PROVE  m2[w2[x].c].up = x
    <3>1. x # u
      BY <2>2 DEF Fit
    <3>2. w2[x] = w[x] /\ m[w[x].c].up = x
      BY <3>1, <2>2, <1>1 DEF ButUp, Pairs
    <3>3. w[x].c \in Client
      BY <3>2, <2>2, <1>1 DEF UpSound, UpShape
    <3>4. w[x].c # c
      BY <3>1, <3>2
    <3> QED BY <3>2, <3>3, <3>4 DEF ButClient
  <2> QED BY <2>1, <2>2 DEF Pairs
<1>6. p \in [Venue -> Seq(Up)]
  BY <1>1 DEF PoolSound
<1>7. /\ <<u>> \o p[v] \in Seq(Up) /\ Len(<<u>> \o p[v]) = Len(p[v]) + 1
      /\ (<<u>> \o p[v])[1] = u /\ Len(p[v]) \in Nat
      /\ \A i \in 1..Len(p[v]) : (<<u>> \o p[v])[i + 1] = p[v][i]
  <2>1. p[v] \in Seq(Up) /\ <<u>> \in Seq(Up) /\ Len(<<u>>) = 1 /\ Len(p[v]) \in Nat
    BY <1>6
  <2> QED BY <2>1
<1>8. /\ p2 \in [Venue -> Seq(Up)] /\ Len(p2[v]) = Len(p[v]) + 1 /\ p2[v][1] = u
      /\ \A i \in 2..Len(p2[v]) : i - 1 \in 1..Len(p[v]) /\ p2[v][i] = p[v][i - 1]
      /\ \A i \in 1..Len(p[v]) : i + 1 \in 1..Len(p2[v]) /\ p2[v][i + 1] = p[v][i]
      /\ \A x \in Venue : x # v => p2[x] = p[x]
  <2>1. p2[v] = <<u>> \o p[v] /\ \A x \in Venue : x # v => p2[x] = p[x]
    BY <1>6
  <2>2. p2 \in [Venue -> Seq(Up)]
    BY <1>6, <1>7
  <2> HIDE DEF p2
  <2>3. ASSUME NEW i \in 2..Len(p2[v])
        PROVE  i - 1 \in 1..Len(p[v]) /\ p2[v][i] = p[v][i - 1]
    <3>1. i - 1 \in 1..Len(p[v]) /\ (i - 1) + 1 = i
      BY <2>1, <1>7
    <3> QED BY <3>1, <2>1, <1>7
  <2> QED BY <2>1, <2>2, <2>3, <1>7
<1> HIDE DEF p2
<1>9. \A x \in Venue : \A i \in 1..Len(p[x]) : p[x][i] \in Up /\ Fit(w[p[x][i]], x) /\ p[x][i] # u
  BY <1>1, <1>2 DEF PoolSound, Fit
<1>10. PoolSound(w2, p2)
  <2>1. ASSUME NEW x \in Venue, NEW i \in 1..Len(p2[x]), NEW j \in 1..Len(p2[x]),
               p2[x][i] = p2[x][j]
        PROVE  i = j
    <3>1. CASE x # v
      BY <3>1, <2>1, <1>1, <1>8 DEF PoolSound
    <3>2. CASE x = v
      <4>1. (i = 1 \/ i \in 2..Len(p2[v])) /\ (j = 1 \/ j \in 2..Len(p2[v]))
        BY <3>2, <1>7, <1>8
      <4>2. CASE i = 1 \/ j = 1
        <5>1. \A h \in 2..Len(p2[v]) : p2[v][h] # u
          BY <1>8, <1>9
        <5>2. p2[v][1] = u /\ p2[v][i] = p2[v][j]
          BY <3>2, <2>1, <1>8
        <5>3. CASE i = 1
          BY <5>1, <5>2, <5>3, <4>1
        <5>4. CASE j = 1
          BY <5>1, <5>2, <5>4, <4>1
        <5> QED BY <5>3, <5>4, <4>2
      <4>3. CASE i \in 2..Len(p2[v]) /\ j \in 2..Len(p2[v])
        <5>1. p[v][i - 1] = p[v][j - 1] /\ i - 1 \in 1..Len(p[v]) /\ j - 1 \in 1..Len(p[v])
          BY <4>3, <3>2, <2>1, <1>8
        <5>2. i - 1 = j - 1
          BY <5>1, <1>1 DEF PoolSound
        <5> QED BY <5>2, <4>3
      <4> QED BY <4>1, <4>2, <4>3
    <3> QED BY <3>1, <3>2
  <2>2. ASSUME NEW x \in Venue, NEW i \in 1..Len(p2[x])
        PROVE  Fit(w2[p2[x][i]], x)
    <3>1. CASE x # v
      BY <3>1, <1>8, <1>9 DEF ButUp
    <3>2. CASE x = v /\ i = 1
      BY <3>2, <1>8
    <3>3. CASE x = v /\ i # 1
      <4>1. i \in 2..Len(p2[v])
        BY <3>3, <1>7, <1>8
      <4>2. p2[x][i] = p[v][i - 1] /\ i - 1 \in 1..Len(p[v])
        BY <4>1, <3>3, <1>8
      <4>3. p[v][i - 1] \in Up /\ Fit(w[p[v][i - 1]], v) /\ p[v][i - 1] # u
        BY <4>2, <1>9
      <4> QED BY <4>2, <4>3, <3>3 DEF ButUp
    <3> QED BY <3>1, <3>2, <3>3
  <2>3. ASSUME NEW x \in Up, Unpaired(w2[x])
        PROVE  \E i \in 1..Len(p2[w2[x].venue]) : p2[w2[x].venue][i] = x
    <3>1. CASE x = u
      <4>1. w2[x].venue = v /\ 1 \in 1..Len(p2[v])
        BY <3>1, <1>7, <1>8 DEF Fit
      <4> QED BY <4>1, <3>1, <1>8
    <3>2. CASE x # u
      <4>1. w2[x] = w[x] /\ w[x].venue \in Venue
        BY <3>2, <1>1 DEF ButUp, UpSound, UpShape
      <4>2. PICK i \in 1..Len(p[w[x].venue]) : p[w[x].venue][i] = x
        BY <4>1, <2>3, <1>1 DEF PoolSound
      <4>3. CASE w[x].venue # v
        BY <4>1, <4>2, <4>3, <1>8
      <4>4. CASE w[x].venue = v
        <5>1. i + 1 \in 1..Len(p2[v]) /\ p2[v][i + 1] = x
          BY <4>2, <4>4, <1>8
        <5> QED BY <5>1, <4>1, <4>4
      <4> QED BY <4>3, <4>4
    <3> QED BY <3>1, <3>2
  <2>4. Cardinality({x \in Up : Unpaired(w2[x])}) <= PoolCap
    <3> DEFINE S == {x \in Up : Unpaired(w[x])}
    <3>1. {x \in Up : Unpaired(w2[x])} = S \cup {u}
      BY <1>2 DEF ButUp, Unpaired, Fit
    <3>2. IsFiniteSet(S)
      BY UpFinite, FS_Subset
    <3>3. u \notin S
      BY <1>2 DEF Unpaired
    <3>4. Cardinality(S) \in Nat /\ Cardinality(S \cup {u}) = Cardinality(S) + 1
      BY <3>2, <3>3, FS_AddElement, FS_CardinalityType
    <3>5. PoolCap \in Nat
      BY LifecycleConstants
    <3>6. Cardinality(S) < PoolCap
      OBVIOUS
    <3> HIDE DEF S
    <3> QED BY <3>1, <3>4, <3>5, <3>6
  <2> QED BY <2>1, <2>2, <2>3, <2>4, <1>8 DEF PoolSound
<1> QED BY <1>4, <1>5, <1>10 DEF Owned, p2

\* The client gets a new upstream connection.
LEMMA OwnFresh ==
  ASSUME NEW m, NEW w, NEW p, NEW O, Owned(m, w, p, O), NEW m2, NEW w2, NEW c \in Client,
         NEW u \in Up,
         w[u].st = "free", u \notin O, m[c].up = NoUp,
         ButClient(m2, m, c), ButUp(w2, w, u), m2[c].up = u,
         UpSound(w2[u], FALSE), Pair(c, m2[c].n, m2[c].phase, m2[c].out, w2[u])
  PROVE  Owned(m2, w2, p, O)
<1>1. Pairs(m, w) /\ PoolSound(w, p) /\ \A x \in Up : UpSound(w[x], x \in O)
  BY DEF Owned
<1>2. w[u].c = NoClient /\ w2[u].c = c /\ c # NoClient
  BY <1>1, NoUpOut DEF UpSound, Pair
<1>3. \A x \in Up : UpSound(w2[x], x \in O)
  BY <1>1 DEF ButUp, UpSound
<1>4. \A x \in Up : Unpaired(w2[x]) <=> Unpaired(w[x])
  BY <1>2 DEF ButUp, Unpaired
<1>5. \A x \in Up : Unpaired(w[x]) => x # u
  BY DEF Unpaired
<1>6. Pairs(m2, w2)
  <2>1. ASSUME NEW d \in Client, m2[d].up # NoUp
        PROVE  m2[d].up \in Up /\ Pair(d, m2[d].n, m2[d].phase, m2[d].out, w2[m2[d].up])
    <3>1. CASE d = c
      BY <3>1
    <3>2. CASE d # c
      <4>1. m2[d] = m[d] /\ m[d].up \in Up /\ Pair(d, m[d].n, m[d].phase, m[d].out, w[m[d].up])
        BY <3>2, <2>1, <1>1 DEF ButClient, Pairs
      <4>2. m[d].up # u
        BY <4>1 DEF Pair
      <4> QED BY <4>1, <4>2 DEF ButUp
    <3> QED BY <3>1, <3>2
  <2>2. ASSUME NEW x \in Up, w2[x].c # NoClient
        PROVE  m2[w2[x].c].up = x
    <3>1. CASE x = u
      BY <3>1, <1>2
    <3>2. CASE x # u
      <4>1. w2[x] = w[x] /\ m[w[x].c].up = x
        BY <3>2, <2>2, <1>1 DEF ButUp, Pairs
      <4>2. w[x].c \in Client
        BY <4>1, <2>2, <1>1 DEF UpSound, UpShape
      <4>3. w[x].c # c
        BY <4>1, NoUpOut
      <4> QED BY <4>1, <4>2, <4>3 DEF ButClient
    <3> QED BY <3>1, <3>2
  <2> QED BY <2>1, <2>2 DEF Pairs
<1>7. PoolSound(w2, p)
  <2>1. ASSUME NEW v \in Venue, NEW i \in 1..Len(p[v])
        PROVE  Fit(w2[p[v][i]], v)
    <3>1. p[v][i] \in Up /\ Fit(w[p[v][i]], v)
      BY <1>1 DEF PoolSound
    <3>2. p[v][i] # u
      BY <3>1 DEF Fit
    <3> QED BY <3>1, <3>2 DEF ButUp
  <2>2. ASSUME NEW x \in Up, Unpaired(w2[x])
        PROVE  \E i \in 1..Len(p[w2[x].venue]) : p[w2[x].venue][i] = x
    <3>1. w2[x] = w[x] /\ Unpaired(w[x])
      BY <2>2, <1>4, <1>5 DEF ButUp
    <3> QED BY <3>1, <1>1 DEF PoolSound
  <2>3. {x \in Up : Unpaired(w2[x])} = {x \in Up : Unpaired(w[x])}
    BY <1>4
  <2> QED BY <2>1, <2>2, <2>3, <1>1 DEF PoolSound
<1> QED BY <1>3, <1>6, <1>7 DEF Owned

\* What a list holds.
Holds(q, u) == \E i \in 1..Len(q) : q[i] = u
Distinct(q) == \A i, j \in 1..Len(q) : q[i] = q[j] => i = j

\* The pool's lists lose u, which is no longer idle.
LEMMA PoolLoses ==
  ASSUME NEW w, NEW p, PoolSound(w, p), NEW w2, NEW p2, NEW u \in Up, ButUp(w2, w, u),
         ~Unpaired(w2[u]),
         p2 \in [Venue -> Seq(Up)],
         \A v \in Venue : Distinct(p2[v]) /\ \A x \in Up : Holds(p2[v], x) <=> x # u /\ Holds(p[v], x),
         \A x \in Up : Unpaired(w[x]) => w[x].venue \in Venue
  PROVE  PoolSound(w2, p2)
<1>1. ASSUME NEW v \in Venue, NEW i \in 1..Len(p2[v])
      PROVE  Fit(w2[p2[v][i]], v)
  <2>1. p2[v][i] \in Up
    OBVIOUS
  <2>2. Holds(p2[v], p2[v][i])
    BY DEF Holds
  <2>3. p2[v][i] # u /\ Holds(p[v], p2[v][i])
    BY <2>1, <2>2
  <2> QED BY <2>1, <2>3 DEF Holds, PoolSound, ButUp
<1>2. ASSUME NEW x \in Up, Unpaired(w2[x])
      PROVE  \E i \in 1..Len(p2[w2[x].venue]) : p2[w2[x].venue][i] = x
  <2>1. x # u /\ w2[x] = w[x] /\ Unpaired(w[x]) /\ w[x].venue \in Venue
    BY <1>2 DEF ButUp
  <2>2. Holds(p[w[x].venue], x)
    BY <2>1 DEF PoolSound, Holds
  <2>3. Holds(p2[w[x].venue], x)
    BY <2>1, <2>2
  <2> QED BY <2>1, <2>3 DEF Holds
<1>3. Cardinality({x \in Up : Unpaired(w2[x])}) <= PoolCap
  <2> DEFINE S == {x \in Up : Unpaired(w[x])}
             S2 == {x \in Up : Unpaired(w2[x])}
  <2>1. S2 \subseteq S
    BY DEF ButUp
  <2>2. IsFiniteSet(S)
    BY UpFinite, FS_Subset
  <2>3. Cardinality(S2) <= Cardinality(S) /\ Cardinality(S) \in Nat /\ Cardinality(S2) \in Nat
    BY <2>1, <2>2, FS_Subset, FS_CardinalityType
  <2>4. PoolCap \in Nat /\ Cardinality(S) <= PoolCap
    BY LifecycleConstants DEF PoolSound
  <2> HIDE DEF S, S2
  <2>5. Cardinality(S2) <= PoolCap
    BY <2>3, <2>4
  <2> QED BY <2>5 DEF S2
<1>4. \A v \in Venue : \A i, j \in 1..Len(p2[v]) : p2[v][i] = p2[v][j] => i = j
  BY DEF Distinct
<1> QED BY <1>1, <1>2, <1>3, <1>4 DEF PoolSound

\* The newest idle connection of a venue is taken from its list.
LEMMA TailLoses ==
  ASSUME NEW q \in Seq(Up), q # <<>>, Distinct(q)
  PROVE  /\ Head(q) \in Up /\ Tail(q) \in Seq(Up) /\ Distinct(Tail(q)) /\ Holds(q, Head(q))
         /\ \A x \in Up : Holds(Tail(q), x) <=> x # Head(q) /\ Holds(q, x)
<1> DEFINE t == Tail(q)
           h == Head(q)
<1>1. /\ t \in Seq(Up) /\ h \in Up /\ h = q[1] /\ Len(q) \in Nat \ {0} /\ Len(t) = Len(q) - 1
  OBVIOUS
<1>2. \A i \in 1..Len(t) : i + 1 \in 2..Len(q) /\ t[i] = q[i + 1]
  BY <1>1
<1>3. \A i \in 2..Len(q) : i - 1 \in 1..Len(t) /\ t[i - 1] = q[i]
  BY <1>1
<1> HIDE DEF t, h
<1>4. \A i \in 1..Len(q) : i = 1 \/ i \in 2..Len(q)
  BY <1>1
<1>5. 1 \in 1..Len(q) /\ \A i \in 2..Len(q) : i \in 1..Len(q) /\ i # 1
  BY <1>1
<1>6. Distinct(t)
  <2> SUFFICES ASSUME NEW i \in 1..Len(t), NEW j \in 1..Len(t), t[i] = t[j]
               PROVE  i = j
    BY DEF Distinct
  <2>1. i + 1 \in 1..Len(q) /\ j + 1 \in 1..Len(q) /\ q[i + 1] = q[j + 1]
    BY <1>2, <1>5
  <2>2. i + 1 = j + 1
    BY <2>1 DEF Distinct
  <2> QED BY <2>2
<1>7. ASSUME NEW x \in Up, Holds(t, x)
      PROVE  x # h /\ Holds(q, x)
  <2>1. PICK i \in 1..Len(t) : t[i] = x
    BY <1>7 DEF Holds
  <2>2. i + 1 \in 2..Len(q) /\ q[i + 1] = x
    BY <2>1, <1>2
  <2>3. i + 1 \in 1..Len(q) /\ i + 1 # 1
    BY <2>2, <1>5
  <2> QED BY <2>2, <2>3, <1>1, <1>5 DEF Holds, Distinct
<1>8. ASSUME NEW x \in Up, Holds(q, x), x # h
      PROVE  Holds(t, x)
  <2>1. PICK i \in 1..Len(q) : q[i] = x
    BY <1>8 DEF Holds
  <2>2. i \in 2..Len(q)
    BY <2>1, <1>8, <1>1, <1>4
  <2> QED BY <2>1, <2>2, <1>3 DEF Holds
<1>9. Holds(q, h)
  BY <1>1, <1>5 DEF Holds
<1> QED BY <1>1, <1>6, <1>7, <1>8, <1>9 DEF t, h

LEMMA OwnReuse ==
  ASSUME NEW m, NEW w, NEW p, NEW O, Owned(m, w, p, O), NEW m2, NEW w2, NEW c \in Client,
         NEW v \in Venue,
         p[v] # <<>>, NEW u, u = Head(p[v]), m[c].up = NoUp,
         ButClient(m2, m, c), ButUp(w2, w, u), m2[c].up = u,
         UpSound(w2[u], FALSE), Pair(c, m2[c].n, m2[c].phase, m2[c].out, w2[u])
  PROVE  Owned(m2, w2, [p EXCEPT ![v] = Tail(@)], O)
<1> DEFINE p2 == [p EXCEPT ![v] = Tail(@)]
<1>1. Pairs(m, w) /\ PoolSound(w, p) /\ \A x \in Up : UpSound(w[x], x \in O)
  BY DEF Owned
<1>2. p \in [Venue -> Seq(Up)] /\ \A x \in Venue : Distinct(p[x])
  BY <1>1 DEF PoolSound, Distinct
<1>3. /\ u \in Up /\ Tail(p[v]) \in Seq(Up) /\ Distinct(Tail(p[v])) /\ Holds(p[v], u)
      /\ \A x \in Up : Holds(Tail(p[v]), x) <=> x # u /\ Holds(p[v], x)
  BY <1>2, TailLoses
<1>4. Fit(w[u], v)
  BY <1>1, <1>3 DEF PoolSound, Holds
<1>5. u \notin O /\ w2[u].c = c /\ c # NoClient
  BY <1>1, <1>3, <1>4, NoUpOut DEF UpSound, Fit, Pair
<1>6. \A x \in Up : UpSound(w2[x], x \in O)
  BY <1>1, <1>5 DEF ButUp, UpSound
<1>7. Pairs(m2, w2)
  <2>1. ASSUME NEW d \in Client, m2[d].up # NoUp
        PROVE  m2[d].up \in Up /\ Pair(d, m2[d].n, m2[d].phase, m2[d].out, w2[m2[d].up])
    <3>1. CASE d = c
      BY <3>1, <1>3
    <3>2. CASE d # c
      <4>1. m2[d] = m[d] /\ m[d].up \in Up /\ Pair(d, m[d].n, m[d].phase, m[d].out, w[m[d].up])
        BY <3>2, <2>1, <1>1 DEF ButClient, Pairs
      <4>2. m[d].up # u
        BY <4>1, <1>4, NoUpOut DEF Pair, Fit
      <4> QED BY <4>1, <4>2 DEF ButUp
    <3> QED BY <3>1, <3>2
  <2>2. ASSUME NEW x \in Up, w2[x].c # NoClient
        PROVE  m2[w2[x].c].up = x
    <3>1. CASE x = u
      BY <3>1, <1>5
    <3>2. CASE x # u
      <4>1. w2[x] = w[x] /\ m[w[x].c].up = x
        BY <3>2, <2>2, <1>1 DEF ButUp, Pairs
      <4>2. w[x].c \in Client
        BY <4>1, <2>2, <1>1 DEF UpSound, UpShape
      <4>3. w[x].c # c
        BY <4>1, NoUpOut
      <4> QED BY <4>1, <4>2, <4>3 DEF ButClient
    <3> QED BY <3>1, <3>2
  <2> QED BY <2>1, <2>2 DEF Pairs
<1>8. p2 \in [Venue -> Seq(Up)]
  BY <1>2, <1>3
<1>9. \A x \in Venue : p2[x] = IF x = v THEN Tail(p[v]) ELSE p[x]
  BY <1>2
<1> HIDE DEF p2
<1>10. ASSUME NEW x \in Venue
       PROVE  Distinct(p2[x]) /\ \A y \in Up : Holds(p2[x], y) <=> y # u /\ Holds(p[x], y)
  <2>1. CASE x = v
    BY <2>1, <1>3, <1>9
  <2>2. CASE x # v
    <3>1. ~Holds(p[x], u)
      <4> SUFFICES ASSUME Holds(p[x], u) PROVE FALSE
        OBVIOUS
      <4>1. Fit(w[u], x)
        BY <1>1 DEF PoolSound, Holds
      <4> QED BY <4>1, <1>4, <2>2 DEF Fit
    <3> QED BY <2>2, <3>1, <1>2, <1>9
  <2> QED BY <2>1, <2>2
<1>11. \A x \in Up : Unpaired(w[x]) => w[x].venue \in Venue
  BY <1>1 DEF UpSound, UpShape
<1>12. PoolSound(w2, p2)
  BY <1>1, <1>3, <1>5, <1>8, <1>10, <1>11, PoolLoses DEF Unpaired
<1> QED BY <1>6, <1>7, <1>12 DEF Owned, p2

LEMMA RemoveLoses ==
  ASSUME NEW q \in Seq(Up), Distinct(q), NEW k \in 1..Len(q)
  PROVE  /\ RemoveAt(q, k) \in Seq(Up) /\ Distinct(RemoveAt(q, k))
         /\ \A x \in Up : Holds(RemoveAt(q, k), x) <=> x # q[k] /\ Holds(q, x)
<1> DEFINE a == SubSeq(q, 1, k - 1)
           b == SubSeq(q, k + 1, Len(q))
           t == a \o b
<1>1. Len(q) \in Nat /\ k \in Nat /\ k >= 1 /\ k <= Len(q)
  OBVIOUS
<1>2. /\ a \in Seq(Up) /\ Len(a) = k - 1 /\ \A i \in 1..(k - 1) : a[i] = q[i]
      /\ b \in Seq(Up) /\ Len(b) = Len(q) - k /\ \A i \in 1..(Len(q) - k) : b[i] = q[i + k]
  <2>1. a \in Seq(Up) /\ Len(a) = k - 1 /\ \A i \in 1..(k - 1) : a[i] = q[i]
    BY <1>1
  <2>2. b \in Seq(Up) /\ Len(b) = Len(q) - k
    BY <1>1
  <2>3. \A i \in 1..(Len(q) - k) : b[i] = q[i + k]
    BY <1>1
  <2> QED BY <2>1, <2>2, <2>3
<1> HIDE DEF a, b
<1>3. /\ t \in Seq(Up) /\ Len(t) = Len(q) - 1
      /\ \A i \in 1..(Len(a) + Len(b)) : t[i] = IF i <= Len(a) THEN a[i] ELSE b[i - Len(a)]
  <2>1. /\ t \in Seq(Up) /\ Len(t) = Len(a) + Len(b)
        /\ \A i \in 1..(Len(a) + Len(b)) : t[i] = IF i <= Len(a) THEN a[i] ELSE b[i - Len(a)]
    BY <1>2, ConcatProperties
  <2>2. Len(t) = Len(q) - 1
    BY <2>1, <1>1, <1>2
  <2> QED BY <2>1, <2>2
<1> DEFINE At1(i) == IF i < k THEN i ELSE i + 1
<1>4. ASSUME NEW i \in 1..Len(t)
      PROVE  t[i] = q[At1(i)] /\ At1(i) \in 1..Len(q) /\ At1(i) # k
  <2>1. CASE i < k
    <3>1. i \in 1..(k - 1) /\ i <= Len(a) /\ i \in 1..(Len(a) + Len(b)) /\ i \in 1..Len(q) /\ i # k
      BY <2>1, <1>1, <1>2, <1>3
    <3> QED BY <3>1, <2>1, <1>2, <1>3
  <2>2. CASE ~(i < k)
    <3>1. /\ i - (k - 1) \in 1..(Len(q) - k) /\ ~(i <= Len(a)) /\ i \in 1..(Len(a) + Len(b))
          /\ (i - (k - 1)) + k = i + 1 /\ i + 1 \in 1..Len(q) /\ i + 1 # k
      BY <2>2, <1>1, <1>2, <1>3
    <3>2. t[i] = b[i - (k - 1)]
      BY <3>1, <1>2, <1>3
    <3>3. t[i] = q[i + 1]
      BY <3>1, <3>2, <1>2
    <3> QED BY <3>1, <3>3, <2>2
  <2> QED BY <2>1, <2>2
<1>5. ASSUME NEW j \in 1..Len(q), j # k
      PROVE  \E i \in 1..Len(t) : At1(i) = j
  <2>1. CASE j < k
    <3>1. j \in 1..Len(t) /\ At1(j) = j
      BY <2>1, <1>1, <1>3
    <3> QED BY <3>1
  <2>2. CASE j > k
    <3>1. j - 1 \in 1..Len(t) /\ At1(j - 1) = j
      BY <2>2, <1>1, <1>3
    <3> QED BY <3>1
  <2> QED BY <2>1, <2>2, <1>5, <1>1
<1>6. \A i, j \in 1..Len(t) : At1(i) = At1(j) => i = j
  BY <1>1, <1>3
<1> HIDE DEF t, At1
<1>7. Distinct(t)
  BY <1>4, <1>6 DEF Distinct
<1>8. ASSUME NEW x \in Up, Holds(t, x)
      PROVE  x # q[k] /\ Holds(q, x)
  BY <1>4, <1>8 DEF Holds, Distinct
<1>9. ASSUME NEW x \in Up, Holds(q, x), x # q[k]
      PROVE  Holds(t, x)
  BY <1>4, <1>5, <1>9 DEF Holds
<1>10. t = RemoveAt(q, k)
  BY DEF t, a, b, RemoveAt
<1> QED BY <1>3, <1>7, <1>8, <1>9, <1>10

LEMMA RangeHolds ==
  ASSUME NEW q \in Seq(Up), NEW u
  PROVE  u \in Range(q) <=> Holds(q, u)
BY DEF Range, Holds

\* An idle connection is closed, wherever it is in its venue's list.
LEMMA OwnIdle ==
  ASSUME NEW m, NEW w, NEW O, Owned(m, w, pool, O), NEW w2, NEW u \in Up, Pooled(u),
         ButUp(w2, w, u), w2[u] = NewUp
  PROVE  Owned(m, w2, Unpool(u), O)
<1> DEFINE p2 == Unpool(u)
<1>1. Pairs(m, w) /\ PoolSound(w, pool) /\ \A x \in Up : UpSound(w[x], x \in O)
  BY DEF Owned
<1>2. pool \in [Venue -> Seq(Up)] /\ \A v \in Venue : Distinct(pool[v])
  BY <1>1 DEF PoolSound, Distinct
<1>3. ASSUME NEW v \in Venue
      PROVE  /\ p2[v] \in Seq(Up) /\ Distinct(p2[v])
             /\ \A x \in Up : Holds(p2[v], x) <=> x # u /\ Holds(pool[v], x)
  <2>1. p2[v] = IF Holds(pool[v], u) THEN RemoveAt(pool[v], CHOOSE i \in 1..Len(pool[v]) : pool[v][i] = u)
                ELSE pool[v]
    BY <1>2, RangeHolds DEF Unpool
  <2>2. CASE ~Holds(pool[v], u)
    BY <2>1, <2>2, <1>2
  <2>3. CASE Holds(pool[v], u)
    <3> DEFINE k == CHOOSE i \in 1..Len(pool[v]) : pool[v][i] = u
    <3>1. k \in 1..Len(pool[v]) /\ pool[v][k] = u
      BY <2>3 DEF Holds
    <3>2. p2[v] = RemoveAt(pool[v], k)
      BY <2>1, <2>3
    <3> HIDE DEF k, p2
    <3> QED BY <3>1, <3>2, <1>2, RemoveLoses
  <2> QED BY <2>2, <2>3
<1>4. p2 \in [Venue -> Seq(Up)]
  BY <1>3 DEF Unpool
<1>5. \E v \in Venue : Holds(pool[v], u)
  BY <1>2, RangeHolds DEF Pooled
<1>6. w[u].c = NoClient
  BY <1>1, <1>5 DEF PoolSound, Holds, Fit
<1>7. \A x \in Up : UpSound(w2[x], x \in O)
  BY <1>1, NewUpSound DEF ButUp, UpSound
<1>8. Pairs(m, w2)
  <2>1. ASSUME NEW d \in Client, m[d].up # NoUp
        PROVE  m[d].up \in Up /\ Pair(d, m[d].n, m[d].phase, m[d].out, w2[m[d].up])
    <3>1. m[d].up \in Up /\ Pair(d, m[d].n, m[d].phase, m[d].out, w[m[d].up])
      BY <2>1, <1>1 DEF Pairs
    <3>2. m[d].up # u
      BY <3>1, <1>6, NoUpOut DEF Pair
    <3> QED BY <3>1, <3>2 DEF ButUp
  <2>2. ASSUME NEW x \in Up, w2[x].c # NoClient
        PROVE  m[w2[x].c].up = x
    BY <2>2, <1>1, NewUpSound DEF ButUp, Pairs
  <2> QED BY <2>1, <2>2 DEF Pairs
<1> HIDE DEF p2
<1>9. \A x \in Up : Unpaired(w[x]) => w[x].venue \in Venue
  BY <1>1 DEF UpSound, UpShape
<1>10. ~Unpaired(w2[u])
  BY NewUpSound DEF Unpaired
<1>11. PoolSound(w2, p2)
  BY <1>1, <1>3, <1>4, <1>9, <1>10, PoolLoses
<1> QED BY <1>7, <1>8, <1>11 DEF Owned, p2

\* Every upstream in use is a client's or the pool's, so the slots suffice.
LEMMA LiveFew ==
  ASSUME NEW m, NEW w, NEW p, NEW O, Owned(m, w, p, O)
  PROVE  LET L == {u \in Up : w[u].st # "free"}
         IN  IsFiniteSet(L) /\ Cardinality(L) <= Cardinality(Client) + PoolCap
<1> DEFINE A == {u \in Up : w[u].c # NoClient}
           B == {u \in Up : Unpaired(w[u])}
           L == {u \in Up : w[u].st # "free"}
           f == [u \in A |-> w[u].c]
<1>1. Pairs(m, w) /\ PoolSound(w, p) /\ \A x \in Up : UpSound(w[x], x \in O)
  BY DEF Owned
<1>2. \A u \in A : w[u].c \in Client /\ m[w[u].c].up = u
  BY <1>1 DEF UpSound, UpShape, Pairs
<1>3. f \in [A -> Client] /\ \A x, y \in A : f[x] = f[y] => x = y
  BY <1>2
<1>4. IsFiniteSet(A) /\ IsFiniteSet(B) /\ IsFiniteSet(L) /\ IsFiniteSet(Client)
  BY UpFinite, FS_Subset, LifecycleConstants
<1>5. Cardinality(A) <= Cardinality(Client)
  <2>1. f \in Injection(A, Client)
    BY <1>3 DEF Injection, IsInjective
  <2> QED BY <2>1, <1>4, FS_Injection
<1>6. L \subseteq A \cup B
  BY DEF Unpaired
<1>7. Cardinality(B) <= PoolCap
  BY <1>1 DEF PoolSound
<1> HIDE DEF A, B, L
<1>8. IsFiniteSet(A \cup B) /\ Cardinality(A \cup B) <= Cardinality(A) + Cardinality(B)
  <2>1. /\ IsFiniteSet(A \cup B) /\ IsFiniteSet(A \cap B)
        /\ Cardinality(A \cup B) = Cardinality(A) + Cardinality(B) - Cardinality(A \cap B)
    BY <1>4, FS_Union, FS_Intersection
  <2>2. Cardinality(A \cap B) \in Nat /\ Cardinality(A) \in Nat /\ Cardinality(B) \in Nat
    BY <2>1, <1>4, FS_CardinalityType
  <2> QED BY <2>1, <2>2
<1>9. Cardinality(L) <= Cardinality(A \cup B)
  BY <1>6, <1>8, FS_Subset
<1>10. /\ Cardinality(L) \in Nat /\ Cardinality(A) \in Nat /\ Cardinality(B) \in Nat
       /\ Cardinality(Client) \in Nat /\ Cardinality(A \cup B) \in Nat /\ PoolCap \in Nat
  BY <1>4, <1>8, FS_CardinalityType, LifecycleConstants
<1>11. Cardinality(L) <= Cardinality(Client) + PoolCap
  BY <1>5, <1>7, <1>8, <1>9, <1>10
<1> QED BY <1>4, <1>11 DEF L

\* A new connection has a slot no caller holds, unless the routine running
\* holds one that is not in use.
LEMMA FreshFree ==
  ASSUME NEW O, Owned(cl, us, pool, O), StackSound(todo), todo # <<>>,
         todo[1][2] \in Up => us[todo[1][2]].st # "free"
  PROVE  Fresh \in Up /\ us[Fresh].st = "free" /\ \A i \in 1..Len(todo) : todo[i][2] # Fresh
<1> DEFINE L == {u \in Up : us[u].st # "free"}
           W == Owed(todo)
           N(u) == ~Live(u) /\ \A i \in 1..Len(todo) : todo[i][2] # u
<1>1. IsFiniteSet(L) /\ Cardinality(L) <= Cardinality(Client) + PoolCap
  BY LiveFew
<1>2. \E x : W \subseteq {x}
  <2>1. CASE W = {}
    BY <2>1
  <2>2. CASE W # {}
    <3>1. PICK x \in Up : x \in W
      BY <2>2 DEF Owed
    <3>2. \A y \in W : y = x
      BY <3>1 DEF Owed, StackSound
    <3> QED BY <3>2
  <2> QED BY <2>1, <2>2
<1>3. PICK x : W \subseteq {x}
  BY <1>2
<1>4. IsFiniteSet(L \cup {x}) /\ Cardinality(L \cup {x}) <= Cardinality(L) + 1
  <2>1. CASE x \in L
    <3>1. L \cup {x} = L
      BY <2>1
    <3>2. Cardinality(L) \in Nat
      BY <1>1, FS_CardinalityType
    <3> HIDE DEF L
    <3>3. IsFiniteSet(L \cup {x}) /\ Cardinality(L \cup {x}) = Cardinality(L)
      BY <3>1, <1>1, Zenon
    <3>4. Cardinality(L \cup {x}) <= Cardinality(L) + 1
      BY <3>2, <3>3
    <3> QED BY <3>3, <3>4
  <2>2. CASE x \notin L
    <3>1. /\ Cardinality(L) \in Nat /\ IsFiniteSet(L \cup {x})
          /\ Cardinality(L \cup {x}) = Cardinality(L) + 1
      BY <2>2, <1>1, FS_CardinalityType, FS_AddElement
    <3> HIDE DEF L
    <3> QED BY <3>1
  <2> QED BY <2>1, <2>2
<1>5. \E u \in Up : u \notin L \cup {x}
  <2> SUFFICES ASSUME Up \subseteq L \cup {x} PROVE FALSE
    OBVIOUS
  <2>1. NUp <= Cardinality(L \cup {x})
    BY <1>4, UpFinite, FS_Subset
  <2>2. /\ Cardinality(L) \in Nat /\ Cardinality(L \cup {x}) \in Nat /\ Cardinality(Client) \in Nat
        /\ PoolCap \in Nat /\ NUp \in Nat /\ NUp >= Cardinality(Client) + PoolCap + 2
    BY <1>1, <1>4, FS_CardinalityType, LifecycleConstants
  <2> HIDE DEF L
  <2> QED BY <2>1, <2>2, <1>1, <1>4
<1>6. PICK u \in Up : u \notin L \cup {x}
  BY <1>5
<1>7. ASSUME NEW i \in 1..Len(todo)
      PROVE  todo[i][2] # u
  <2>1. todo \in Seq(Entries) /\ todo[i] \in Entries /\ Len(todo) \in Nat
    BY DEF StackSound
  <2>2. CASE i = 1
    BY <2>2, <1>6
  <2>3. CASE i # 1 /\ todo[i][1] = "upEof"
    <3>1. i \in 2..Len(todo) /\ todo[i][2] \in Up /\ todo[i] = <<"upEof", todo[i][2]>>
      BY <2>1, <2>3, EntryTypes DEF ClientOps
    <3>2. todo[i][2] \in W
      BY <3>1 DEF Owed
    <3> HIDE DEF W, L
    <3>3. todo[i][2] = x
      BY <3>2, <1>3
    <3> QED BY <3>3, <1>6
  <2>4. CASE i # 1 /\ todo[i][1] # "upEof"
    <3>1. i \in 2..Len(todo)
      BY <2>1, <2>4
    <3>2. todo[i][1] = "gate"
      BY <3>1, <2>4 DEF StackSound
    <3>3. todo[i][2] \in Client
      BY <2>1, <3>2, EntryTypes DEF UpOps
    <3> QED BY <3>3, <1>6, Apart
  <2> QED BY <2>2, <2>3, <2>4
<1>8. N(u)
  BY <1>6, <1>7 DEF Live
<1>9. Fresh \in Up /\ N(Fresh)
  BY <1>8 DEF Fresh
<1> QED BY <1>9 DEF Live

-----------------------------------------------------------------------------
(* A step, of a client and of all there is to it.                          *)

\* The routine running is about no client but c.
Alone(td, c) == \A d \in Client : d # c => At(td, d) = "none"

\* Only c's records and answers grow.
Keeps(rc2, rc, c) == \A d \in Client, k \in 1..MaxReq : d # c => rc2[<<d, k>>] = rc[<<d, k>>]
Others(c) ==
  /\ recs' \in [Request -> Nat] /\ answered' \subseteq Request /\ fin' \subseteq Request
  /\ Keeps(recs', recs, c)
  /\ \A d \in Client, k \in 1..MaxReq : d # c /\ <<d, k>> \in answered' => <<d, k>> \in answered
OnlyClient(c) == DOMAIN cl' = Client /\ DOMAIN us' = Up /\ ButClient(cl', cl, c)

LEMMA LocalGated ==
  ASSUME NEW c, NEW x, NEW at, NEW g, NEW rc, NEW an, Local(c, x, at, g, rc, an), NEW g2, g => g2
  PROVE  Local(c, x, at, g2, rc, an)
BY DEF Local, ClientSound, Awake

LEMMA LocalElse ==
  ASSUME Inv, NEW c \in Client, OnlyClient(c), Others(c), NEW d \in Client, d # c,
         At(todo, d) = "none", At(todo', d) = "none", Gated(todo, d) => Gated(todo', d)
  PROVE  Local(d, cl'[d], At(todo', d), Gated(todo', d), recs', answered')
<1>1. cl'[d] = cl[d] /\ Local(d, cl[d], "none", Gated(todo, d), recs, answered)
  BY DEF Inv, OnlyClient, ButClient
<1>2. Local(d, cl[d], "none", Gated(todo', d), recs, answered)
  BY <1>1, LocalGated
<1>3. \A k \in 1..MaxReq :
        recs'[<<d, k>>] = recs[<<d, k>>] /\ (<<d, k>> \in answered' => <<d, k>> \in answered)
  BY DEF Others, Keeps
<1>4. Recorded(d, cl[d].n, cl[d].phase, cl[d].mute, "none", recs')
  BY <1>2, <1>3 DEF Local, Recorded
<1>5. Unanswered(d, cl[d].n, cl[d].phase, "none", answered')
  BY <1>2, <1>3 DEF Local, Unanswered
<1> QED BY <1>1, <1>2, <1>4, <1>5 DEF Local

LEMMA Steps ==
  ASSUME Inv, NEW c \in Client, OnlyClient(c), Others(c), Alone(todo, c), Alone(todo', c),
         StackSound(todo'), \A d \in Client : d # c /\ Gated(todo, d) => Gated(todo', d),
         Local(c, cl'[c], At(todo', c), Gated(todo', c), recs', answered'),
         Owned(cl', us', pool', Owed(todo')), HeadFit(cl', us', todo')
  PROVE  Inv'
<1>1. ASSUME NEW d \in Client
      PROVE  Local(d, cl'[d], At(todo', d), Gated(todo', d), recs', answered')
  BY <1>1, LocalElse DEF Alone
<1> QED BY <1>1 DEF Inv, OnlyClient, Others

\* The routine returns, or the event calls none.
LEMMA RestFit ==
  ASSUME NEW m, NEW w, NEW p, NEW td, NEW r, Leaves(td, r), Owned(m, w, p, Owed(td))
  PROVE  /\ HeadFit(m, w, r) /\ Owned(m, w, p, Owed(r)) /\ StackSound(r)
         /\ \A c \in Client : At(r, c) = "none" /\ (Gated(td, c) => Gated(r, c))
<1>1. RestSound(r) /\ OwedIn(r) = Owed(td)
  BY DEF Leaves
<1>2. /\ StackSound(r) /\ Owed(r) \subseteq Owed(td)
      /\ \A c \in Client : At(r, c) = "none"
      /\ r # <<>> => r[1] \in Entries /\ (r[1][1] = "gate" \/ (r[1][1] = "upEof" /\ r[1][2] \in Owed(td)))
  BY <1>1, RestStack
<1>3. Owned(m, w, p, Owed(r))
  BY <1>2, OwnFewer
<1>4. \A u \in Owed(td) : w[u].st = "free" \/ w[u].c # NoClient
  BY OwedFit DEF Owed
<1>5. HeadFit(m, w, r)
  BY <1>2, <1>4 DEF HeadFit, UpOps
<1> QED BY <1>2, <1>3, <1>5 DEF Leaves

LEMMA StepReturns ==
  ASSUME Inv, NEW c \in Client, OnlyClient(c), Others(c), Alone(todo, c), Leaves(todo, todo'),
         Local(c, cl'[c], "none", Gated(todo', c), recs', answered'),
         Owned(cl', us', pool', Owed(todo))
  PROVE  Inv'
<1>1. /\ HeadFit(cl', us', todo') /\ Owned(cl', us', pool', Owed(todo')) /\ StackSound(todo')
      /\ \A d \in Client : At(todo', d) = "none" /\ (Gated(todo, d) => Gated(todo', d))
  BY RestFit
<1> QED BY <1>1, Steps DEF Alone

\* It calls a routine about the client,
LEMMA StepCalls ==
  ASSUME Inv, NEW c \in Client, OnlyClient(c), Others(c), Alone(todo, c),
         NEW op \in ClientOps \ {"gate"}, Goes(todo, todo', c, op), todo' # <<>>,
         todo'[1] = <<op, c>>,
         Local(c, cl'[c], op, Gated(todo', c), recs', answered'),
         Owned(cl', us', pool', Owed(todo))
  PROVE  Inv'
<1>1. /\ StackSound(todo') /\ Owed(todo') \subseteq Owed(todo) /\ At(todo', c) = op
      /\ \A d \in Client : (d # c => At(todo', d) = "none") /\ (Gated(todo, d) => Gated(todo', d))
  BY DEF Goes
<1>2. Owned(cl', us', pool', Owed(todo'))
  BY <1>1, OwnFewer
<1>3. HeadFit(cl', us', todo')
  BY DEF HeadFit, ClientOps, UpOps
<1> QED BY <1>1, <1>2, <1>3, Steps DEF Alone

\* or one about an upstream.
LEMMA StepCallsUp ==
  ASSUME Inv, NEW c \in Client, OnlyClient(c), Others(c), Alone(todo, c),
         NEW op \in UpOps \ {"upBytes", "upEof"}, NEW u \in Up, Goes(todo, todo', c, "none"),
         todo' # <<>>, todo'[1] = <<op, u>>,
         us'[u].c # NoClient, op \in {"pump", "pumpEof"} => cl'[us'[u].c].phase = "Streaming",
         Local(c, cl'[c], "none", Gated(todo', c), recs', answered'),
         Owned(cl', us', pool', Owed(todo))
  PROVE  Inv'
<1>1. /\ StackSound(todo') /\ Owed(todo') \subseteq Owed(todo)
      /\ \A d \in Client : At(todo', d) = "none" /\ (Gated(todo, d) => Gated(todo', d))
  BY DEF Goes
<1>2. Owned(cl', us', pool', Owed(todo'))
  BY <1>1, OwnFewer
<1>3. HeadFit(cl', us', todo')
  BY DEF HeadFit
<1> QED BY <1>1, <1>2, <1>3, Steps DEF Alone

LEMMA RunsClient ==
  ASSUME Inv, NEW c \in Client, NEW op \in ClientOps \ {"gate"}, Runs(op, c)
  PROVE  /\ todo # <<>> /\ StackSound(todo) /\ todo[1] = <<op, c>> /\ todo[1][1] # "gate"
         /\ Alone(todo, c) /\ At(todo, c) = op /\ Leaves(todo, Tail(todo))
         /\ Local(c, cl[c], op, Gated(todo, c), recs, answered)
<1>1. todo # <<>> /\ StackSound(todo) /\ Head(todo) = <<op, c>>
  BY DEF Inv, Runs
<1>2. todo[1] = <<op, c>>
  BY <1>1, TailRest
<1>3. Leaves(todo, Tail(todo))
  BY <1>1, <1>2, LeavesTail
<1>4. Alone(todo, c) /\ At(todo, c) = op
  BY <1>1, <1>2 DEF Alone, At
<1> QED BY <1>1, <1>2, <1>3, <1>4 DEF Inv

LEMMA RunsUp ==
  ASSUME Inv, NEW u \in Up, NEW op \in UpOps, Runs(op, u)
  PROVE  /\ todo # <<>> /\ StackSound(todo) /\ todo[1] = <<op, u>> /\ todo[1][1] # "gate"
         /\ \A c \in Client : Alone(todo, c) /\ At(todo, c) = "none"
         /\ Leaves(todo, Tail(todo))
         /\ \A c \in Client : Local(c, cl[c], "none", Gated(todo, c), recs, answered)
<1>1. todo # <<>> /\ StackSound(todo) /\ Head(todo) = <<op, u>>
  BY DEF Inv, Runs
<1>2. todo[1] = <<op, u>> /\ op # "gate"
  BY <1>1, TailRest DEF UpOps
<1>3. Leaves(todo, Tail(todo))
  BY <1>1, <1>2, LeavesTail
<1>4. \A c \in Client : At(todo, c) = "none"
  BY <1>1, <1>2, Apart DEF At
<1> QED BY <1>1, <1>2, <1>3, <1>4 DEF Inv, Alone

LEMMA QuietStack ==
  ASSUME Inv, Quiet
  PROVE  /\ todo = <<>>
         /\ \A c \in Client : Alone(todo, c) /\ At(todo, c) = "none"
         /\ \A c \in Client : Local(c, cl[c], "none", Gated(todo, c), recs, answered)
         /\ Leaves(todo, <<>>)
<1>1. \A c \in Client : At(todo, c) = "none"
  BY DEF Quiet, At
<1> QED BY <1>1, LeavesNone DEF Quiet, Inv, Alone

\* A request's record, made once it is over.
Made(rc, c, n)           == [rc EXCEPT ![<<c, n>>] = @ + 1]
MadeIf(rc, c, n, phase)  == IF phase # "Idle" THEN Made(rc, c, n) ELSE rc
ClosedFrom(n, sent, m)   == [NewClient EXCEPT !.st = "closed", !.n = n, !.sent = sent, !.mute = m]

LEMMA RecordMade ==
  ASSUME NEW c \in Client, NEW n \in 1..MaxReq, NEW phase, NEW at, NEW rc \in [Request -> Nat],
         NEW mute, Recorded(c, n, phase, mute, at, rc), phase # "Idle",
         NEW rc2, rc2 = Made(rc, c, n)
  PROVE  /\ rc2 \in [Request -> Nat]
         /\ Keeps(rc2, rc, c)
         /\ \A at2 : at2 \notin {"dispatch", "error"} => Recorded(c, n, "Idle", FALSE, at2, rc2)
<1>1. <<c, n>> \in Request
  BY DEF Request
<1>2. rc2 \in [Request -> Nat]
  BY <1>1 DEF Made
<1>3. \A d \in Client, k \in 1..MaxReq :
        rc2[<<d, k>>] = IF d = c /\ k = n THEN rc[<<c, n>>] + 1 ELSE rc[<<d, k>>]
  BY <1>1 DEF Request, Made
<1> QED BY <1>2, <1>3, LifecycleConstants DEF Recorded, Keeps

LEMMA RecordsOne ==
  ASSUME NEW c \in Client, recs \in [Request -> Nat], cl[c].n \in Nat, NEW k, NEW b \in BOOLEAN,
         Record(c, TRUE, k, b), ~SinkUnfinished(k)
  PROVE  recs' = Made(recs, c, cl[c].n)
<1> DEFINE one  == IF TRUE THEN 1 ELSE 0
           none == IF b /\ SinkUnfinished(k) THEN 1 ELSE 0
<1>1. one = 1 /\ none = 0
  OBVIOUS
<1>2. recs' = [recs EXCEPT ![Req(c)] = @ + one + none]
  BY Zenon DEF Record
<1> HIDE DEF one, none
<1>3. recs' = [recs EXCEPT ![Req(c)] = @ + 1 + 0]
  BY <1>1, <1>2
<1>4. CASE Req(c) \in Request
  <2>1. recs[Req(c)] \in Nat
    BY <1>4
  <2>2. recs[Req(c)] + 1 + 0 = recs[Req(c)] + 1
    BY <2>1
  <2> QED BY <1>3, <2>2 DEF Made, Req
<1>5. CASE Req(c) \notin Request
  BY <1>3, <1>5 DEF Made, Req
<1> QED BY <1>4, <1>5

LEMMA LocalClosed ==
  ASSUME NEW c \in Client, NEW x, NEW at, NEW g, NEW rc \in [Request -> Nat], NEW an,
         Local(c, x, at, g, rc, an), NEW g2, NEW rc2,
         rc2 = MadeIf(rc, c, x.n, x.phase),
         x.st = "open", x.phase # "Idle" \/ at # "dispatch",
         NEW m \in BOOLEAN, m <=> at = "error" /\ x.phase = "Idle",
         NEW y, y = ClosedFrom(x.n, x.sent, m)
  PROVE  /\ Local(c, y, "none", g2, rc2, an) /\ rc2 \in [Request -> Nat]
         /\ Keeps(rc2, rc, c)
<1>1. /\ x.n \in 0..MaxReq /\ x.sent \in 0..MaxReq /\ x.n <= x.sent
      /\ x.phase # "Idle" => x.n >= 1
      /\ ~x.mute
  BY DEF Local, ClientSound, ClientShape, Mode, Pipe
<1>2. /\ y.st = "closed" /\ y.n = x.n /\ y.sent = x.sent /\ y.rbuf = <<>> /\ ~y.half
      /\ y.phase = "Idle" /\ y.up = NoUp /\ y.saved = 0 /\ y.out = <<>> /\ ~y.closeAfter
      /\ ~y.streaming /\ ~y.ended /\ ~y.sunk /\ ~y.paused /\ y.mute = m
  BY DEF NewClient, ClosedFrom
<1>3. ClientShape(y)
  <2>1. /\ 0 \in 0..(MaxAttempts - 1) /\ 0 \in 0..MaxReq /\ <<>> \in Seq(Nat)
        /\ FirstVenue \in Venue
    BY LifecycleConstants
  <2>2. y = [st |-> "closed", rbuf |-> <<>>, sent |-> x.sent, half |-> FALSE, told |-> FALSE,
             n |-> x.n, phase |-> "Idle", up |-> NoUp, slot |-> FirstVenue, saved |-> 0,
             attempts |-> 0, out |-> <<>>, msg |-> "close", closeAfter |-> FALSE,
             streaming |-> FALSE, ended |-> FALSE, terminated |-> FALSE, body |-> "sc",
             chunkedOut |-> FALSE, keepUp |-> FALSE, bodyDone |-> FALSE, bad |-> FALSE,
             said |-> FALSE, sunk |-> FALSE, framed |-> FALSE, paused |-> FALSE, mute |-> m]
    BY DEF NewClient, ClosedFrom
  <2>3. y.out = <<>> /\ y.msg = "close"
    BY <2>2
  <2> QED BY <1>1, <2>1, <2>2, <2>3 DEF ClientShape, Phases, Bodies
<1>4. ClientSound(y, "none", g2)
  BY <1>1, <1>2, <1>3, EmptyIs DEF ClientSound, Mode, Pipe, Awake
<1>5. /\ rc2 \in [Request -> Nat]
      /\ Keeps(rc2, rc, c)
      /\ Recorded(c, y.n, y.phase, y.mute, "none", rc2)
  <2>1. Recorded(c, x.n, x.phase, x.mute, at, rc)
    BY DEF Local
  <2>2. CASE x.phase # "Idle"
    <3>1. x.n \in 1..MaxReq /\ rc2 = Made(rc, c, x.n)
      BY <2>2, <1>1 DEF MadeIf
    <3>2. /\ rc2 \in [Request -> Nat]
          /\ Keeps(rc2, rc, c)
          /\ \A at2 : at2 \notin {"dispatch", "error"} => Recorded(c, x.n, "Idle", FALSE, at2, rc2)
      BY <2>1, <2>2, <3>1, RecordMade
    <3>3. y.mute = FALSE
      BY <2>2, <1>2
    <3> QED BY <3>2, <3>3, <1>2
  <2>3. CASE x.phase = "Idle"
    <3>1. at # "dispatch" /\ (m <=> at = "error")
      BY <2>3
    <3>2. rc2 = rc
      BY <2>3 DEF MadeIf
    <3> QED BY <2>1, <2>3, <3>1, <3>2, <1>1, <1>2 DEF Recorded, Keeps
  <2> QED BY <2>2, <2>3
<1>6. Unanswered(c, y.n, y.phase, "none", an)
  BY <1>2 DEF Local, Unanswered
<1> QED BY <1>4, <1>5, <1>6 DEF Local

\* error_respond runs when it is at the head.
LEMMA RunsError ==
  ASSUME Inv, NEW c \in Client
  PROVE  Runs("error", c) <=> At(todo, c) = "error"
<1>1. CASE todo = <<>>
  BY <1>1 DEF Runs, At
<1>2. CASE todo # <<>>
  <2>1. StackSound(todo)
    BY DEF Inv
  <2>2. Head(todo) = todo[1] /\ todo[1] = <<todo[1][1], todo[1][2]>>
    BY <1>2, <2>1, TailRest, EntryTypes
  <2> QED BY <1>2, <2>2 DEF Runs, At
<1> QED BY <1>1, <1>2

LEMMA ClosedUp ==
  ASSUME NEW c
  PROVE  Closed(c).up = NoUp
BY DEF Closed, NewClient

\* The client is closed and its request recorded, whatever becomes of its
\* upstream,
LEMMA StepShuts ==
  ASSUME Inv, NEW c \in Client, Alone(todo, c), Leaves(todo, todo'),
         cl[c].st = "open", cl[c].phase # "Idle" \/ At(todo, c) # "dispatch",
         OnlyClient(c), cl'[c] = Closed(c),
         recs' = MadeIf(recs, c, cl[c].n, cl[c].phase), answered' = answered, fin' = fin,
         Owned(cl', us', pool', Owed(todo))
  PROVE  Inv'
<1>1. recs \in [Request -> Nat] /\ Local(c, cl[c], At(todo, c), Gated(todo, c), recs, answered)
  BY DEF Inv
<1>2. /\ Local(c, cl'[c], "none", Gated(todo', c), recs', answered) /\ recs' \in [Request -> Nat]
      /\ Keeps(recs', recs, c)
  <2> DEFINE g == Gated(todo, c)
             g2 == Gated(todo', c)
             at == At(todo, c)
             m  == Runs("error", c) /\ cl[c].phase = "Idle"
  <2>1. /\ Local(c, cl[c], at, g, recs, answered) /\ cl[c].st = "open"
        /\ cl[c].phase # "Idle" \/ at # "dispatch"
    BY <1>1
  <2>a. m \in BOOLEAN /\ (m <=> at = "error" /\ cl[c].phase = "Idle")
    BY RunsError
  <2>b. cl'[c] = ClosedFrom(cl[c].n, cl[c].sent, m)
    BY DEF Closed, ClosedFrom
  <2> HIDE DEF g, g2, at, m
  <2>2. /\ Local(c, cl'[c], "none", g2, recs', answered) /\ recs' \in [Request -> Nat]
        /\ Keeps(recs', recs, c)
    <3>1. recs' = MadeIf(recs, c, cl[c].n, cl[c].phase)
      OBVIOUS
    <3> QED BY ONLY <1>1, <2>1, <2>a, <2>b, <3>1, LocalClosed, c \in Client
  <2> QED BY <2>2 DEF g2
<1>3. Others(c)
  BY <1>2 DEF Others, Inv
<1> QED BY <1>2, <1>3, StepReturns

\* as when it is closed with it.
LEMMA DropsUp ==
  ASSUME Inv, NEW c \in Client, us' = DropUp(c)
  PROVE  DOMAIN us' = Up /\ ButUp(us', us, cl[c].up) /\ (cl[c].up # NoUp => us'[cl[c].up] = NewUp)
<1>1. Local(c, cl[c], At(todo, c), Gated(todo, c), recs, answered) /\ DOMAIN us = Up
  BY DEF Inv
<1>2. cl[c].up \in Up \cup {NoUp}
  BY <1>1 DEF Local, ClientSound, ClientShape
<1> QED BY <1>1, <1>2 DEF DropUp, FreeUp, ButUp

LEMMA StepCloses ==
  ASSUME Inv, NEW c \in Client, Alone(todo, c), Leaves(todo, todo'), CloseClient(c),
         cl[c].st = "open", cl[c].phase # "Idle" \/ At(todo, c) # "dispatch"
  PROVE  Inv'
<1>1. DOMAIN cl = Client /\ DOMAIN us = Up /\ recs \in [Request -> Nat]
  BY DEF Inv
<1>2. /\ Local(c, cl[c], At(todo, c), Gated(todo, c), recs, answered)
      /\ Owned(cl, us, pool, Owed(todo))
  BY DEF Inv
<1>3. cl[c].phase # "Idle" => ~cl[c].sunk
  BY <1>2 DEF Local, ClientSound, Mode
<1>4. DOMAIN us' = Up /\ ButUp(us', us, cl[c].up) /\ (cl[c].up # NoUp => us'[cl[c].up] = NewUp)
  BY DropsUp DEF CloseClient
<1>5. OnlyClient(c) /\ cl'[c] = Closed(c)
  BY <1>1, <1>4 DEF CloseClient, OnlyClient, ButClient
<1>6. recs' = MadeIf(recs, c, cl[c].n, cl[c].phase)
  BY <1>3 DEF CloseClient, SinkUnfinished, Req, Made, MadeIf
<1>7. answered' = answered /\ fin' = fin /\ pool' = pool
  BY DEF CloseClient
<1>8. cl'[c].up = NoUp
  BY <1>5, ClosedUp
<1>9. Owned(cl', us', pool', Owed(todo))
  BY <1>2, <1>4, <1>5, <1>7, <1>8, OwnDrop DEF OnlyClient
<1> QED BY <1>5, <1>6, <1>7, <1>9, StepShuts

-----------------------------------------------------------------------------
(* What each routine makes of its client.                                  *)

\* The fields' types, one by one.
Typed(x) ==
  /\ x.st \in {"new", "open", "closed"} /\ x.rbuf \in Seq(Nat) /\ x.sent \in 0..MaxReq
  /\ x.half \in BOOLEAN
  /\ x.told \in BOOLEAN /\ x.n \in 0..MaxReq /\ x.phase \in Phases /\ x.up \in Up \cup {NoUp}
  /\ x.slot \in Venue /\ x.saved \in 0..MaxReq /\ x.attempts \in 0..(MaxAttempts - 1)
  /\ x.closeAfter \in BOOLEAN /\ x.streaming \in BOOLEAN /\ x.ended \in BOOLEAN
  /\ x.terminated \in BOOLEAN /\ x.body \in Bodies /\ x.chunkedOut \in BOOLEAN
  /\ x.keepUp \in BOOLEAN /\ x.bodyDone \in BOOLEAN /\ x.bad \in BOOLEAN
  /\ x.said \in BOOLEAN /\ x.sunk \in BOOLEAN /\ x.framed \in BOOLEAN /\ x.paused \in BOOLEAN
  /\ x.mute \in BOOLEAN

Formed(x) ==
  x = [st |-> x.st, rbuf |-> x.rbuf, sent |-> x.sent, half |-> x.half,
       told |-> x.told, n |-> x.n, phase |-> x.phase, up |-> x.up, slot |-> x.slot,
       saved |-> x.saved, attempts |-> x.attempts, out |-> x.out, msg |-> x.msg,
       closeAfter |-> x.closeAfter, streaming |-> x.streaming, ended |-> x.ended,
       terminated |-> x.terminated, body |-> x.body, chunkedOut |-> x.chunkedOut,
       keepUp |-> x.keepUp, bodyDone |-> x.bodyDone, bad |-> x.bad, said |-> x.said,
       sunk |-> x.sunk, framed |-> x.framed, paused |-> x.paused, mute |-> x.mute]

LEMMA ShapeTyped ==
  ASSUME NEW x, ClientShape(x)
  PROVE  Typed(x) /\ Formed(x)
BY DEF ClientShape, Typed, Formed

LEMMA TypedShape ==
  ASSUME NEW x, Typed(x), Formed(x)
  PROVE  ClientShape(x)
BY DEF ClientShape, Typed, Formed

\* gate_client_reads.
LEMMA LocalGate ==
  ASSUME NEW c \in Client, NEW x, NEW g, NEW g2, NEW rc, NEW an, Local(c, x, "none", g, rc, an),
         x.st = "open",
         NEW b \in BOOLEAN, b => x.phase # "Idle", NEW y, y = [x EXCEPT !.paused = b]
  PROVE  /\ Local(c, y, "none", g2, rc, an) /\ y.up = x.up /\ y.n = x.n /\ y.phase = x.phase
         /\ y.out = x.out
<1>1. ClientShape(x)
  BY DEF Local, ClientSound
<1>2. ClientShape(y)
  BY <1>1 DEF ClientShape
<1>3. /\ y.st = x.st /\ y.rbuf = x.rbuf /\ y.sent = x.sent /\ y.half = x.half /\ y.n = x.n
      /\ y.phase = x.phase /\ y.up = x.up /\ y.saved = x.saved /\ y.out = x.out
      /\ y.closeAfter = x.closeAfter /\ y.streaming = x.streaming /\ y.ended = x.ended
      /\ y.sunk = x.sunk /\ y.paused = b /\ y.mute = x.mute
  BY <1>1 DEF ClientShape
<1> HIDE DEF ClientShape
<1>4. Local(c, y, "none", g2, rc, an)
  BY <1>2, <1>3 DEF Local, ClientSound, Awake
<1> QED BY <1>3, <1>4

\* try_frame with nothing to frame.
LEMMA LocalNothing ==
  ASSUME NEW c \in Client, NEW x, NEW rc, NEW an, NEW g2, Local(c, x, "frame", g2, rc, an),
         ~(x.st = "open" /\ x.phase = "Idle" /\ x.rbuf # <<>>) \/ (x.half /\ Len(x.rbuf) = 1)
  PROVE  Local(c, x, "none", g2, rc, an)
<1>1. /\ ClientShape(x) /\ IsSeq(x.out)
      /\ Mode(x.st, x.phase, x.up, x.n, x.streaming, x.ended, x.closeAfter, x.sunk, x.mute, "frame")
      /\ Pipe(x.st, x.rbuf, x.sent, x.n, x.saved, x.phase, x.closeAfter, "frame")
      /\ Awake(x.st, x.phase, x.up, x.rbuf, x.half, x.out, x.ended, x.paused, "frame", g2)
      /\ Recorded(c, x.n, x.phase, x.mute, "frame", rc)
      /\ Unanswered(c, x.n, x.phase, "frame", an)
  BY DEF Local, ClientSound
<1>3. ClientShape(x)
  BY <1>1
<1>4. Mode(x.st, x.phase, x.up, x.n, x.streaming, x.ended, x.closeAfter, x.sunk, x.mute, "none")
  BY <1>1, <1>3 DEF Mode
<1>5. Pipe(x.st, x.rbuf, x.sent, x.n, x.saved, x.phase, x.closeAfter, "none")
  BY <1>1, <1>3 DEF Pipe, Mode
<1>6. Awake(x.st, x.phase, x.up, x.rbuf, x.half, x.out, x.ended, x.paused, "none", g2)
  BY <1>1, <1>3 DEF Awake, Mode
<1>8. Recorded(c, x.n, x.phase, x.mute, "none", rc)
  BY <1>1, <1>3 DEF Recorded, Mode
<1>9. Unanswered(c, x.n, x.phase, "none", an)
  BY <1>1, <1>3 DEF Unanswered, Mode
<1>10. IsSeq(x.out)
  BY <1>1, <1>3, EmptyIs
<1> QED BY <1>3, <1>4, <1>5, <1>6, <1>8, <1>9, <1>10 DEF Local, ClientSound

\* try_frame on a head: its continue is owed, or some of it is.
Continued(x, o) == [x EXCEPT !.out = o, !.told = TRUE]

LEMMA LocalContinue ==
  ASSUME NEW c \in Client, NEW x, NEW rc, NEW an, NEW g2, Local(c, x, "frame", g2, rc, an),
         x.phase = "Idle",
         x.half,
         Len(x.rbuf) = 1,
         NEW o,
         IsSeq(o)
  PROVE  /\ Local(c, Continued(x, o), "none", g2, rc, an)
         /\ Continued(x, o).up = x.up /\ Continued(x, o).n = x.n /\ Continued(x, o).phase = x.phase
         /\ Continued(x, o).out = o
<1> SUFFICES ASSUME NEW y, y = Continued(x, o)
             PROVE  /\ Local(c, y, "none", g2, rc, an)
               /\ y.up = x.up /\ y.n = x.n /\ y.phase = x.phase /\ y.out = o
  OBVIOUS
<1>1. /\ ClientShape(x) /\ IsSeq(x.out)
      /\ Mode(x.st, x.phase, x.up, x.n, x.streaming, x.ended, x.closeAfter, x.sunk, x.mute, "frame")
      /\ Pipe(x.st, x.rbuf, x.sent, x.n, x.saved, x.phase, x.closeAfter, "frame")
      /\ Awake(x.st, x.phase, x.up, x.rbuf, x.half, x.out, x.ended, x.paused, "frame", g2)
      /\ Recorded(c, x.n, x.phase, x.mute, "frame", rc)
      /\ Unanswered(c, x.n, x.phase, "frame", an)
  BY DEF Local, ClientSound
<1>2. ClientShape(y)
  BY <1>1 DEF ClientShape, Continued, Phases, Bodies
<1>3. /\ y.st = x.st /\ y.rbuf = x.rbuf /\ y.sent = x.sent /\ y.half = x.half /\ y.n = x.n
      /\ y.phase = x.phase /\ y.up = x.up /\ y.saved = x.saved /\ y.out = o
      /\ y.closeAfter = x.closeAfter
      /\ y.streaming = x.streaming /\ y.ended = x.ended /\ y.sunk = x.sunk /\ y.paused = x.paused
      /\ y.mute = x.mute
  BY <1>1 DEF ClientShape, Continued
<1>4. Mode(y.st, y.phase, y.up, y.n, y.streaming, y.ended, y.closeAfter, y.sunk, y.mute, "none")
  BY <1>1, <1>3 DEF Mode
<1>5. Pipe(y.st, y.rbuf, y.sent, y.n, y.saved, y.phase, y.closeAfter, "none")
  <2>1. Pipe(x.st, x.rbuf, x.sent, x.n, x.saved, x.phase, x.closeAfter, "none")
    BY <1>1 DEF Pipe
  <2> QED BY <2>1, <1>3
<1>6. Awake(y.st, y.phase, y.up, y.rbuf, y.half, y.out, y.ended, y.paused, "none", g2)
  BY <1>1, <1>3 DEF Awake, Mode
<1>8. Recorded(c, y.n, y.phase, y.mute, "none", rc)
  BY <1>1, <1>3 DEF Recorded, Mode
<1>9. Unanswered(c, y.n, y.phase, "none", an)
  BY <1>1, <1>3 DEF Unanswered, Mode
<1>10. IsSeq(y.out)
  BY <1>1, <1>3, EmptyIs
<1> QED BY <1>2, <1>3, <1>4, <1>5, <1>6, <1>8, <1>9, <1>10 DEF Local, ClientSound

\* dispatch of a request that does not fit its venue.
LEMMA LocalRefused ==
  ASSUME NEW c \in Client, NEW x, NEW rc, NEW an, NEW g2, Local(c, x, "dispatch", g2, rc, an)
  PROVE  Local(c, x, "error", g2, rc, an)
<1>1. /\ ClientShape(x) /\ IsSeq(x.out)
      /\ Mode(x.st, x.phase, x.up, x.n, x.streaming, x.ended, x.closeAfter, x.sunk, x.mute, "dispatch")
      /\ Pipe(x.st, x.rbuf, x.sent, x.n, x.saved, x.phase, x.closeAfter, "dispatch")
      /\ Awake(x.st, x.phase, x.up, x.rbuf, x.half, x.out, x.ended, x.paused, "dispatch", g2)
      /\ Recorded(c, x.n, x.phase, x.mute, "dispatch", rc)
      /\ Unanswered(c, x.n, x.phase, "dispatch", an)
  BY DEF Local, ClientSound
<1>3. ClientShape(x)
  BY <1>1
<1>4. Mode(x.st, x.phase, x.up, x.n, x.streaming, x.ended, x.closeAfter, x.sunk, x.mute, "error")
  BY <1>1, <1>3 DEF Mode
<1>5. Pipe(x.st, x.rbuf, x.sent, x.n, x.saved, x.phase, x.closeAfter, "error")
  BY <1>1, <1>3 DEF Pipe, Mode
<1>6. Awake(x.st, x.phase, x.up, x.rbuf, x.half, x.out, x.ended, x.paused, "error", g2)
  BY <1>1, <1>3 DEF Awake, Mode
<1>8. Recorded(c, x.n, x.phase, x.mute, "error", rc)
  BY <1>1, <1>3 DEF Recorded, Mode
<1>9. Unanswered(c, x.n, x.phase, "error", an)
  BY <1>1, <1>3 DEF Unanswered, Mode
<1>10. IsSeq(x.out)
  BY <1>1, <1>3, EmptyIs
<1> QED BY <1>3, <1>4, <1>5, <1>6, <1>8, <1>9, <1>10 DEF Local, ClientSound

\* error_respond stages its reply.
Answering(x, i) == [x EXCEPT !.out = <<i>>, !.phase = "Replying", !.closeAfter = TRUE, !.up = NoUp]

LEMMA LocalAnswer ==
  ASSUME NEW c \in Client, NEW x, NEW rc, NEW an, NEW g2, Local(c, x, "error", g2, rc, an),
         x.phase \notin {"Streaming", "Replying"},
         NEW i,
         IsSeq(<<i>>) /\ <<i>> # <<>>
  PROVE  /\ Local(c, Answering(x, i), "respond", g2, rc, an)
         /\ Answering(x, i).up = NoUp /\ Answering(x, i).n = x.n
         /\ Answering(x, i).phase = "Replying" /\ Answering(x, i).out = <<i>>
<1> SUFFICES ASSUME NEW y, y = Answering(x, i)
             PROVE  /\ Local(c, y, "respond", g2, rc, an)
               /\ y.up = NoUp /\ y.n = x.n /\ y.phase = "Replying" /\ y.out = <<i>>
  OBVIOUS
<1>1. /\ ClientShape(x) /\ IsSeq(x.out)
      /\ Mode(x.st, x.phase, x.up, x.n, x.streaming, x.ended, x.closeAfter, x.sunk, x.mute, "error")
      /\ Pipe(x.st, x.rbuf, x.sent, x.n, x.saved, x.phase, x.closeAfter, "error")
      /\ Awake(x.st, x.phase, x.up, x.rbuf, x.half, x.out, x.ended, x.paused, "error", g2)
      /\ Recorded(c, x.n, x.phase, x.mute, "error", rc)
      /\ Unanswered(c, x.n, x.phase, "error", an)
  BY DEF Local, ClientSound
<1>2. ClientShape(y)
  BY <1>1 DEF ClientShape, Answering, Phases, Bodies
<1>3. /\ y.st = x.st /\ y.rbuf = x.rbuf /\ y.sent = x.sent /\ y.half = x.half /\ y.n = x.n
      /\ y.phase = "Replying" /\ y.up = NoUp /\ y.saved = x.saved /\ y.out = <<i>>
      /\ y.closeAfter = TRUE
      /\ y.streaming = x.streaming /\ y.ended = x.ended /\ y.sunk = x.sunk /\ y.paused = x.paused
      /\ y.mute = x.mute
  BY <1>1 DEF ClientShape, Answering
<1>4. Mode(y.st, y.phase, y.up, y.n, y.streaming, y.ended, y.closeAfter, y.sunk, y.mute, "respond")
  BY <1>1, <1>3 DEF Mode
<1>5. Pipe(y.st, y.rbuf, y.sent, y.n, y.saved, y.phase, y.closeAfter, "respond")
  BY <1>1, <1>3 DEF Pipe, Mode
<1>6. Awake(y.st, y.phase, y.up, y.rbuf, y.half, y.out, y.ended, y.paused, "respond", g2)
  BY <1>1, <1>3 DEF Awake, Mode
<1>8. Recorded(c, y.n, y.phase, y.mute, "respond", rc)
  BY <1>1, <1>3 DEF Recorded, Mode
<1>9. Unanswered(c, y.n, y.phase, "respond", an)
  BY <1>1, <1>3 DEF Unanswered, Mode
<1>10. IsSeq(y.out)
  BY <1>1, <1>3, EmptyIs
<1> QED BY <1>2, <1>3, <1>4, <1>5, <1>6, <1>8, <1>9, <1>10 DEF Local, ClientSound

\* finish of what was owed before a reply.
SentAll(x) == [x EXCEPT !.out = <<>>]

LEMMA LocalSent ==
  ASSUME NEW c \in Client, NEW x, NEW rc, NEW an, NEW g2, Local(c, x, "respond", g2, rc, an),
         x.phase # "Replying"
  PROVE  /\ Local(c, SentAll(x), "none", g2, rc, an)
         /\ SentAll(x).up = x.up /\ SentAll(x).n = x.n /\ SentAll(x).phase = x.phase
         /\ SentAll(x).out = <<>>
<1> SUFFICES ASSUME NEW y, y = SentAll(x)
             PROVE  /\ Local(c, y, "none", g2, rc, an)
               /\ y.up = x.up /\ y.n = x.n /\ y.phase = x.phase /\ y.out = <<>>
  OBVIOUS
<1>1. /\ ClientShape(x) /\ IsSeq(x.out)
      /\ Mode(x.st, x.phase, x.up, x.n, x.streaming, x.ended, x.closeAfter, x.sunk, x.mute, "respond")
      /\ Pipe(x.st, x.rbuf, x.sent, x.n, x.saved, x.phase, x.closeAfter, "respond")
      /\ Awake(x.st, x.phase, x.up, x.rbuf, x.half, x.out, x.ended, x.paused, "respond", g2)
      /\ Recorded(c, x.n, x.phase, x.mute, "respond", rc)
      /\ Unanswered(c, x.n, x.phase, "respond", an)
  BY DEF Local, ClientSound
<1>2. ClientShape(y)
  BY <1>1 DEF ClientShape, SentAll, Phases, Bodies
<1>3. /\ y.st = x.st /\ y.rbuf = x.rbuf /\ y.sent = x.sent /\ y.half = x.half /\ y.n = x.n
      /\ y.phase = x.phase /\ y.up = x.up /\ y.saved = x.saved /\ y.out = <<>>
      /\ y.closeAfter = x.closeAfter
      /\ y.streaming = x.streaming /\ y.ended = x.ended /\ y.sunk = x.sunk /\ y.paused = x.paused
      /\ y.mute = x.mute
  BY <1>1 DEF ClientShape, SentAll
<1>4. Mode(y.st, y.phase, y.up, y.n, y.streaming, y.ended, y.closeAfter, y.sunk, y.mute, "none")
  BY <1>1, <1>3 DEF Mode
<1>5. Pipe(y.st, y.rbuf, y.sent, y.n, y.saved, y.phase, y.closeAfter, "none")
  BY <1>1, <1>3 DEF Pipe, Mode
<1>6. Awake(y.st, y.phase, y.up, y.rbuf, y.half, y.out, y.ended, y.paused, "none", g2)
  BY <1>1, <1>3 DEF Awake, Mode
<1>8. Recorded(c, y.n, y.phase, y.mute, "none", rc)
  BY <1>1, <1>3 DEF Recorded, Mode
<1>9. Unanswered(c, y.n, y.phase, "none", an)
  BY <1>1, <1>3 DEF Unanswered, Mode
<1>10. IsSeq(y.out)
  BY <1>1, <1>3, EmptyIs
<1> QED BY <1>2, <1>3, <1>4, <1>5, <1>6, <1>8, <1>9, <1>10 DEF Local, ClientSound

\* finish of a reply on a connection that is kept.
Nexts(x) == [x EXCEPT !.sunk = TRUE, !.out = <<>>, !.phase = "Idle"]

LEMMA LocalNext ==
  ASSUME NEW c \in Client, NEW x, NEW rc \in [Request -> Nat], NEW an,
         Local(c, x, "respond", TRUE, rc, an),
         x.phase = "Replying",
         ~x.closeAfter
  PROVE  /\ Local(c, Nexts(x), "frame", TRUE, Made(rc, c, x.n), an)
         /\ Made(rc, c, x.n) \in [Request -> Nat] /\ Keeps(Made(rc, c, x.n), rc, c)
         /\ Nexts(x).up = x.up /\ Nexts(x).n = x.n /\ Nexts(x).phase = "Idle" /\ Nexts(x).out = <<>>
<1> SUFFICES ASSUME NEW y, y = Nexts(x), NEW rc2, rc2 = Made(rc, c, x.n)
             PROVE  /\ Local(c, y, "frame", TRUE, rc2, an) /\ rc2 \in [Request -> Nat]
                    /\ Keeps(rc2, rc, c)
               /\ y.up = x.up /\ y.n = x.n /\ y.phase = "Idle" /\ y.out = <<>>
  OBVIOUS
<1>1. /\ ClientShape(x) /\ IsSeq(x.out)
      /\ Mode(x.st, x.phase, x.up, x.n, x.streaming, x.ended, x.closeAfter, x.sunk, x.mute, "respond")
      /\ Pipe(x.st, x.rbuf, x.sent, x.n, x.saved, x.phase, x.closeAfter, "respond")
      /\ Awake(x.st, x.phase, x.up, x.rbuf, x.half, x.out, x.ended, x.paused, "respond", TRUE)
      /\ Recorded(c, x.n, x.phase, x.mute, "respond", rc)
      /\ Unanswered(c, x.n, x.phase, "respond", an)
  BY DEF Local, ClientSound
<1>2. ClientShape(y)
  BY <1>1 DEF ClientShape, Nexts, Phases, Bodies
<1>3. /\ y.st = x.st /\ y.rbuf = x.rbuf /\ y.sent = x.sent /\ y.half = x.half /\ y.n = x.n
      /\ y.phase = "Idle" /\ y.up = x.up /\ y.saved = x.saved /\ y.out = <<>>
      /\ y.closeAfter = x.closeAfter
      /\ y.streaming = x.streaming /\ y.ended = x.ended /\ y.sunk = TRUE /\ y.paused = x.paused
      /\ y.mute = x.mute
  BY <1>1 DEF ClientShape, Nexts
<1>4. Mode(y.st, y.phase, y.up, y.n, y.streaming, y.ended, y.closeAfter, y.sunk, y.mute, "frame")
  BY <1>1, <1>3 DEF Mode
<1>5. Pipe(y.st, y.rbuf, y.sent, y.n, y.saved, y.phase, y.closeAfter, "frame")
  BY <1>1, <1>3 DEF Pipe, Mode
<1>6. Awake(y.st, y.phase, y.up, y.rbuf, y.half, y.out, y.ended, y.paused, "frame", TRUE)
  BY <1>1, <1>3 DEF Awake, Mode
<1>8. /\ rc2 \in [Request -> Nat] /\ Keeps(rc2, rc, c)
      /\ Recorded(c, y.n, y.phase, y.mute, "frame", rc2)
  <2>1. x.n \in 1..MaxReq /\ x.phase # "Idle"
    BY <1>1 DEF Mode, ClientShape
  <2>2. /\ rc2 \in [Request -> Nat] /\ Keeps(rc2, rc, c)
        /\ \A at2 : at2 \notin {"dispatch", "error"} => Recorded(c, x.n, "Idle", FALSE, at2, rc2)
    BY <2>1, <1>1, RecordMade
  <2>3. ~x.mute /\ x.mute \in BOOLEAN
    BY <1>1 DEF Mode, ClientShape
  <2> QED BY <2>2, <2>3, <1>3
<1>9. Unanswered(c, y.n, y.phase, "frame", an)
  BY <1>1, <1>3 DEF Unanswered, Mode
<1>10. IsSeq(y.out)
  BY <1>1, <1>3, EmptyIs
<1> QED BY <1>2, <1>3, <1>4, <1>5, <1>6, <1>8, <1>9, <1>10 DEF Local, ClientSound

\* respond wrote some.
SentSome(x, o) == [x EXCEPT !.out = o]

LEMMA LocalSome ==
  ASSUME NEW c \in Client, NEW x, NEW rc, NEW an, NEW g2, Local(c, x, "respond", g2, rc, an),
         x.out # <<>>,
         NEW o,
         IsSeq(o),
         o # <<>>
  PROVE  /\ Local(c, SentSome(x, o), "none", g2, rc, an)
         /\ SentSome(x, o).up = x.up /\ SentSome(x, o).n = x.n /\ SentSome(x, o).phase = x.phase
         /\ SentSome(x, o).out = o
<1> SUFFICES ASSUME NEW y, y = SentSome(x, o)
             PROVE  /\ Local(c, y, "none", g2, rc, an)
               /\ y.up = x.up /\ y.n = x.n /\ y.phase = x.phase /\ y.out = o
  OBVIOUS
<1>1. /\ ClientShape(x) /\ IsSeq(x.out)
      /\ Mode(x.st, x.phase, x.up, x.n, x.streaming, x.ended, x.closeAfter, x.sunk, x.mute, "respond")
      /\ Pipe(x.st, x.rbuf, x.sent, x.n, x.saved, x.phase, x.closeAfter, "respond")
      /\ Awake(x.st, x.phase, x.up, x.rbuf, x.half, x.out, x.ended, x.paused, "respond", g2)
      /\ Recorded(c, x.n, x.phase, x.mute, "respond", rc)
      /\ Unanswered(c, x.n, x.phase, "respond", an)
  BY DEF Local, ClientSound
<1>2. ClientShape(y)
  BY <1>1 DEF ClientShape, SentSome, Phases, Bodies
<1>3. /\ y.st = x.st /\ y.rbuf = x.rbuf /\ y.sent = x.sent /\ y.half = x.half /\ y.n = x.n
      /\ y.phase = x.phase /\ y.up = x.up /\ y.saved = x.saved /\ y.out = o
      /\ y.closeAfter = x.closeAfter
      /\ y.streaming = x.streaming /\ y.ended = x.ended /\ y.sunk = x.sunk /\ y.paused = x.paused
      /\ y.mute = x.mute
  BY <1>1 DEF ClientShape, SentSome
<1>4. Mode(y.st, y.phase, y.up, y.n, y.streaming, y.ended, y.closeAfter, y.sunk, y.mute, "none")
  BY <1>1, <1>3 DEF Mode
<1>5. Pipe(y.st, y.rbuf, y.sent, y.n, y.saved, y.phase, y.closeAfter, "none")
  BY <1>1, <1>3 DEF Pipe, Mode
<1>6. Awake(y.st, y.phase, y.up, y.rbuf, y.half, y.out, y.ended, y.paused, "none", g2)
  BY <1>1, <1>3 DEF Awake, Mode
<1>8. Recorded(c, y.n, y.phase, y.mute, "none", rc)
  BY <1>1, <1>3 DEF Recorded, Mode
<1>9. Unanswered(c, y.n, y.phase, "none", an)
  BY <1>1, <1>3 DEF Unanswered, Mode
<1>10. IsSeq(y.out)
  BY <1>1, <1>3, EmptyIs
<1> QED BY <1>2, <1>3, <1>4, <1>5, <1>6, <1>8, <1>9, <1>10 DEF Local, ClientSound

LEMMA UpToTail ==
  ASSUME NEW q, NEW s \in Nat, UpTo(q, s), q # <<>>
  PROVE  /\ UpTo(Tail(q), s) /\ Len(Tail(q)) = Len(q) - 1 /\ Head(q) = s - Len(q) + 1
         /\ Len(q) \in Nat \ {0} /\ Head(q) \in Nat
<1> DEFINE t == Tail(q)
<1>1. q \in Seq(Nat) /\ Len(q) \in Nat \ {0} /\ 1 \in 1..Len(q) /\ Head(q) = q[1] /\ Head(q) \in Nat
  BY DEF UpTo
<1>2. /\ t \in Seq(Nat) /\ Len(t) = Len(q) - 1
      /\ \A i \in 1..Len(t) : t[i] = q[i + 1] /\ i + 1 \in 1..Len(q)
  BY <1>1
<1> HIDE DEF t
<1>3. \A i \in 1..Len(t) : t[i] = s - Len(t) + i
  BY <1>1, <1>2 DEF UpTo
<1>4. Head(q) = s - Len(q) + 1
  BY <1>1 DEF UpTo
<1> QED BY <1>1, <1>2, <1>3, <1>4 DEF UpTo, t

LEMMA UpToAppend ==
  ASSUME NEW q, NEW s \in Nat, UpTo(q, s)
  PROVE  UpTo(Append(q, s + 1), s + 1) /\ Len(Append(q, s + 1)) = Len(q) + 1
<1> DEFINE t == Append(q, s + 1)
<1>1. q \in Seq(Nat) /\ Len(q) \in Nat /\ \A i \in 1..Len(q) : q[i] = s - Len(q) + i
  BY DEF UpTo
<1>2. /\ t \in Seq(Nat) /\ Len(t) = Len(q) + 1 /\ t[Len(q) + 1] = s + 1
      /\ \A i \in 1..Len(q) : t[i] = q[i]
  BY <1>1
<1> HIDE DEF t
<1>3. ASSUME NEW i \in 1..Len(t)
      PROVE  t[i] = (s + 1) - Len(t) + i
  <2>1. CASE i = Len(q) + 1
    BY <2>1, <1>1, <1>2
  <2>2. CASE i \in 1..Len(q)
    BY <2>2, <1>1, <1>2
  <2> QED BY <2>1, <2>2, <1>1, <1>2
<1> QED BY <1>2, <1>3 DEF UpTo, t

LEMMA UpToCons ==
  ASSUME NEW q, NEW s \in Nat, UpTo(q, s), NEW n \in Nat, n = s - Len(q)
  PROVE  UpTo(<<n>> \o q, s) /\ Len(<<n>> \o q) = Len(q) + 1
<1> DEFINE t == <<n>> \o q
<1>1. q \in Seq(Nat) /\ Len(q) \in Nat /\ \A i \in 1..Len(q) : q[i] = s - Len(q) + i
  BY DEF UpTo
<1>2. /\ t \in Seq(Nat) /\ Len(t) = Len(q) + 1 /\ t[1] = n
      /\ \A i \in 2..Len(t) : t[i] = q[i - 1] /\ i - 1 \in 1..Len(q)
  <2>1. <<n>> \in Seq(Nat) /\ Len(<<n>>) = 1 /\ <<n>>[1] = n
    OBVIOUS
  <2> QED BY <2>1, <1>1
<1> HIDE DEF t
<1>3. ASSUME NEW i \in 1..Len(t)
      PROVE  t[i] = s - Len(t) + i
  <2>1. CASE i = 1
    BY <2>1, <1>1, <1>2
  <2>2. CASE i \in 2..Len(t)
    BY <2>2, <1>1, <1>2
  <2> QED BY <2>1, <2>2, <1>1, <1>2
<1> QED BY <1>2, <1>3 DEF UpTo, t

\* stream_flush wrote some, or all of a stream that goes on.
Flushed(x, o, b) == [x EXCEPT !.out = o, !.terminated = b]

LEMMA LocalFlushed ==
  ASSUME NEW c \in Client, NEW x, NEW rc, NEW an, NEW g2, Local(c, x, "flush", g2, rc, an),
         NEW o,
         IsSeq(o),
         o # <<>> \/ ~x.ended,
         NEW b \in BOOLEAN
  PROVE  /\ Local(c, Flushed(x, o, b), "none", g2, rc, an)
         /\ Flushed(x, o, b).up = x.up /\ Flushed(x, o, b).n = x.n
         /\ Flushed(x, o, b).phase = x.phase /\ Flushed(x, o, b).out = o
<1> SUFFICES ASSUME NEW y, y = Flushed(x, o, b)
             PROVE  /\ Local(c, y, "none", g2, rc, an)
               /\ y.up = x.up /\ y.n = x.n /\ y.phase = x.phase /\ y.out = o
  OBVIOUS
<1>1. /\ ClientShape(x) /\ IsSeq(x.out)
      /\ Mode(x.st, x.phase, x.up, x.n, x.streaming, x.ended, x.closeAfter, x.sunk, x.mute, "flush")
      /\ Pipe(x.st, x.rbuf, x.sent, x.n, x.saved, x.phase, x.closeAfter, "flush")
      /\ Awake(x.st, x.phase, x.up, x.rbuf, x.half, x.out, x.ended, x.paused, "flush", g2)
      /\ Recorded(c, x.n, x.phase, x.mute, "flush", rc)
      /\ Unanswered(c, x.n, x.phase, "flush", an)
  BY DEF Local, ClientSound
<1>2. ClientShape(y)
  BY <1>1 DEF ClientShape, Flushed, Phases, Bodies
<1>3. /\ y.st = x.st /\ y.rbuf = x.rbuf /\ y.sent = x.sent /\ y.half = x.half /\ y.n = x.n
      /\ y.phase = x.phase /\ y.up = x.up /\ y.saved = x.saved /\ y.out = o
      /\ y.closeAfter = x.closeAfter
      /\ y.streaming = x.streaming /\ y.ended = x.ended /\ y.sunk = x.sunk /\ y.paused = x.paused
      /\ y.mute = x.mute
  BY <1>1 DEF ClientShape, Flushed
<1>4. Mode(y.st, y.phase, y.up, y.n, y.streaming, y.ended, y.closeAfter, y.sunk, y.mute, "none")
  BY <1>1, <1>3 DEF Mode
<1>5. Pipe(y.st, y.rbuf, y.sent, y.n, y.saved, y.phase, y.closeAfter, "none")
  BY <1>1, <1>3 DEF Pipe, Mode
<1>6. Awake(y.st, y.phase, y.up, y.rbuf, y.half, y.out, y.ended, y.paused, "none", g2)
  BY <1>1, <1>3 DEF Awake, Mode
<1>8. Recorded(c, y.n, y.phase, y.mute, "none", rc)
  BY <1>1, <1>3 DEF Recorded, Mode
<1>9. Unanswered(c, y.n, y.phase, "none", an)
  BY <1>1, <1>3 DEF Unanswered, Mode
<1>10. IsSeq(y.out)
  BY <1>1, <1>3, EmptyIs
<1> QED BY <1>2, <1>3, <1>4, <1>5, <1>6, <1>8, <1>9, <1>10 DEF Local, ClientSound

\* finalize_stream on a connection that is kept.
Finalised(x) == [x EXCEPT !.sunk = TRUE, !.up = NoUp, !.out = <<>>, !.phase = "Idle",
                          !.streaming = FALSE]

LEMMA LocalFinal ==
  ASSUME NEW c \in Client, NEW x, NEW rc \in [Request -> Nat], NEW an,
         Local(c, x, "flush", TRUE, rc, an),
         ~x.closeAfter
  PROVE  /\ Local(c, Finalised(x), "frame", TRUE, Made(rc, c, x.n), an)
         /\ Made(rc, c, x.n) \in [Request -> Nat] /\ Keeps(Made(rc, c, x.n), rc, c)
         /\ Finalised(x).up = NoUp /\ Finalised(x).n = x.n /\ Finalised(x).phase = "Idle"
         /\ Finalised(x).out = <<>>
<1> SUFFICES ASSUME NEW y, y = Finalised(x), NEW rc2, rc2 = Made(rc, c, x.n)
             PROVE  /\ Local(c, y, "frame", TRUE, rc2, an) /\ rc2 \in [Request -> Nat]
                    /\ Keeps(rc2, rc, c)
               /\ y.up = NoUp /\ y.n = x.n /\ y.phase = "Idle" /\ y.out = <<>>
  OBVIOUS
<1>1. /\ ClientShape(x) /\ IsSeq(x.out)
      /\ Mode(x.st, x.phase, x.up, x.n, x.streaming, x.ended, x.closeAfter, x.sunk, x.mute, "flush")
      /\ Pipe(x.st, x.rbuf, x.sent, x.n, x.saved, x.phase, x.closeAfter, "flush")
      /\ Awake(x.st, x.phase, x.up, x.rbuf, x.half, x.out, x.ended, x.paused, "flush", TRUE)
      /\ Recorded(c, x.n, x.phase, x.mute, "flush", rc)
      /\ Unanswered(c, x.n, x.phase, "flush", an)
  BY DEF Local, ClientSound
<1>2. ClientShape(y)
  BY <1>1 DEF ClientShape, Finalised, Phases, Bodies
<1>3. /\ y.st = x.st /\ y.rbuf = x.rbuf /\ y.sent = x.sent /\ y.half = x.half /\ y.n = x.n
      /\ y.phase = "Idle" /\ y.up = NoUp /\ y.saved = x.saved /\ y.out = <<>>
      /\ y.closeAfter = x.closeAfter
      /\ y.streaming = FALSE /\ y.ended = x.ended /\ y.sunk = TRUE /\ y.paused = x.paused
      /\ y.mute = x.mute
  BY <1>1 DEF ClientShape, Finalised
<1>4. Mode(y.st, y.phase, y.up, y.n, y.streaming, y.ended, y.closeAfter, y.sunk, y.mute, "frame")
  BY <1>1, <1>3 DEF Mode
<1>5. Pipe(y.st, y.rbuf, y.sent, y.n, y.saved, y.phase, y.closeAfter, "frame")
  BY <1>1, <1>3 DEF Pipe, Mode
<1>6. Awake(y.st, y.phase, y.up, y.rbuf, y.half, y.out, y.ended, y.paused, "frame", TRUE)
  BY <1>1, <1>3 DEF Awake, Mode
<1>8. /\ rc2 \in [Request -> Nat] /\ Keeps(rc2, rc, c)
      /\ Recorded(c, y.n, y.phase, y.mute, "frame", rc2)
  <2>1. x.n \in 1..MaxReq /\ x.phase # "Idle"
    BY <1>1 DEF Mode, ClientShape
  <2>2. /\ rc2 \in [Request -> Nat] /\ Keeps(rc2, rc, c)
        /\ \A at2 : at2 \notin {"dispatch", "error"} => Recorded(c, x.n, "Idle", FALSE, at2, rc2)
    BY <2>1, <1>1, RecordMade
  <2>3. ~x.mute /\ x.mute \in BOOLEAN
    BY <1>1 DEF Mode, ClientShape
  <2> QED BY <2>2, <2>3, <1>3
<1>9. Unanswered(c, y.n, y.phase, "frame", an)
  BY <1>1, <1>3 DEF Unanswered, Mode
<1>10. IsSeq(y.out)
  BY <1>1, <1>3, EmptyIs
<1> QED BY <1>2, <1>3, <1>4, <1>5, <1>6, <1>8, <1>9, <1>10 DEF Local, ClientSound

\* retry_upstream: the same request on another connection.
Moved(x, u) == [x EXCEPT !.up = u]

LEMMA LocalRetried ==
  ASSUME NEW c \in Client, NEW x, NEW rc, NEW an, NEW g2, Local(c, x, "none", g2, rc, an),
         x.up # NoUp,
         NEW u \in Up
  PROVE  /\ Local(c, Moved(x, u), "none", g2, rc, an)
         /\ Moved(x, u).up = u /\ Moved(x, u).n = x.n /\ Moved(x, u).phase = x.phase
         /\ Moved(x, u).out = x.out
<1> SUFFICES ASSUME NEW y, y = Moved(x, u)
             PROVE  /\ Local(c, y, "none", g2, rc, an)
               /\ y.up = u /\ y.n = x.n /\ y.phase = x.phase /\ y.out = x.out
  OBVIOUS
<1>1. /\ ClientShape(x) /\ IsSeq(x.out)
      /\ Mode(x.st, x.phase, x.up, x.n, x.streaming, x.ended, x.closeAfter, x.sunk, x.mute, "none")
      /\ Pipe(x.st, x.rbuf, x.sent, x.n, x.saved, x.phase, x.closeAfter, "none")
      /\ Awake(x.st, x.phase, x.up, x.rbuf, x.half, x.out, x.ended, x.paused, "none", g2)
      /\ Recorded(c, x.n, x.phase, x.mute, "none", rc)
      /\ Unanswered(c, x.n, x.phase, "none", an)
  BY DEF Local, ClientSound
<1>2. ClientShape(y)
  BY <1>1 DEF ClientShape, Moved, Phases, Bodies
<1>3. /\ y.st = x.st /\ y.rbuf = x.rbuf /\ y.sent = x.sent /\ y.half = x.half /\ y.n = x.n
      /\ y.phase = x.phase /\ y.up = u /\ y.saved = x.saved /\ y.out = x.out
      /\ y.closeAfter = x.closeAfter
      /\ y.streaming = x.streaming /\ y.ended = x.ended /\ y.sunk = x.sunk /\ y.paused = x.paused
      /\ y.mute = x.mute
  BY <1>1 DEF ClientShape, Moved
<1>4. Mode(y.st, y.phase, y.up, y.n, y.streaming, y.ended, y.closeAfter, y.sunk, y.mute, "none")
  BY <1>1, <1>3, NoUpOut DEF Mode
<1>5. Pipe(y.st, y.rbuf, y.sent, y.n, y.saved, y.phase, y.closeAfter, "none")
  BY <1>1, <1>3, NoUpOut DEF Pipe, Mode
<1>6. Awake(y.st, y.phase, y.up, y.rbuf, y.half, y.out, y.ended, y.paused, "none", g2)
  BY <1>1, <1>3, NoUpOut DEF Awake, Mode
<1>8. Recorded(c, y.n, y.phase, y.mute, "none", rc)
  BY <1>1, <1>3, NoUpOut DEF Recorded, Mode
<1>9. Unanswered(c, y.n, y.phase, "none", an)
  BY <1>1, <1>3, NoUpOut DEF Unanswered, Mode
<1>10. IsSeq(y.out)
  BY <1>1, <1>3, NoUpOut, EmptyIs
<1> QED BY <1>2, <1>3, <1>4, <1>5, <1>6, <1>8, <1>9, <1>10 DEF Local, ClientSound

\* A client whose upstream is lost, corrupt or silent is told.
LEMMA LocalTold ==
  ASSUME NEW c \in Client, NEW x, NEW rc, NEW an, NEW g2, Local(c, x, "none", g2, rc, an),
         x.up # NoUp,
         NEW op \in {"error", "failed"}
  PROVE  Local(c, x, op, g2, rc, an)
<1>1. /\ ClientShape(x) /\ IsSeq(x.out)
      /\ Mode(x.st, x.phase, x.up, x.n, x.streaming, x.ended, x.closeAfter, x.sunk, x.mute, "none")
      /\ Pipe(x.st, x.rbuf, x.sent, x.n, x.saved, x.phase, x.closeAfter, "none")
      /\ Awake(x.st, x.phase, x.up, x.rbuf, x.half, x.out, x.ended, x.paused, "none", g2)
      /\ Recorded(c, x.n, x.phase, x.mute, "none", rc)
      /\ Unanswered(c, x.n, x.phase, "none", an)
  BY DEF Local, ClientSound
<1>3. ClientShape(x)
  BY <1>1
<1>4. Mode(x.st, x.phase, x.up, x.n, x.streaming, x.ended, x.closeAfter, x.sunk, x.mute, op)
  BY <1>1, <1>3 DEF Mode
<1>5. Pipe(x.st, x.rbuf, x.sent, x.n, x.saved, x.phase, x.closeAfter, op)
  BY <1>1, <1>3 DEF Pipe, Mode
<1>6. Awake(x.st, x.phase, x.up, x.rbuf, x.half, x.out, x.ended, x.paused, op, g2)
  BY <1>1, <1>3 DEF Awake, Mode
<1>8. Recorded(c, x.n, x.phase, x.mute, op, rc)
  BY <1>1, <1>3 DEF Recorded, Mode
<1>9. Unanswered(c, x.n, x.phase, op, an)
  BY <1>1, <1>3 DEF Unanswered, Mode
<1>10. IsSeq(x.out)
  BY <1>1, <1>3, EmptyIs
<1> QED BY <1>3, <1>4, <1>5, <1>6, <1>8, <1>9, <1>10 DEF Local, ClientSound

\* Its upstream is closed first, and no byte of a response has come of it.
Unpairs(x) == [x EXCEPT !.up = NoUp]

LEMMA LocalUnpaired ==
  ASSUME NEW c \in Client, NEW x, NEW rc, NEW an, NEW g2, Local(c, x, "none", g2, rc, an),
         x.phase \in {"Dispatched", "Responding"},
         NEW op \in {"error", "failed"}
  PROVE  /\ Local(c, Unpairs(x), op, g2, rc, an)
         /\ Unpairs(x).up = NoUp /\ Unpairs(x).n = x.n /\ Unpairs(x).phase = x.phase
         /\ Unpairs(x).out = x.out
<1> SUFFICES ASSUME NEW y, y = Unpairs(x)
             PROVE  /\ Local(c, y, op, g2, rc, an)
               /\ y.up = NoUp /\ y.n = x.n /\ y.phase = x.phase /\ y.out = x.out
  OBVIOUS
<1>1. /\ ClientShape(x) /\ IsSeq(x.out)
      /\ Mode(x.st, x.phase, x.up, x.n, x.streaming, x.ended, x.closeAfter, x.sunk, x.mute, "none")
      /\ Pipe(x.st, x.rbuf, x.sent, x.n, x.saved, x.phase, x.closeAfter, "none")
      /\ Awake(x.st, x.phase, x.up, x.rbuf, x.half, x.out, x.ended, x.paused, "none", g2)
      /\ Recorded(c, x.n, x.phase, x.mute, "none", rc)
      /\ Unanswered(c, x.n, x.phase, "none", an)
  BY DEF Local, ClientSound
<1>2. ClientShape(y)
  BY <1>1 DEF ClientShape, Unpairs, Phases, Bodies
<1>3. /\ y.st = x.st /\ y.rbuf = x.rbuf /\ y.sent = x.sent /\ y.half = x.half /\ y.n = x.n
      /\ y.phase = x.phase /\ y.up = NoUp /\ y.saved = x.saved /\ y.out = x.out
      /\ y.closeAfter = x.closeAfter
      /\ y.streaming = x.streaming /\ y.ended = x.ended /\ y.sunk = x.sunk /\ y.paused = x.paused
      /\ y.mute = x.mute
  BY <1>1 DEF ClientShape, Unpairs
<1>4. Mode(y.st, y.phase, y.up, y.n, y.streaming, y.ended, y.closeAfter, y.sunk, y.mute, op)
  BY <1>1, <1>3 DEF Mode
<1>5. Pipe(y.st, y.rbuf, y.sent, y.n, y.saved, y.phase, y.closeAfter, op)
  BY <1>1, <1>3 DEF Pipe, Mode
<1>6. Awake(y.st, y.phase, y.up, y.rbuf, y.half, y.out, y.ended, y.paused, op, g2)
  BY <1>1, <1>3 DEF Awake, Mode
<1>8. Recorded(c, y.n, y.phase, y.mute, op, rc)
  BY <1>1, <1>3 DEF Recorded, Mode
<1>9. Unanswered(c, y.n, y.phase, op, an)
  BY <1>1, <1>3 DEF Unanswered, Mode
<1>10. IsSeq(y.out)
  BY <1>1, <1>3, EmptyIs
<1> QED BY <1>2, <1>3, <1>4, <1>5, <1>6, <1>8, <1>9, <1>10 DEF Local, ClientSound

\* fail_request with no venue to fail over to.
LEMMA LocalGivesUp ==
  ASSUME NEW c \in Client, NEW x, NEW rc, NEW an, NEW g2, Local(c, x, "failed", g2, rc, an)
  PROVE  Local(c, x, "error", g2, rc, an)
<1>1. /\ ClientShape(x) /\ IsSeq(x.out)
      /\ Mode(x.st, x.phase, x.up, x.n, x.streaming, x.ended, x.closeAfter, x.sunk, x.mute, "failed")
      /\ Pipe(x.st, x.rbuf, x.sent, x.n, x.saved, x.phase, x.closeAfter, "failed")
      /\ Awake(x.st, x.phase, x.up, x.rbuf, x.half, x.out, x.ended, x.paused, "failed", g2)
      /\ Recorded(c, x.n, x.phase, x.mute, "failed", rc)
      /\ Unanswered(c, x.n, x.phase, "failed", an)
  BY DEF Local, ClientSound
<1>3. ClientShape(x)
  BY <1>1
<1>4. Mode(x.st, x.phase, x.up, x.n, x.streaming, x.ended, x.closeAfter, x.sunk, x.mute, "error")
  BY <1>1, <1>3 DEF Mode
<1>5. Pipe(x.st, x.rbuf, x.sent, x.n, x.saved, x.phase, x.closeAfter, "error")
  BY <1>1, <1>3 DEF Pipe, Mode
<1>6. Awake(x.st, x.phase, x.up, x.rbuf, x.half, x.out, x.ended, x.paused, "error", g2)
  BY <1>1, <1>3 DEF Awake, Mode
<1>8. Recorded(c, x.n, x.phase, x.mute, "error", rc)
  BY <1>1, <1>3 DEF Recorded, Mode
<1>9. Unanswered(c, x.n, x.phase, "error", an)
  BY <1>1, <1>3 DEF Unanswered, Mode
<1>10. IsSeq(x.out)
  BY <1>1, <1>3, EmptyIs
<1> QED BY <1>3, <1>4, <1>5, <1>6, <1>8, <1>9, <1>10 DEF Local, ClientSound

\* on_response: the message is the client's.
Replies(x, o) == [x EXCEPT !.up = NoUp, !.phase = "Replying", !.out = o]

LEMMA LocalReplies ==
  ASSUME NEW c \in Client, NEW x, NEW rc, NEW an, NEW g2, Local(c, x, "none", g2, rc, an),
         x.up # NoUp,
         ~x.streaming,
         NEW o,
         IsSeq(o),
         o # <<>>
  PROVE  /\ Local(c, Replies(x, o), "respond", g2, rc, an)
         /\ Replies(x, o).up = NoUp /\ Replies(x, o).n = x.n /\ Replies(x, o).phase = "Replying"
         /\ Replies(x, o).out = o
<1> SUFFICES ASSUME NEW y, y = Replies(x, o)
             PROVE  /\ Local(c, y, "respond", g2, rc, an)
               /\ y.up = NoUp /\ y.n = x.n /\ y.phase = "Replying" /\ y.out = o
  OBVIOUS
<1>1. /\ ClientShape(x) /\ IsSeq(x.out)
      /\ Mode(x.st, x.phase, x.up, x.n, x.streaming, x.ended, x.closeAfter, x.sunk, x.mute, "none")
      /\ Pipe(x.st, x.rbuf, x.sent, x.n, x.saved, x.phase, x.closeAfter, "none")
      /\ Awake(x.st, x.phase, x.up, x.rbuf, x.half, x.out, x.ended, x.paused, "none", g2)
      /\ Recorded(c, x.n, x.phase, x.mute, "none", rc)
      /\ Unanswered(c, x.n, x.phase, "none", an)
  BY DEF Local, ClientSound
<1>2. ClientShape(y)
  BY <1>1 DEF ClientShape, Replies, Phases, Bodies
<1>3. /\ y.st = x.st /\ y.rbuf = x.rbuf /\ y.sent = x.sent /\ y.half = x.half /\ y.n = x.n
      /\ y.phase = "Replying" /\ y.up = NoUp /\ y.saved = x.saved /\ y.out = o
      /\ y.closeAfter = x.closeAfter
      /\ y.streaming = x.streaming /\ y.ended = x.ended /\ y.sunk = x.sunk /\ y.paused = x.paused
      /\ y.mute = x.mute
  BY <1>1 DEF ClientShape, Replies
<1>4. Mode(y.st, y.phase, y.up, y.n, y.streaming, y.ended, y.closeAfter, y.sunk, y.mute, "respond")
  BY <1>1, <1>3 DEF Mode
<1>5. Pipe(y.st, y.rbuf, y.sent, y.n, y.saved, y.phase, y.closeAfter, "respond")
  BY <1>1, <1>3 DEF Pipe, Mode
<1>6. Awake(y.st, y.phase, y.up, y.rbuf, y.half, y.out, y.ended, y.paused, "respond", g2)
  BY <1>1, <1>3 DEF Awake, Mode
<1>8. Recorded(c, y.n, y.phase, y.mute, "respond", rc)
  BY <1>1, <1>3 DEF Recorded, Mode
<1>9. Unanswered(c, y.n, y.phase, "respond", an)
  BY <1>1, <1>3 DEF Unanswered, Mode
<1>10. IsSeq(y.out)
  BY <1>1, <1>3, EmptyIs
<1> QED BY <1>2, <1>3, <1>4, <1>5, <1>6, <1>8, <1>9, <1>10 DEF Local, ClientSound

\* begin_stream.
Begun(x, k, b, d, o) == [x EXCEPT !.streaming = TRUE, !.phase = "Streaming", !.body = k,
                                  !.keepUp = b, !.chunkedOut = d, !.out = o]

LEMMA LocalBegins ==
  ASSUME NEW c \in Client, NEW x, NEW rc, NEW an, NEW g2, Local(c, x, "none", g2, rc, an),
         x.up # NoUp,
         NEW k \in Bodies,
         NEW b \in BOOLEAN,
         NEW d \in BOOLEAN,
         NEW o,
         IsSeq(o),
         o # <<>>
  PROVE  /\ Local(c, Begun(x, k, b, d, o), "none", g2, rc, an)
         /\ Begun(x, k, b, d, o).up = x.up /\ Begun(x, k, b, d, o).n = x.n
         /\ Begun(x, k, b, d, o).phase = "Streaming" /\ Begun(x, k, b, d, o).out = o
<1> SUFFICES ASSUME NEW y, y = Begun(x, k, b, d, o)
             PROVE  /\ Local(c, y, "none", g2, rc, an)
               /\ y.up = x.up /\ y.n = x.n /\ y.phase = "Streaming" /\ y.out = o
  OBVIOUS
<1>1. /\ ClientShape(x) /\ IsSeq(x.out)
      /\ Mode(x.st, x.phase, x.up, x.n, x.streaming, x.ended, x.closeAfter, x.sunk, x.mute, "none")
      /\ Pipe(x.st, x.rbuf, x.sent, x.n, x.saved, x.phase, x.closeAfter, "none")
      /\ Awake(x.st, x.phase, x.up, x.rbuf, x.half, x.out, x.ended, x.paused, "none", g2)
      /\ Recorded(c, x.n, x.phase, x.mute, "none", rc)
      /\ Unanswered(c, x.n, x.phase, "none", an)
  BY DEF Local, ClientSound
<1>2. ClientShape(y)
  <2>1. y = [st |-> x.st, rbuf |-> x.rbuf, sent |-> x.sent, half |-> x.half,
             told |-> x.told, n |-> x.n, phase |-> "Streaming", up |-> x.up,
             slot |-> x.slot, saved |-> x.saved, attempts |-> x.attempts, out |-> o,
             msg |-> x.msg, closeAfter |-> x.closeAfter, streaming |-> TRUE,
             ended |-> x.ended, terminated |-> x.terminated, body |-> k, chunkedOut |-> d,
             keepUp |-> b, bodyDone |-> x.bodyDone, bad |-> x.bad, said |-> x.said,
             sunk |-> x.sunk, framed |-> x.framed, paused |-> x.paused, mute |-> x.mute]
    BY <1>1 DEF ClientShape, Begun
  <2>2. Formed(y)
    BY <2>1 DEF Formed
  <2>3. Typed(x)
    BY <1>1, ShapeTyped
  <2>4. Typed(y)
    BY <2>1, <2>3 DEF Typed, Phases
  <2> QED BY <2>2, <2>4, TypedShape
<1>3. /\ y.st = x.st /\ y.rbuf = x.rbuf /\ y.sent = x.sent /\ y.half = x.half /\ y.n = x.n
      /\ y.phase = "Streaming" /\ y.up = x.up /\ y.saved = x.saved /\ y.out = o
      /\ y.closeAfter = x.closeAfter
      /\ y.streaming = TRUE /\ y.ended = x.ended /\ y.sunk = x.sunk /\ y.paused = x.paused
      /\ y.mute = x.mute
  BY <1>1 DEF ClientShape, Begun
<1>4. Mode(y.st, y.phase, y.up, y.n, y.streaming, y.ended, y.closeAfter, y.sunk, y.mute, "none")
  BY <1>1, <1>3 DEF Mode
<1>5. Pipe(y.st, y.rbuf, y.sent, y.n, y.saved, y.phase, y.closeAfter, "none")
  BY <1>1, <1>3 DEF Pipe, Mode
<1>6. Awake(y.st, y.phase, y.up, y.rbuf, y.half, y.out, y.ended, y.paused, "none", g2)
  BY <1>1, <1>3 DEF Awake, Mode
<1>8. Recorded(c, y.n, y.phase, y.mute, "none", rc)
  BY <1>1, <1>3 DEF Recorded, Mode
<1>9. Unanswered(c, y.n, y.phase, "none", an)
  BY <1>1, <1>3 DEF Unanswered, Mode
<1>10. IsSeq(y.out)
  BY <1>1, <1>3, EmptyIs
<1> QED BY <1>2, <1>3, <1>4, <1>5, <1>6, <1>8, <1>9, <1>10 DEF Local, ClientSound

\* on_client_writable.
LEMMA LocalWrites ==
  ASSUME NEW c \in Client, NEW x, NEW rc, NEW an, NEW g2, Local(c, x, "none", g2, rc, an),
         x.out # <<>>,
         NEW op,
         op = IF x.streaming THEN "flush" ELSE "respond",
         x.st = "open"
  PROVE  Local(c, x, op, g2, rc, an)
<1>1. /\ ClientShape(x) /\ IsSeq(x.out)
      /\ Mode(x.st, x.phase, x.up, x.n, x.streaming, x.ended, x.closeAfter, x.sunk, x.mute, "none")
      /\ Pipe(x.st, x.rbuf, x.sent, x.n, x.saved, x.phase, x.closeAfter, "none")
      /\ Awake(x.st, x.phase, x.up, x.rbuf, x.half, x.out, x.ended, x.paused, "none", g2)
      /\ Recorded(c, x.n, x.phase, x.mute, "none", rc)
      /\ Unanswered(c, x.n, x.phase, "none", an)
  BY DEF Local, ClientSound
<1>3. ClientShape(x)
  BY <1>1
<1>4. Mode(x.st, x.phase, x.up, x.n, x.streaming, x.ended, x.closeAfter, x.sunk, x.mute, op)
  BY <1>1, <1>3 DEF Mode
<1>5. Pipe(x.st, x.rbuf, x.sent, x.n, x.saved, x.phase, x.closeAfter, op)
  BY <1>1, <1>3 DEF Pipe, Mode
<1>6. Awake(x.st, x.phase, x.up, x.rbuf, x.half, x.out, x.ended, x.paused, op, g2)
  BY <1>1, <1>3 DEF Awake, Mode
<1>8. Recorded(c, x.n, x.phase, x.mute, op, rc)
  BY <1>1, <1>3 DEF Recorded, Mode
<1>9. Unanswered(c, x.n, x.phase, op, an)
  BY <1>1, <1>3 DEF Unanswered, Mode
<1>10. IsSeq(x.out)
  BY <1>1, <1>3, EmptyIs
<1> QED BY <1>3, <1>4, <1>5, <1>6, <1>8, <1>9, <1>10 DEF Local, ClientSound

\* open_request: the next request is in hand, refused or to be dispatched.
Opened(x, version, v) == [x EXCEPT !.n = Head(x.rbuf), !.told = FALSE, !.msg = version,
                                   !.saved = 0, !.attempts = 0, !.streaming = FALSE,
                                   !.ended = FALSE, !.terminated = FALSE, !.bodyDone = FALSE,
                                   !.bad = FALSE, !.said = FALSE, !.sunk = FALSE, !.slot = v]

LEMMA LocalOpens ==
  ASSUME NEW c \in Client, NEW x, NEW rc, NEW an, NEW g2, Local(c, x, "frame", g2, rc, an),
         x.phase = "Idle",
         x.rbuf # <<>>,
         NEW op \in {"error", "dispatch"},
         NEW version,
         NEW v \in Venue
  PROVE  /\ Local(c, Opened(x, version, v), op, g2, rc, an)
         /\ Opened(x, version, v).up = x.up /\ Opened(x, version, v).n = x.n + 1
         /\ Opened(x, version, v).phase = x.phase /\ Opened(x, version, v).out = x.out
<1> SUFFICES ASSUME NEW y, y = Opened(x, version, v)
             PROVE  /\ Local(c, y, op, g2, rc, an)
               /\ y.up = x.up /\ y.n = x.n + 1 /\ y.phase = x.phase /\ y.out = x.out
  OBVIOUS
<1>1. /\ ClientShape(x) /\ IsSeq(x.out)
      /\ Mode(x.st, x.phase, x.up, x.n, x.streaming, x.ended, x.closeAfter, x.sunk, x.mute, "frame")
      /\ Pipe(x.st, x.rbuf, x.sent, x.n, x.saved, x.phase, x.closeAfter, "frame")
      /\ Awake(x.st, x.phase, x.up, x.rbuf, x.half, x.out, x.ended, x.paused, "frame", g2)
      /\ Recorded(c, x.n, x.phase, x.mute, "frame", rc)
      /\ Unanswered(c, x.n, x.phase, "frame", an)
  BY DEF Local, ClientSound
<1>a. UpTo(x.rbuf, x.sent) /\ x.sent \in Nat /\ x.n \in Nat /\ x.st = "open"
  BY <1>1 DEF Pipe, Mode, ClientShape, UpTo
<1>b. Head(x.rbuf) = x.sent - Len(x.rbuf) + 1 /\ Len(x.rbuf) \in Nat \ {0}
  BY <1>a, UpToTail
<1>c. Len(x.rbuf) = x.sent - x.n
  BY <1>1 DEF Pipe, Mode
<1>x. x.sent \in 0..MaxReq /\ x.n \in 0..MaxReq /\ MaxReq \in Nat /\ MaxAttempts \in Nat \ {0}
  BY <1>1, LifecycleConstants DEF ClientShape, Opened
<1>d. /\ Head(x.rbuf) = x.n + 1 /\ x.n + 1 <= x.sent /\ x.n + 1 \in 0..MaxReq /\ x.n + 1 >= 1
      /\ 0 \in 0..MaxReq /\ 0 \in 0..(MaxAttempts - 1)
  BY <1>a, <1>b, <1>c, <1>x
<1>2. ClientShape(y)
  <2>1. y = [st |-> x.st, rbuf |-> x.rbuf, sent |-> x.sent, half |-> x.half, told |-> FALSE,
             n |-> x.n + 1, phase |-> x.phase, up |-> x.up, slot |-> v, saved |-> 0,
             attempts |-> 0, out |-> x.out, msg |-> version, closeAfter |-> x.closeAfter,
             streaming |-> FALSE, ended |-> FALSE, terminated |-> FALSE, body |-> x.body,
             chunkedOut |-> x.chunkedOut, keepUp |-> x.keepUp, bodyDone |-> FALSE,
             bad |-> FALSE, said |-> FALSE, sunk |-> FALSE, framed |-> x.framed,
             paused |-> x.paused, mute |-> x.mute]
    BY <1>1, <1>a, <1>d DEF ClientShape, Opened
  <2>2. Formed(y)
    BY <2>1 DEF Formed
  <2>3. Typed(x)
    BY <1>1, ShapeTyped
  <2>4. Typed(y)
    BY <2>1, <2>3, <1>a, <1>d DEF Typed, Phases
  <2> QED BY <2>2, <2>4, TypedShape
<1>3. /\ y.st = x.st /\ y.rbuf = x.rbuf /\ y.sent = x.sent /\ y.half = x.half /\ y.n = x.n + 1
      /\ y.phase = x.phase /\ y.up = x.up /\ y.saved = 0 /\ y.out = x.out
      /\ y.closeAfter = x.closeAfter
      /\ y.streaming = FALSE /\ y.ended = FALSE /\ y.sunk = FALSE /\ y.paused = x.paused
      /\ y.mute = x.mute
  BY <1>1, <1>a, <1>d DEF ClientShape, Opened
<1>4. Mode(y.st, y.phase, y.up, y.n, y.streaming, y.ended, y.closeAfter, y.sunk, y.mute, op)
  BY <1>1, <1>3, <1>a, <1>c, <1>d DEF Mode
<1>5. Pipe(y.st, y.rbuf, y.sent, y.n, y.saved, y.phase, y.closeAfter, op)
  BY <1>1, <1>3, <1>a, <1>c, <1>d DEF Pipe, Mode
<1>6. Awake(y.st, y.phase, y.up, y.rbuf, y.half, y.out, y.ended, y.paused, op, g2)
  BY <1>1, <1>3, <1>a, <1>c, <1>d DEF Awake, Mode
<1>8. Recorded(c, y.n, y.phase, y.mute, op, rc)
  BY <1>1, <1>3, <1>a, <1>c, <1>d DEF Recorded, Mode
<1>9. Unanswered(c, y.n, y.phase, op, an)
  BY <1>1, <1>3, <1>a, <1>c, <1>d DEF Unanswered, Mode
<1>10. IsSeq(y.out)
  BY <1>1, <1>3, <1>a, <1>c, <1>d, EmptyIs
<1> QED BY <1>2, <1>3, <1>4, <1>5, <1>6, <1>8, <1>9, <1>10 DEF Local, ClientSound

\* dispatch without a connection to be had, through this host's fault.
NotConnected(x, r) == [x EXCEPT !.phase = "Dispatched", !.rbuf = r]

LEMMA LocalNoConn ==
  ASSUME NEW c \in Client, NEW x, NEW rc, NEW an, NEW g2, Local(c, x, "dispatch", g2, rc, an),
         NEW r,
         r \in {x.rbuf, Tail(x.rbuf)}
  PROVE  /\ Local(c, NotConnected(x, r), "error", g2, rc, an)
         /\ NotConnected(x, r).up = x.up /\ NotConnected(x, r).n = x.n
         /\ NotConnected(x, r).phase = "Dispatched" /\ NotConnected(x, r).out = x.out
<1> SUFFICES ASSUME NEW y, y = NotConnected(x, r)
             PROVE  /\ Local(c, y, "error", g2, rc, an)
               /\ y.up = x.up /\ y.n = x.n /\ y.phase = "Dispatched" /\ y.out = x.out
  OBVIOUS
<1>1. /\ ClientShape(x) /\ IsSeq(x.out)
      /\ Mode(x.st, x.phase, x.up, x.n, x.streaming, x.ended, x.closeAfter, x.sunk, x.mute, "dispatch")
      /\ Pipe(x.st, x.rbuf, x.sent, x.n, x.saved, x.phase, x.closeAfter, "dispatch")
      /\ Awake(x.st, x.phase, x.up, x.rbuf, x.half, x.out, x.ended, x.paused, "dispatch", g2)
      /\ Recorded(c, x.n, x.phase, x.mute, "dispatch", rc)
      /\ Unanswered(c, x.n, x.phase, "dispatch", an)
  BY DEF Local, ClientSound
<1>a. UpTo(x.rbuf, x.sent) /\ x.sent \in Nat /\ x.n \in Nat /\ x.st = "open"
  BY <1>1 DEF Pipe, Mode, ClientShape, UpTo
<1>b. Len(x.rbuf) = x.sent - x.n + 1 /\ x.rbuf # <<>>
  BY <1>1, <1>a DEF Pipe, ClientShape
<1>c. /\ UpTo(Tail(x.rbuf), x.sent) /\ Len(Tail(x.rbuf)) = Len(x.rbuf) - 1
      /\ Head(x.rbuf) = x.sent - Len(x.rbuf) + 1 /\ Len(x.rbuf) \in Nat
  BY <1>a, <1>b, UpToTail
<1>x. Head(x.rbuf) = x.n /\ Len(Tail(x.rbuf)) = x.sent - x.n
  BY <1>a, <1>b, <1>c
<1>d. r \in Seq(Nat) /\ UpTo(r, x.sent) /\ Len(r) \in {x.sent - x.n, x.sent - x.n + 1}
  BY <1>a, <1>b, <1>c, <1>x DEF UpTo
<1>2. ClientShape(y)
  BY <1>1, <1>d DEF ClientShape, NotConnected, Phases, Bodies
<1>3. /\ y.st = x.st /\ y.rbuf = r /\ y.sent = x.sent /\ y.half = x.half /\ y.n = x.n
      /\ y.phase = "Dispatched" /\ y.up = x.up /\ y.saved = x.saved /\ y.out = x.out
      /\ y.closeAfter = x.closeAfter
      /\ y.streaming = x.streaming /\ y.ended = x.ended /\ y.sunk = x.sunk /\ y.paused = x.paused
      /\ y.mute = x.mute
  BY <1>1, <1>d DEF ClientShape, NotConnected
<1>4. Mode(y.st, y.phase, y.up, y.n, y.streaming, y.ended, y.closeAfter, y.sunk, y.mute, "error")
  BY <1>1, <1>3, <1>a, <1>d DEF Mode
<1>5. Pipe(y.st, y.rbuf, y.sent, y.n, y.saved, y.phase, y.closeAfter, "error")
  BY <1>1, <1>3, <1>a, <1>d DEF Pipe, Mode
<1>6. Awake(y.st, y.phase, y.up, y.rbuf, y.half, y.out, y.ended, y.paused, "error", g2)
  BY <1>1, <1>3, <1>a, <1>d DEF Awake, Mode
<1>8. Recorded(c, y.n, y.phase, y.mute, "error", rc)
  BY <1>1, <1>3, <1>a, <1>d DEF Recorded, Mode
<1>9. Unanswered(c, y.n, y.phase, "error", an)
  BY <1>1, <1>3, <1>a, <1>d DEF Unanswered, Mode
<1>10. IsSeq(y.out)
  BY <1>1, <1>3, <1>a, <1>d, EmptyIs
<1> QED BY <1>2, <1>3, <1>4, <1>5, <1>6, <1>8, <1>9, <1>10 DEF Local, ClientSound

\* take_request, and the venue cannot be reached.
Taken(x, s) == [x EXCEPT !.rbuf = Tail(x.rbuf), !.saved = s, !.phase = "Dispatched"]

LEMMA LocalTaken ==
  ASSUME NEW c \in Client, NEW x, NEW rc, NEW an, NEW g2, Local(c, x, "dispatch", g2, rc, an),
         NEW s,
         s \in {x.saved, Head(x.rbuf)}
  PROVE  /\ Local(c, Taken(x, s), "failed", g2, rc, an)
         /\ Taken(x, s).up = x.up /\ Taken(x, s).n = x.n /\ Taken(x, s).phase = "Dispatched"
         /\ Taken(x, s).out = x.out
<1> SUFFICES ASSUME NEW y, y = Taken(x, s)
             PROVE  /\ Local(c, y, "failed", g2, rc, an)
               /\ y.up = x.up /\ y.n = x.n /\ y.phase = "Dispatched" /\ y.out = x.out
  OBVIOUS
<1>1. /\ ClientShape(x) /\ IsSeq(x.out)
      /\ Mode(x.st, x.phase, x.up, x.n, x.streaming, x.ended, x.closeAfter, x.sunk, x.mute, "dispatch")
      /\ Pipe(x.st, x.rbuf, x.sent, x.n, x.saved, x.phase, x.closeAfter, "dispatch")
      /\ Awake(x.st, x.phase, x.up, x.rbuf, x.half, x.out, x.ended, x.paused, "dispatch", g2)
      /\ Recorded(c, x.n, x.phase, x.mute, "dispatch", rc)
      /\ Unanswered(c, x.n, x.phase, "dispatch", an)
  BY DEF Local, ClientSound
<1>a. UpTo(x.rbuf, x.sent) /\ x.sent \in Nat /\ x.n \in Nat /\ x.st = "open"
  BY <1>1 DEF Pipe, Mode, ClientShape, UpTo
<1>b. Len(x.rbuf) = x.sent - x.n + 1 /\ x.rbuf # <<>>
  BY <1>1, <1>a DEF Pipe, ClientShape
<1>c. /\ UpTo(Tail(x.rbuf), x.sent) /\ Len(Tail(x.rbuf)) = Len(x.rbuf) - 1
      /\ Head(x.rbuf) = x.sent - Len(x.rbuf) + 1 /\ Len(x.rbuf) \in Nat
  BY <1>a, <1>b, UpToTail
<1>x. Head(x.rbuf) = x.n /\ Len(Tail(x.rbuf)) = x.sent - x.n
  BY <1>a, <1>b, <1>c
<1>d. x.saved \in {0, x.n} /\ s \in {0, x.n} /\ s \in 0..MaxReq
  BY <1>1, <1>x DEF Pipe, ClientShape
<1>e. Tail(x.rbuf) \in Seq(Nat) /\ UpTo(Tail(x.rbuf), x.sent) /\ Len(Tail(x.rbuf)) = x.sent - x.n
  BY <1>a, <1>b, <1>c, <1>x DEF UpTo
<1>2. ClientShape(y)
  BY <1>1, <1>d, <1>e DEF ClientShape, Taken, Phases, Bodies
<1>3. /\ y.st = x.st /\ y.rbuf = Tail(x.rbuf) /\ y.sent = x.sent /\ y.half = x.half /\ y.n = x.n
      /\ y.phase = "Dispatched" /\ y.up = x.up /\ y.saved = s /\ y.out = x.out
      /\ y.closeAfter = x.closeAfter
      /\ y.streaming = x.streaming /\ y.ended = x.ended /\ y.sunk = x.sunk /\ y.paused = x.paused
      /\ y.mute = x.mute
  BY <1>1, <1>d, <1>e DEF ClientShape, Taken
<1>4. Mode(y.st, y.phase, y.up, y.n, y.streaming, y.ended, y.closeAfter, y.sunk, y.mute, "failed")
  BY <1>1, <1>3, <1>a, <1>d, <1>e DEF Mode
<1>5. Pipe(y.st, y.rbuf, y.sent, y.n, y.saved, y.phase, y.closeAfter, "failed")
  BY <1>1, <1>3, <1>a, <1>d, <1>e DEF Pipe, Mode
<1>6. Awake(y.st, y.phase, y.up, y.rbuf, y.half, y.out, y.ended, y.paused, "failed", g2)
  BY <1>1, <1>3, <1>a, <1>d, <1>e DEF Awake, Mode
<1>8. Recorded(c, y.n, y.phase, y.mute, "failed", rc)
  BY <1>1, <1>3, <1>a, <1>d, <1>e DEF Recorded, Mode
<1>9. Unanswered(c, y.n, y.phase, "failed", an)
  BY <1>1, <1>3, <1>a, <1>d, <1>e DEF Unanswered, Mode
<1>10. IsSeq(y.out)
  BY <1>1, <1>3, <1>a, <1>d, <1>e, EmptyIs
<1> QED BY <1>2, <1>3, <1>4, <1>5, <1>6, <1>8, <1>9, <1>10 DEF Local, ClientSound

\* take_request, with a connection for it.
SentOff(x, s, u) == [x EXCEPT !.rbuf = Tail(x.rbuf), !.saved = s, !.phase = "Dispatched", !.up = u,
                              !.framed = TRUE]

LEMMA LocalDispatched ==
  ASSUME NEW c \in Client, NEW x, NEW rc, NEW an, NEW g2, Local(c, x, "dispatch", g2, rc, an),
         NEW s,
         s \in {x.saved, Head(x.rbuf)},
         NEW u \in Up
  PROVE  /\ Local(c, SentOff(x, s, u), "none", g2, rc, an)
         /\ SentOff(x, s, u).up = u /\ SentOff(x, s, u).n = x.n
         /\ SentOff(x, s, u).phase = "Dispatched" /\ SentOff(x, s, u).out = x.out
<1> SUFFICES ASSUME NEW y, y = SentOff(x, s, u)
             PROVE  /\ Local(c, y, "none", g2, rc, an)
               /\ y.up = u /\ y.n = x.n /\ y.phase = "Dispatched" /\ y.out = x.out
  OBVIOUS
<1>1. /\ ClientShape(x) /\ IsSeq(x.out)
      /\ Mode(x.st, x.phase, x.up, x.n, x.streaming, x.ended, x.closeAfter, x.sunk, x.mute, "dispatch")
      /\ Pipe(x.st, x.rbuf, x.sent, x.n, x.saved, x.phase, x.closeAfter, "dispatch")
      /\ Awake(x.st, x.phase, x.up, x.rbuf, x.half, x.out, x.ended, x.paused, "dispatch", g2)
      /\ Recorded(c, x.n, x.phase, x.mute, "dispatch", rc)
      /\ Unanswered(c, x.n, x.phase, "dispatch", an)
  BY DEF Local, ClientSound
<1>a. UpTo(x.rbuf, x.sent) /\ x.sent \in Nat /\ x.n \in Nat /\ x.st = "open"
  BY <1>1 DEF Pipe, Mode, ClientShape, UpTo
<1>b. Len(x.rbuf) = x.sent - x.n + 1 /\ x.rbuf # <<>>
  BY <1>1, <1>a DEF Pipe, ClientShape
<1>c. /\ UpTo(Tail(x.rbuf), x.sent) /\ Len(Tail(x.rbuf)) = Len(x.rbuf) - 1
      /\ Head(x.rbuf) = x.sent - Len(x.rbuf) + 1 /\ Len(x.rbuf) \in Nat
  BY <1>a, <1>b, UpToTail
<1>x. Head(x.rbuf) = x.n /\ Len(Tail(x.rbuf)) = x.sent - x.n
  BY <1>a, <1>b, <1>c
<1>d. x.saved \in {0, x.n} /\ s \in {0, x.n} /\ s \in 0..MaxReq
  BY <1>1, <1>x DEF Pipe, ClientShape
<1>e. Tail(x.rbuf) \in Seq(Nat) /\ UpTo(Tail(x.rbuf), x.sent) /\ Len(Tail(x.rbuf)) = x.sent - x.n
  BY <1>a, <1>b, <1>c, <1>x DEF UpTo
<1>2. ClientShape(y)
  BY <1>1, <1>d, <1>e DEF ClientShape, SentOff, Phases, Bodies
<1>3. /\ y.st = x.st /\ y.rbuf = Tail(x.rbuf) /\ y.sent = x.sent /\ y.half = x.half /\ y.n = x.n
      /\ y.phase = "Dispatched" /\ y.up = u /\ y.saved = s /\ y.out = x.out
      /\ y.closeAfter = x.closeAfter
      /\ y.streaming = x.streaming /\ y.ended = x.ended /\ y.sunk = x.sunk /\ y.paused = x.paused
      /\ y.mute = x.mute
  BY <1>1, <1>d, <1>e DEF ClientShape, SentOff
<1>4. Mode(y.st, y.phase, y.up, y.n, y.streaming, y.ended, y.closeAfter, y.sunk, y.mute, "none")
  BY <1>1, <1>3, <1>a, <1>d, <1>e, NoUpOut DEF Mode
<1>5. Pipe(y.st, y.rbuf, y.sent, y.n, y.saved, y.phase, y.closeAfter, "none")
  BY <1>1, <1>3, <1>a, <1>d, <1>e, NoUpOut DEF Pipe, Mode
<1>6. Awake(y.st, y.phase, y.up, y.rbuf, y.half, y.out, y.ended, y.paused, "none", g2)
  BY <1>1, <1>3, <1>a, <1>d, <1>e, NoUpOut DEF Awake, Mode
<1>8. Recorded(c, y.n, y.phase, y.mute, "none", rc)
  BY <1>1, <1>3, <1>a, <1>d, <1>e, NoUpOut DEF Recorded, Mode
<1>9. Unanswered(c, y.n, y.phase, "none", an)
  BY <1>1, <1>3, <1>a, <1>d, <1>e, NoUpOut DEF Unanswered, Mode
<1>10. IsSeq(y.out)
  BY <1>1, <1>3, <1>a, <1>d, <1>e, NoUpOut, EmptyIs
<1> QED BY <1>2, <1>3, <1>4, <1>5, <1>6, <1>8, <1>9, <1>10 DEF Local, ClientSound

\* upstream_failed: the request kept aside is in front again, for another venue.
FailedOver(x, v) == [x EXCEPT !.up = NoUp, !.attempts = x.attempts + 1, !.slot = v,
                              !.rbuf = <<x.saved>> \o x.rbuf]

LEMMA LocalFailsOver ==
  ASSUME NEW c \in Client, NEW x, NEW rc, NEW an, NEW g2, Local(c, x, "failed", g2, rc, an),
         x.phase = "Dispatched",
         x.saved # 0,
         x.attempts < MaxAttempts - 1,
         NEW v \in Venue
  PROVE  /\ Local(c, FailedOver(x, v), "dispatch", g2, rc, an)
         /\ FailedOver(x, v).up = NoUp /\ FailedOver(x, v).n = x.n
         /\ FailedOver(x, v).phase = x.phase /\ FailedOver(x, v).out = x.out
<1> SUFFICES ASSUME NEW y, y = FailedOver(x, v)
             PROVE  /\ Local(c, y, "dispatch", g2, rc, an)
               /\ y.up = NoUp /\ y.n = x.n /\ y.phase = x.phase /\ y.out = x.out
  OBVIOUS
<1>1. /\ ClientShape(x) /\ IsSeq(x.out)
      /\ Mode(x.st, x.phase, x.up, x.n, x.streaming, x.ended, x.closeAfter, x.sunk, x.mute, "failed")
      /\ Pipe(x.st, x.rbuf, x.sent, x.n, x.saved, x.phase, x.closeAfter, "failed")
      /\ Awake(x.st, x.phase, x.up, x.rbuf, x.half, x.out, x.ended, x.paused, "failed", g2)
      /\ Recorded(c, x.n, x.phase, x.mute, "failed", rc)
      /\ Unanswered(c, x.n, x.phase, "failed", an)
  BY DEF Local, ClientSound
<1>a. UpTo(x.rbuf, x.sent) /\ x.sent \in Nat /\ x.n \in Nat /\ x.st = "open"
  BY <1>1 DEF Pipe, Mode, ClientShape, UpTo
<1>b. Len(x.rbuf) = x.sent - x.n /\ Len(x.rbuf) \in Nat
  BY <1>1, <1>a DEF Pipe, Mode, UpTo
<1>c. x.saved = x.n
  BY <1>1 DEF Pipe
<1>d. /\ <<x.saved>> \o x.rbuf \in Seq(Nat) /\ UpTo(<<x.saved>> \o x.rbuf, x.sent)
      /\ Len(<<x.saved>> \o x.rbuf) = x.sent - x.n + 1
  <2>1. x.n = x.sent - Len(x.rbuf)
    BY <1>a, <1>b
  <2>2. UpTo(<<x.n>> \o x.rbuf, x.sent) /\ Len(<<x.n>> \o x.rbuf) = Len(x.rbuf) + 1
    BY <2>1, <1>a, UpToCons
  <2> QED BY <2>2, <1>b, <1>c DEF UpTo
<1>e. x.attempts + 1 \in 0..(MaxAttempts - 1)
  BY <1>1, LifecycleConstants DEF ClientShape, FailedOver
<1>2. ClientShape(y)
  BY <1>1, <1>d, <1>e DEF ClientShape, FailedOver, Phases, Bodies
<1>3. /\ y.st = x.st /\ y.rbuf = <<x.saved>> \o x.rbuf /\ y.sent = x.sent /\ y.half = x.half
      /\ y.n = x.n
      /\ y.phase = x.phase /\ y.up = NoUp /\ y.saved = x.saved /\ y.out = x.out
      /\ y.closeAfter = x.closeAfter
      /\ y.streaming = x.streaming /\ y.ended = x.ended /\ y.sunk = x.sunk /\ y.paused = x.paused
      /\ y.mute = x.mute
  BY <1>1, <1>d, <1>e DEF ClientShape, FailedOver
<1>4. Mode(y.st, y.phase, y.up, y.n, y.streaming, y.ended, y.closeAfter, y.sunk, y.mute, "dispatch")
  BY <1>1, <1>3, <1>a, <1>d DEF Mode
<1>5. Pipe(y.st, y.rbuf, y.sent, y.n, y.saved, y.phase, y.closeAfter, "dispatch")
  BY <1>1, <1>3, <1>a, <1>d DEF Pipe, Mode
<1>6. Awake(y.st, y.phase, y.up, y.rbuf, y.half, y.out, y.ended, y.paused, "dispatch", g2)
  BY <1>1, <1>3, <1>a, <1>d DEF Awake, Mode
<1>8. Recorded(c, y.n, y.phase, y.mute, "dispatch", rc)
  BY <1>1, <1>3, <1>a, <1>d DEF Recorded, Mode
<1>9. Unanswered(c, y.n, y.phase, "dispatch", an)
  BY <1>1, <1>3, <1>a, <1>d DEF Unanswered, Mode
<1>10. IsSeq(y.out)
  BY <1>1, <1>3, <1>a, <1>d, EmptyIs
<1> QED BY <1>2, <1>3, <1>4, <1>5, <1>6, <1>8, <1>9, <1>10 DEF Local, ClientSound

\* A stream's step, and the flush of what it staged.
SteppedTo(x, o, done, said, bad, end) == [x EXCEPT !.out = o, !.bodyDone = done, !.said = said,
                                                   !.bad = bad, !.ended = x.ended \/ end # "Ok",
                                                   !.closeAfter = x.closeAfter \/ end = "Failed"]

LEMMA LocalStepped ==
  ASSUME NEW c \in Client, NEW x, NEW rc, NEW an, NEW g2, Local(c, x, "none", g2, rc, an),
         x.phase = "Streaming",
         NEW o,
         IsSeq(o),
         NEW done \in BOOLEAN,
         NEW said \in BOOLEAN,
         NEW bad \in BOOLEAN,
         NEW end
  PROVE  /\ Local(c, SteppedTo(x, o, done, said, bad, end), "flush", g2, rc, an)
         /\ SteppedTo(x, o, done, said, bad, end).up = x.up
         /\ SteppedTo(x, o, done, said, bad, end).n = x.n
         /\ SteppedTo(x, o, done, said, bad, end).phase = x.phase
         /\ SteppedTo(x, o, done, said, bad, end).out = o
<1> SUFFICES ASSUME NEW y, y = SteppedTo(x, o, done, said, bad, end)
             PROVE  /\ Local(c, y, "flush", g2, rc, an)
               /\ y.up = x.up /\ y.n = x.n /\ y.phase = x.phase /\ y.out = o
  OBVIOUS
<1>1. /\ ClientShape(x) /\ IsSeq(x.out)
      /\ Mode(x.st, x.phase, x.up, x.n, x.streaming, x.ended, x.closeAfter, x.sunk, x.mute, "none")
      /\ Pipe(x.st, x.rbuf, x.sent, x.n, x.saved, x.phase, x.closeAfter, "none")
      /\ Awake(x.st, x.phase, x.up, x.rbuf, x.half, x.out, x.ended, x.paused, "none", g2)
      /\ Recorded(c, x.n, x.phase, x.mute, "none", rc)
      /\ Unanswered(c, x.n, x.phase, "none", an)
  BY DEF Local, ClientSound
<1> DEFINE e == x.ended \/ end # "Ok"
           f == x.closeAfter \/ end = "Failed"
<1>0. e \in BOOLEAN /\ f \in BOOLEAN /\ (x.ended => e) /\ (x.closeAfter => f)
  BY <1>1 DEF ClientShape
<1>2. ClientShape(y)
  <2>1. y = [st |-> x.st, rbuf |-> x.rbuf, sent |-> x.sent, half |-> x.half,
             told |-> x.told, n |-> x.n, phase |-> x.phase, up |-> x.up, slot |-> x.slot,
             saved |-> x.saved, attempts |-> x.attempts, out |-> o, msg |-> x.msg,
             closeAfter |-> f, streaming |-> x.streaming, ended |-> e,
             terminated |-> x.terminated, body |-> x.body, chunkedOut |-> x.chunkedOut,
             keepUp |-> x.keepUp, bodyDone |-> done, bad |-> bad, said |-> said,
             sunk |-> x.sunk, framed |-> x.framed, paused |-> x.paused, mute |-> x.mute]
    BY <1>1 DEF ClientShape, SteppedTo
  <2>2. Formed(y)
    BY <2>1 DEF Formed
  <2>3. Typed(x)
    BY <1>1, ShapeTyped
  <2>4. Typed(y)
    BY <1>0, <2>1, <2>3 DEF Typed, Phases
  <2> QED BY <2>2, <2>4, TypedShape
<1>3. /\ y.st = x.st /\ y.rbuf = x.rbuf /\ y.sent = x.sent /\ y.half = x.half /\ y.n = x.n
      /\ y.phase = x.phase /\ y.up = x.up /\ y.saved = x.saved /\ y.out = o /\ y.closeAfter = f
      /\ y.streaming = x.streaming /\ y.ended = e /\ y.sunk = x.sunk /\ y.paused = x.paused
      /\ y.mute = x.mute
  BY <1>1 DEF ClientShape, SteppedTo
<1> HIDE DEF e, f
<1>4. Mode(y.st, y.phase, y.up, y.n, y.streaming, y.ended, y.closeAfter, y.sunk, y.mute, "flush")
  BY <1>0, <1>1, <1>3 DEF Mode
<1>5. Pipe(y.st, y.rbuf, y.sent, y.n, y.saved, y.phase, y.closeAfter, "flush")
  BY <1>0, <1>1, <1>3 DEF Pipe, Mode
<1>6. Awake(y.st, y.phase, y.up, y.rbuf, y.half, y.out, y.ended, y.paused, "flush", g2)
  BY <1>0, <1>1, <1>3 DEF Awake, Mode
<1>8. Recorded(c, y.n, y.phase, y.mute, "flush", rc)
  BY <1>0, <1>1, <1>3 DEF Recorded, Mode
<1>9. Unanswered(c, y.n, y.phase, "flush", an)
  BY <1>0, <1>1, <1>3 DEF Unanswered, Mode
<1>10. IsSeq(y.out)
  BY <1>1, <1>3, EmptyIs
<1> QED BY <1>2, <1>3, <1>4, <1>5, <1>6, <1>8, <1>9, <1>10 DEF Local, ClientSound

\* The last one, at the venue's EOF.
CutTo(x, o, done, said, bad, f) == [x EXCEPT !.out = o, !.bodyDone = done, !.said = said,
                                             !.bad = bad, !.ended = TRUE, !.closeAfter = f,
                                             !.up = NoUp]

LEMMA LocalCut ==
  ASSUME NEW c \in Client, NEW x, NEW rc, NEW an, NEW g2, Local(c, x, "none", g2, rc, an),
         x.phase = "Streaming",
         NEW o,
         IsSeq(o),
         NEW done \in BOOLEAN,
         NEW said \in BOOLEAN,
         NEW bad \in BOOLEAN,
         NEW f \in BOOLEAN,
         x.closeAfter => f
  PROVE  /\ Local(c, CutTo(x, o, done, said, bad, f), "flush", g2, rc, an)
         /\ CutTo(x, o, done, said, bad, f).up = NoUp /\ CutTo(x, o, done, said, bad, f).n = x.n
         /\ CutTo(x, o, done, said, bad, f).phase = x.phase
         /\ CutTo(x, o, done, said, bad, f).out = o
<1> SUFFICES ASSUME NEW y, y = CutTo(x, o, done, said, bad, f)
             PROVE  /\ Local(c, y, "flush", g2, rc, an)
               /\ y.up = NoUp /\ y.n = x.n /\ y.phase = x.phase /\ y.out = o
  OBVIOUS
<1>1. /\ ClientShape(x) /\ IsSeq(x.out)
      /\ Mode(x.st, x.phase, x.up, x.n, x.streaming, x.ended, x.closeAfter, x.sunk, x.mute, "none")
      /\ Pipe(x.st, x.rbuf, x.sent, x.n, x.saved, x.phase, x.closeAfter, "none")
      /\ Awake(x.st, x.phase, x.up, x.rbuf, x.half, x.out, x.ended, x.paused, "none", g2)
      /\ Recorded(c, x.n, x.phase, x.mute, "none", rc)
      /\ Unanswered(c, x.n, x.phase, "none", an)
  BY DEF Local, ClientSound
<1>2. ClientShape(y)
  <2>1. y = [st |-> x.st, rbuf |-> x.rbuf, sent |-> x.sent, half |-> x.half,
             told |-> x.told, n |-> x.n, phase |-> x.phase, up |-> NoUp, slot |-> x.slot,
             saved |-> x.saved, attempts |-> x.attempts, out |-> o, msg |-> x.msg,
             closeAfter |-> f, streaming |-> x.streaming, ended |-> TRUE,
             terminated |-> x.terminated, body |-> x.body, chunkedOut |-> x.chunkedOut,
             keepUp |-> x.keepUp, bodyDone |-> done, bad |-> bad, said |-> said,
             sunk |-> x.sunk, framed |-> x.framed, paused |-> x.paused, mute |-> x.mute]
    BY <1>1 DEF ClientShape, CutTo
  <2>2. Formed(y)
    BY <2>1 DEF Formed
  <2>3. Typed(x)
    BY <1>1, ShapeTyped
  <2>4. Typed(y)
    BY <2>1, <2>3 DEF Typed, Phases
  <2> QED BY <2>2, <2>4, TypedShape
<1>3. /\ y.st = x.st /\ y.rbuf = x.rbuf /\ y.sent = x.sent /\ y.half = x.half /\ y.n = x.n
      /\ y.phase = x.phase /\ y.up = NoUp /\ y.saved = x.saved /\ y.out = o /\ y.closeAfter = f
      /\ y.streaming = x.streaming /\ y.ended = TRUE /\ y.sunk = x.sunk /\ y.paused = x.paused
      /\ y.mute = x.mute
  BY <1>1 DEF ClientShape, CutTo
<1>4. Mode(y.st, y.phase, y.up, y.n, y.streaming, y.ended, y.closeAfter, y.sunk, y.mute, "flush")
  BY <1>1, <1>3 DEF Mode
<1>5. Pipe(y.st, y.rbuf, y.sent, y.n, y.saved, y.phase, y.closeAfter, "flush")
  BY <1>1, <1>3 DEF Pipe, Mode
<1>6. Awake(y.st, y.phase, y.up, y.rbuf, y.half, y.out, y.ended, y.paused, "flush", g2)
  BY <1>1, <1>3 DEF Awake, Mode
<1>8. Recorded(c, y.n, y.phase, y.mute, "flush", rc)
  BY <1>1, <1>3 DEF Recorded, Mode
<1>9. Unanswered(c, y.n, y.phase, "flush", an)
  BY <1>1, <1>3 DEF Unanswered, Mode
<1>10. IsSeq(y.out)
  BY <1>1, <1>3, EmptyIs
<1> QED BY <1>2, <1>3, <1>4, <1>5, <1>6, <1>8, <1>9, <1>10 DEF Local, ClientSound

\* An accepted connection.
Accepts(x) == [x EXCEPT !.st = "open"]

LEMMA LocalAccepted ==
  ASSUME NEW c \in Client, NEW x, NEW rc, NEW an, NEW g2, Local(c, x, "none", g2, rc, an),
         x.st = "new"
  PROVE  /\ Local(c, Accepts(x), "none", g2, rc, an)
         /\ Accepts(x).up = x.up /\ Accepts(x).n = x.n /\ Accepts(x).phase = x.phase
         /\ Accepts(x).out = x.out
<1> SUFFICES ASSUME NEW y, y = Accepts(x)
             PROVE  /\ Local(c, y, "none", g2, rc, an)
               /\ y.up = x.up /\ y.n = x.n /\ y.phase = x.phase /\ y.out = x.out
  OBVIOUS
<1>1. /\ ClientShape(x) /\ IsSeq(x.out)
      /\ Mode(x.st, x.phase, x.up, x.n, x.streaming, x.ended, x.closeAfter, x.sunk, x.mute, "none")
      /\ Pipe(x.st, x.rbuf, x.sent, x.n, x.saved, x.phase, x.closeAfter, "none")
      /\ Awake(x.st, x.phase, x.up, x.rbuf, x.half, x.out, x.ended, x.paused, "none", g2)
      /\ Recorded(c, x.n, x.phase, x.mute, "none", rc)
      /\ Unanswered(c, x.n, x.phase, "none", an)
  BY DEF Local, ClientSound
<1>a. UpTo(x.rbuf, x.sent) /\ Len(x.rbuf) = 0 /\ x.rbuf = <<>> /\ x.sent = 0 /\ x.n = 0
  BY <1>1 DEF Pipe, ClientShape, UpTo
<1>2. ClientShape(y)
  BY <1>1 DEF ClientShape, Accepts, Phases, Bodies
<1>3. /\ y.st = "open" /\ y.rbuf = x.rbuf /\ y.sent = x.sent /\ y.half = x.half /\ y.n = x.n
      /\ y.phase = x.phase /\ y.up = x.up /\ y.saved = x.saved /\ y.out = x.out
      /\ y.closeAfter = x.closeAfter
      /\ y.streaming = x.streaming /\ y.ended = x.ended /\ y.sunk = x.sunk /\ y.paused = x.paused
      /\ y.mute = x.mute
  BY <1>1 DEF ClientShape, Accepts
<1>4. Mode(y.st, y.phase, y.up, y.n, y.streaming, y.ended, y.closeAfter, y.sunk, y.mute, "none")
  BY <1>1, <1>3, <1>a DEF Mode
<1>5. Pipe(y.st, y.rbuf, y.sent, y.n, y.saved, y.phase, y.closeAfter, "none")
  BY <1>1, <1>3, <1>a DEF Pipe, Mode
<1>6. Awake(y.st, y.phase, y.up, y.rbuf, y.half, y.out, y.ended, y.paused, "none", g2)
  BY <1>1, <1>3, <1>a DEF Awake, Mode
<1>8. Recorded(c, y.n, y.phase, y.mute, "none", rc)
  BY <1>1, <1>3, <1>a DEF Recorded, Mode
<1>9. Unanswered(c, y.n, y.phase, "none", an)
  BY <1>1, <1>3, <1>a DEF Unanswered, Mode
<1>10. IsSeq(y.out)
  BY <1>1, <1>3, <1>a, EmptyIs
<1> QED BY <1>2, <1>3, <1>4, <1>5, <1>6, <1>8, <1>9, <1>10 DEF Local, ClientSound

\* The rest of a request whose head was in.
Completes(x) == [x EXCEPT !.half = FALSE]

LEMMA LocalRest ==
  ASSUME NEW c \in Client, NEW x, NEW rc, NEW an, Local(c, x, "none", TRUE, rc, an),
         x.st = "open"
  PROVE  /\ Local(c, Completes(x), "frame", TRUE, rc, an)
         /\ Completes(x).up = x.up /\ Completes(x).n = x.n /\ Completes(x).phase = x.phase
         /\ Completes(x).out = x.out
<1> SUFFICES ASSUME NEW y, y = Completes(x)
             PROVE  /\ Local(c, y, "frame", TRUE, rc, an)
               /\ y.up = x.up /\ y.n = x.n /\ y.phase = x.phase /\ y.out = x.out
  OBVIOUS
<1>1. /\ ClientShape(x) /\ IsSeq(x.out)
      /\ Mode(x.st, x.phase, x.up, x.n, x.streaming, x.ended, x.closeAfter, x.sunk, x.mute, "none")
      /\ Pipe(x.st, x.rbuf, x.sent, x.n, x.saved, x.phase, x.closeAfter, "none")
      /\ Awake(x.st, x.phase, x.up, x.rbuf, x.half, x.out, x.ended, x.paused, "none", TRUE)
      /\ Recorded(c, x.n, x.phase, x.mute, "none", rc)
      /\ Unanswered(c, x.n, x.phase, "none", an)
  BY DEF Local, ClientSound
<1>2. ClientShape(y)
  BY <1>1 DEF ClientShape, Completes, Phases, Bodies
<1>3. /\ y.st = x.st /\ y.rbuf = x.rbuf /\ y.sent = x.sent /\ y.half = FALSE /\ y.n = x.n
      /\ y.phase = x.phase /\ y.up = x.up /\ y.saved = x.saved /\ y.out = x.out
      /\ y.closeAfter = x.closeAfter
      /\ y.streaming = x.streaming /\ y.ended = x.ended /\ y.sunk = x.sunk /\ y.paused = x.paused
      /\ y.mute = x.mute
  BY <1>1 DEF ClientShape, Completes
<1>4. Mode(y.st, y.phase, y.up, y.n, y.streaming, y.ended, y.closeAfter, y.sunk, y.mute, "frame")
  BY <1>1, <1>3 DEF Mode
<1>5. Pipe(y.st, y.rbuf, y.sent, y.n, y.saved, y.phase, y.closeAfter, "frame")
  BY <1>1, <1>3 DEF Pipe, Mode
<1>6. Awake(y.st, y.phase, y.up, y.rbuf, y.half, y.out, y.ended, y.paused, "frame", TRUE)
  BY <1>1, <1>3 DEF Awake, Mode
<1>8. Recorded(c, y.n, y.phase, y.mute, "frame", rc)
  BY <1>1, <1>3 DEF Recorded, Mode
<1>9. Unanswered(c, y.n, y.phase, "frame", an)
  BY <1>1, <1>3 DEF Unanswered, Mode
<1>10. IsSeq(y.out)
  BY <1>1, <1>3, EmptyIs
<1> QED BY <1>2, <1>3, <1>4, <1>5, <1>6, <1>8, <1>9, <1>10 DEF Local, ClientSound

\* A request, or its head.
Received(x, h) == [x EXCEPT !.rbuf = Append(x.rbuf, x.sent + 1), !.sent = x.sent + 1, !.half = h]

LEMMA LocalSends ==
  ASSUME NEW c \in Client, NEW x, NEW rc, NEW an, Local(c, x, "none", TRUE, rc, an),
         x.st = "open",
         x.sent < MaxReq,
         NEW h \in BOOLEAN
  PROVE  /\ Local(c, Received(x, h), "frame", TRUE, rc, an)
         /\ Received(x, h).up = x.up /\ Received(x, h).n = x.n /\ Received(x, h).phase = x.phase
         /\ Received(x, h).out = x.out
<1> SUFFICES ASSUME NEW y, y = Received(x, h)
             PROVE  /\ Local(c, y, "frame", TRUE, rc, an)
               /\ y.up = x.up /\ y.n = x.n /\ y.phase = x.phase /\ y.out = x.out
  OBVIOUS
<1>1. /\ ClientShape(x) /\ IsSeq(x.out)
      /\ Mode(x.st, x.phase, x.up, x.n, x.streaming, x.ended, x.closeAfter, x.sunk, x.mute, "none")
      /\ Pipe(x.st, x.rbuf, x.sent, x.n, x.saved, x.phase, x.closeAfter, "none")
      /\ Awake(x.st, x.phase, x.up, x.rbuf, x.half, x.out, x.ended, x.paused, "none", TRUE)
      /\ Recorded(c, x.n, x.phase, x.mute, "none", rc)
      /\ Unanswered(c, x.n, x.phase, "none", an)
  BY DEF Local, ClientSound
<1>a. UpTo(x.rbuf, x.sent) /\ x.sent \in Nat /\ x.n \in Nat /\ x.sent + 1 \in 0..MaxReq
  BY <1>1, LifecycleConstants DEF Pipe, ClientShape
<1>b. /\ UpTo(Append(x.rbuf, x.sent + 1), x.sent + 1)
      /\ Len(Append(x.rbuf, x.sent + 1)) = Len(x.rbuf) + 1
  BY <1>a, UpToAppend
<1>c. Append(x.rbuf, x.sent + 1) \in Seq(Nat) /\ Len(x.rbuf) \in Nat
  BY <1>a, <1>b DEF UpTo
<1>2. ClientShape(y)
  BY <1>1, <1>a, <1>c DEF ClientShape, Received, Phases, Bodies
<1>3. /\ y.st = x.st /\ y.rbuf = Append(x.rbuf, x.sent + 1) /\ y.sent = x.sent + 1 /\ y.half = h
      /\ y.n = x.n
      /\ y.phase = x.phase /\ y.up = x.up /\ y.saved = x.saved /\ y.out = x.out
      /\ y.closeAfter = x.closeAfter
      /\ y.streaming = x.streaming /\ y.ended = x.ended /\ y.sunk = x.sunk /\ y.paused = x.paused
      /\ y.mute = x.mute
  BY <1>1, <1>a, <1>c DEF ClientShape, Received
<1>4. Mode(y.st, y.phase, y.up, y.n, y.streaming, y.ended, y.closeAfter, y.sunk, y.mute, "frame")
  BY <1>1, <1>3, <1>a, <1>b, <1>c DEF Mode
<1>5. Pipe(y.st, y.rbuf, y.sent, y.n, y.saved, y.phase, y.closeAfter, "frame")
  <2> DEFINE k == Len(x.rbuf)
             q == Append(x.rbuf, x.sent + 1)
             s == x.sent
  <2>1. /\ x.n <= s /\ x.saved \in {0, x.n} /\ x.st = "open"
        /\ k \in {s - x.n, s - x.n + 1}
        /\ ~x.closeAfter => k = s - x.n
    BY <1>1 DEF Pipe
  <2>3. UpTo(q, s + 1) /\ Len(q) = k + 1 /\ k \in Nat /\ s \in Nat /\ x.n \in Nat
    BY <1>a, <1>b, <1>c
  <2> HIDE DEF k, q, s
  <2>2. /\ x.n <= s + 1 /\ k + 1 \in {s + 1 - x.n, s + 1 - x.n + 1}
        /\ ~x.closeAfter => k + 1 = s + 1 - x.n
    BY ONLY <2>1, <2>3
  <2>4. Pipe(x.st, q, s + 1, x.n, x.saved, x.phase, x.closeAfter, "frame")
    BY ONLY <2>1, <2>2, <2>3 DEF Pipe
  <2> QED BY <1>3, <2>4 DEF q, s
<1>6. Awake(y.st, y.phase, y.up, y.rbuf, y.half, y.out, y.ended, y.paused, "frame", TRUE)
  BY <1>1, <1>3, <1>a, <1>b, <1>c DEF Awake, Mode
<1>8. Recorded(c, y.n, y.phase, y.mute, "frame", rc)
  BY <1>1, <1>3, <1>a, <1>b, <1>c DEF Recorded, Mode
<1>9. Unanswered(c, y.n, y.phase, "frame", an)
  BY <1>1, <1>3, <1>a, <1>b, <1>c DEF Unanswered, Mode
<1>10. IsSeq(y.out)
  BY <1>1, <1>3, <1>a, <1>b, <1>c, EmptyIs
<1> QED BY <1>2, <1>3, <1>4, <1>5, <1>6, <1>8, <1>9, <1>10 DEF Local, ClientSound

\* note_response_bytes.
Hears(x) == [x EXCEPT !.phase = "Responding"]

LEMMA LocalHears ==
  ASSUME NEW c \in Client, NEW x, NEW rc, NEW an, NEW g2, Local(c, x, "none", g2, rc, an),
         x.phase = "Dispatched",
         x.up # NoUp
  PROVE  /\ Local(c, Hears(x), "none", g2, rc, an)
         /\ Hears(x).up = x.up /\ Hears(x).n = x.n /\ Hears(x).phase = "Responding"
         /\ Hears(x).out = x.out
<1> SUFFICES ASSUME NEW y, y = Hears(x)
             PROVE  /\ Local(c, y, "none", g2, rc, an)
               /\ y.up = x.up /\ y.n = x.n /\ y.phase = "Responding" /\ y.out = x.out
  OBVIOUS
<1>1. /\ ClientShape(x) /\ IsSeq(x.out)
      /\ Mode(x.st, x.phase, x.up, x.n, x.streaming, x.ended, x.closeAfter, x.sunk, x.mute, "none")
      /\ Pipe(x.st, x.rbuf, x.sent, x.n, x.saved, x.phase, x.closeAfter, "none")
      /\ Awake(x.st, x.phase, x.up, x.rbuf, x.half, x.out, x.ended, x.paused, "none", g2)
      /\ Recorded(c, x.n, x.phase, x.mute, "none", rc)
      /\ Unanswered(c, x.n, x.phase, "none", an)
  BY DEF Local, ClientSound
<1>2. ClientShape(y)
  BY <1>1 DEF ClientShape, Hears, Phases, Bodies
<1>3. /\ y.st = x.st /\ y.rbuf = x.rbuf /\ y.sent = x.sent /\ y.half = x.half /\ y.n = x.n
      /\ y.phase = "Responding" /\ y.up = x.up /\ y.saved = x.saved /\ y.out = x.out
      /\ y.closeAfter = x.closeAfter
      /\ y.streaming = x.streaming /\ y.ended = x.ended /\ y.sunk = x.sunk /\ y.paused = x.paused
      /\ y.mute = x.mute
  BY <1>1 DEF ClientShape, Hears
<1>4. Mode(y.st, y.phase, y.up, y.n, y.streaming, y.ended, y.closeAfter, y.sunk, y.mute, "none")
  BY <1>1, <1>3 DEF Mode
<1>5. Pipe(y.st, y.rbuf, y.sent, y.n, y.saved, y.phase, y.closeAfter, "none")
  BY <1>1, <1>3 DEF Pipe, Mode
<1>6. Awake(y.st, y.phase, y.up, y.rbuf, y.half, y.out, y.ended, y.paused, "none", g2)
  BY <1>1, <1>3 DEF Awake, Mode
<1>8. Recorded(c, y.n, y.phase, y.mute, "none", rc)
  BY <1>1, <1>3 DEF Recorded, Mode
<1>9. Unanswered(c, y.n, y.phase, "none", an)
  BY <1>1, <1>3 DEF Unanswered, Mode
<1>10. IsSeq(y.out)
  BY <1>1, <1>3, EmptyIs
<1> QED BY <1>2, <1>3, <1>4, <1>5, <1>6, <1>8, <1>9, <1>10 DEF Local, ClientSound

LEMMA LocalAnswered ==
  ASSUME NEW c \in Client, NEW x, NEW g, NEW rc, NEW an, Local(c, x, "none", g, rc, an),
         x.phase # "Dispatched"
  PROVE  Local(c, x, "none", g, rc, an \cup {<<c, x.n>>})
<1>1. Unanswered(c, x.n, x.phase, "none", an \cup {<<c, x.n>>})
  <2>1. x.n \in Nat
    BY DEF Local, ClientSound, ClientShape
  <2> QED BY <2>1 DEF Local, Unanswered
<1> QED BY <1>1 DEF Local

-----------------------------------------------------------------------------
(* Every step keeps the invariant.                                         *)

LEMMA SameHistory ==
  ASSUME Inv, recs' = recs, answered' = answered, fin' = fin
  PROVE  \A c \in Client : Others(c)
BY DEF Others, Keeps, Inv

\* The client's record changes, and its upstream stays.
LEMMA OwnSame ==
  ASSUME NEW m, NEW w, NEW p, NEW O, Owned(m, w, p, O), NEW m2, NEW c \in Client,
         ButClient(m2, m, c), m2[c].up = m[c].up,
         m[c].up # NoUp =>
           /\ m2[c].n = m[c].n
           /\ w[m[c].up].paused => m2[c].phase = "Streaming" /\ m2[c].out # <<>>
           /\ w[m[c].up].st = "connecting" => m2[c].phase = "Dispatched"
  PROVE  Owned(m2, w, p, O)
<1>1. Pairs(m, w) /\ \A x \in Up : UpSound(w[x], x \in O)
  BY DEF Owned
<1>2. m[c].up # NoUp => /\ UpSound(w[m[c].up], m[c].up \in O)
                        /\ Pair(c, m2[c].n, m2[c].phase, m2[c].out, w[m[c].up])
  BY <1>1 DEF Pairs, Pair
<1>3. ButUp(w, w, m[c].up)
  BY DEF ButUp
<1> QED BY <1>2, <1>3, OwnKeep

\* What a client's upstream has of it.
LEMMA PairOf ==
  ASSUME NEW m, NEW w, NEW p, NEW O, Owned(m, w, p, O), NEW c \in Client, m[c].up # NoUp
  PROVE  /\ m[c].up \in Up /\ Pair(c, m[c].n, m[c].phase, m[c].out, w[m[c].up])
         /\ UpSound(w[m[c].up], m[c].up \in O)
BY DEF Owned, Pairs

LEMMA StepStays ==
  ASSUME Inv, UNCHANGED vars
  PROVE  Inv'
BY DEF Inv, vars

\* The stack, once its head is done or calls another.
LEMMA HeadReturns ==
  ASSUME StackSound(todo), todo # <<>>, todo[1][1] # "gate", Return
  PROVE  Leaves(todo, todo')
<1>1. Tail(todo) \in Seq(Entries) /\ Leaves(todo, Tail(todo))
  BY LeavesTail DEF Leaves, RestSound
<1>2. todo' = Tail(todo)
  BY <1>1, EmptySeq DEF Return, Then
<1> QED BY <1>1, <1>2

LEMMA HeadCalls ==
  ASSUME StackSound(todo), todo # <<>>, todo[1][1] # "gate", NEW c \in Client,
         NEW op \in ClientOps \ {"gate"}, Then(<<<<op, c>>>>)
  PROVE  /\ Goes(todo, todo', c, op) /\ todo' # <<>> /\ todo'[1] = <<op, c>>
         /\ (Gated(todo, c) => Gated(todo', c))
<1>1. Goes(todo, todo', c, op) /\ todo' # <<>> /\ todo'[1] = <<op, c>>
  BY CallsClient DEF Then
<1> QED BY <1>1 DEF Goes

LEMMA HeadCallsUp ==
  ASSUME StackSound(todo), todo # <<>>, todo[1][1] # "gate", NEW c \in Client, NEW u \in Up,
         NEW op \in UpOps, Then(<<<<op, u>>>>)
  PROVE  /\ Goes(todo, todo', c, "none") /\ todo' # <<>> /\ todo'[1] = <<op, u>>
         /\ (Gated(todo, c) => Gated(todo', c))
<1>1. Goes(todo, todo', c, "none") /\ todo' # <<>> /\ todo'[1] = <<op, u>>
  BY CallsUp DEF Then
<1> QED BY <1>1 DEF Goes

LEMMA HeadNexts ==
  ASSUME StackSound(todo), todo # <<>>, todo[1][1] # "gate", NEW c \in Client, Then(Bytes(c))
  PROVE  /\ Goes(todo, todo', c, "frame") /\ todo' # <<>> /\ todo'[1] = <<"frame", c>>
         /\ Gated(todo', c)
BY CallsBytes DEF Then

LEMMA FrameNothingKeeps ==
  ASSUME Inv, NEW c \in Client, FrameNothing(c)
  PROVE  Inv'
<1>1. /\ todo # <<>> /\ StackSound(todo) /\ todo[1][1] # "gate" /\ Alone(todo, c)
      /\ Local(c, cl[c], "frame", Gated(todo, c), recs, answered)
  BY RunsClient DEF FrameNothing, ClientOps
<1>2. Leaves(todo, todo') /\ (Gated(todo, c) => Gated(todo', c))
  <2>1. Leaves(todo, todo')
    BY <1>1, HeadReturns DEF FrameNothing
  <2> QED BY <2>1 DEF Leaves
<1>3. cl' = cl /\ us' = us /\ pool' = pool /\ recs' = recs /\ answered' = answered /\ fin' = fin
  BY DEF FrameNothing, hist
<1>4. ~(cl[c].st = "open" /\ cl[c].phase = "Idle" /\ cl[c].rbuf # <<>>) \/ (cl[c].half /\ Len(cl[c].rbuf) = 1)
  BY DEF FrameNothing, CanFrame, Open, Partial
<1>5. Local(c, cl'[c], "none", Gated(todo', c), recs', answered')
  <2> DEFINE g == Gated(todo', c)
  <2>1. Local(c, cl[c], "frame", g, recs, answered)
    BY <1>1, <1>2, LocalGated
  <2> HIDE DEF g
  <2>2. Local(c, cl'[c], "none", g, recs, answered)
    BY ONLY <2>1, <1>3, <1>4, LocalNothing, c \in Client
  <2> QED BY <2>2, <1>3 DEF g
<1>6. OnlyClient(c) /\ Others(c) /\ Owned(cl', us', pool', Owed(todo))
  BY <1>3, SameHistory DEF OnlyClient, ButClient, Inv
<1> QED BY <1>1, <1>2, <1>5, <1>6, StepReturns

\* gate_client_reads, which its caller owed the client.
LEMMA GateReturns ==
  ASSUME NEW c \in Client, StackSound(todo), todo # <<>>, todo[1] = <<"gate", c>>, Return,
         Owned(cl', us', pool', Owed(todo))
  PROVE  /\ HeadFit(cl', us', todo') /\ Owned(cl', us', pool', Owed(todo')) /\ StackSound(todo')
         /\ \A d \in Client : At(todo', d) = "none" /\ (d # c /\ Gated(todo, d) => Gated(todo', d))
<1> DEFINE r == Tail(todo)
<1>1. /\ RestSound(r) /\ OwedIn(r) = Owed(todo)
      /\ \A d \in Client : Gated(todo, d) => todo[1] = <<"gate", d>> \/ Gated(r, d)
  BY TailRest
<1>2. todo' = r
  BY <1>1, EmptySeq DEF Return, Then, RestSound
<1> HIDE DEF r
<1>3. /\ StackSound(r) /\ Owed(r) \subseteq Owed(todo)
      /\ \A d \in Client : At(r, d) = "none"
      /\ r # <<>> => r[1] \in Entries /\ (r[1][1] = "gate" \/ (r[1][1] = "upEof" /\ r[1][2] \in Owed(todo)))
  BY <1>1, RestStack
<1>4. Owned(cl', us', pool', Owed(r))
  BY <1>3, OwnFewer
<1>5. \A u \in Owed(todo) : us'[u].st = "free" \/ us'[u].c # NoClient
  BY OwedFit DEF Owed
<1>6. HeadFit(cl', us', r)
  BY <1>3, <1>5 DEF HeadFit, UpOps
<1>7. \A d \in Client : d # c /\ Gated(todo, d) => Gated(r, d)
  BY <1>1
<1> QED BY <1>2, <1>3, <1>4, <1>6, <1>7

LEMMA GateKeeps ==
  ASSUME Inv, NEW c \in Client, Gate(c)
  PROVE  Inv'
<1>1. todo # <<>> /\ StackSound(todo) /\ Head(todo) = <<"gate", c>> /\ DOMAIN cl = Client
  BY DEF Inv, Gate, Runs
<1>2. todo[1] = <<"gate", c>>
  BY <1>1, TailRest
<1>3. \A d \in Client : At(todo, d) = "none"
  BY <1>2 DEF At
<1>4. Local(c, cl[c], "none", Gated(todo, c), recs, answered) /\ Owned(cl, us, pool, Owed(todo))
  BY <1>3 DEF Inv
<1>5. us' = us /\ pool' = pool /\ recs' = recs /\ answered' = answered /\ fin' = fin
  BY DEF Gate, hist
<1>6. OnlyClient(c)
  BY <1>1, <1>5 DEF Gate, OnlyClient, ButClient, Inv
<1>7. /\ Local(c, cl'[c], "none", Gated(todo', c), recs', answered')
      /\ cl'[c].up = cl[c].up /\ cl'[c].n = cl[c].n /\ cl'[c].phase = cl[c].phase
      /\ cl'[c].out = cl[c].out
  <2> DEFINE g == Gated(todo, c)
             g2 == Gated(todo', c)
             b == Over(c)
  <2>1. Local(c, cl[c], "none", g, recs, answered)
    BY <1>4
  <2>2. CASE Open(c)
    <3>1. /\ cl[c].st = "open" /\ cl'[c] = [cl[c] EXCEPT !.paused = b] /\ b \in BOOLEAN
          /\ (b => cl[c].phase # "Idle")
      BY <2>2, <1>1 DEF Gate, Open, Over
    <3> HIDE DEF g, g2, b
    <3>2. /\ Local(c, cl'[c], "none", g2, recs, answered)
          /\ cl'[c].up = cl[c].up /\ cl'[c].n = cl[c].n /\ cl'[c].phase = cl[c].phase
          /\ cl'[c].out = cl[c].out
      BY ONLY <2>1, <3>1, LocalGate, c \in Client
    <3> QED BY <3>2, <1>5 DEF g2
  <2>3. CASE ~Open(c)
    <3>1. cl'[c] = cl[c] /\ cl[c].st # "open"
      BY <2>3 DEF Gate, Open
    <3> HIDE DEF g, g2, b
    <3>2. Local(c, cl[c], "none", g2, recs, answered)
      BY ONLY <2>1, <3>1 DEF Local, ClientSound, Awake
    <3> QED BY <3>1, <3>2, <1>5 DEF g2
  <2> QED BY <2>2, <2>3
<1>8. Owned(cl', us', pool', Owed(todo))
  <2>1. cl[c].up # NoUp => Pair(c, cl[c].n, cl[c].phase, cl[c].out, us[cl[c].up])
    BY <1>4, PairOf
  <2> QED BY <2>1, <1>4, <1>5, <1>6, <1>7, OwnSame DEF OnlyClient, Pair
<1>9. /\ HeadFit(cl', us', todo') /\ Owned(cl', us', pool', Owed(todo')) /\ StackSound(todo')
      /\ \A d \in Client : At(todo', d) = "none" /\ (d # c /\ Gated(todo, d) => Gated(todo', d))
  BY <1>1, <1>2, <1>8, GateReturns DEF Gate
<1>10. Others(c)
  BY <1>5, SameHistory
<1>11. Alone(todo, c) /\ Alone(todo', c) /\ At(todo', c) = "none"
  BY <1>3, <1>9 DEF Alone
<1> QED BY <1>6, <1>7, <1>9, <1>10, <1>11, Steps

\* try_frame on a head whose body is to come.
LEMMA FrameContinueKeeps ==
  ASSUME Inv, NEW c \in Client, FrameContinue(c)
  PROVE  Inv'
<1> DEFINE i == [r |-> <<c, Head(cl[c].rbuf)>>, k |-> "100"]
           out == Append(cl[c].out, i)
<1>1. /\ todo # <<>> /\ StackSound(todo) /\ todo[1][1] # "gate" /\ Alone(todo, c)
      /\ At(todo, c) = "frame"
      /\ Local(c, cl[c], "frame", Gated(todo, c), recs, answered)
  BY RunsClient DEF FrameContinue, ClientOps
<1>2. Leaves(todo, todo') /\ (Gated(todo, c) => Gated(todo', c))
  <2>1. Leaves(todo, todo')
    BY <1>1, HeadReturns DEF FrameContinue
  <2> QED BY <2>1 DEF Leaves
<1>3. cl[c].phase = "Idle" /\ cl[c].half /\ Len(cl[c].rbuf) = 1
  BY DEF FrameContinue, CanFrame, Partial
<1>4. CASE CloseClient(c)
  <2>1. cl[c].st = "open"
    BY <1>1 DEF Local, ClientSound, Mode
  <2> QED BY <1>1, <1>2, <1>4, <2>1, StepCloses
<1>5. ASSUME NEW k \in Written(out), cl' = [cl EXCEPT ![c].out = Unsent(out, k), ![c].told = TRUE],
             UNCHANGED <<us, pool, asks, recs, answered, fin>>
      PROVE  Inv'
  <2> DEFINE o == Unsent(out, k)
  <2>1. IsSeq(o)
    <3>1. IsSeq(cl[c].out)
      BY <1>1 DEF Local, ClientSound
    <3>2. IsSeq(out)
      BY <3>1, AppendIs
    <3> HIDE DEF out
    <3> QED BY <3>2, UnsentIs DEF Written
  <2>2. us' = us /\ pool' = pool /\ recs' = recs /\ answered' = answered /\ fin' = fin
    BY <1>5
  <2> HIDE DEF o
  <2>3. OnlyClient(c) /\ cl'[c] = Continued(cl[c], o)
    BY <1>5, <2>2 DEF OnlyClient, ButClient, Inv, o, Continued
  <2>4. /\ Local(c, cl'[c], "none", Gated(todo', c), recs', answered')
        /\ cl'[c].up = cl[c].up
    <3> DEFINE g == Gated(todo', c)
    <3>1. Local(c, cl[c], "frame", g, recs, answered)
      BY <1>1, <1>2, LocalGated
    <3> HIDE DEF g
    <3>2. /\ Local(c, cl'[c], "none", g, recs, answered)
          /\ cl'[c].up = cl[c].up
      BY ONLY <3>1, <1>3, <2>1, <2>3, LocalContinue, c \in Client
    <3> QED BY <3>2, <2>2 DEF g
  <2>5. Owned(cl', us', pool', Owed(todo))
    <3>1. Owned(cl, us, pool, Owed(todo)) /\ cl[c].up = NoUp
      BY <1>1, <1>3 DEF Inv, Local, ClientSound, Mode
    <3> QED BY <3>1, <2>2, <2>3, <2>4, OwnSame DEF OnlyClient
  <2>6. Others(c)
    BY <2>2, SameHistory
  <2> QED BY <1>1, <1>2, <2>3, <2>4, <2>5, <2>6, StepReturns
<1> QED BY <1>4, <1>5 DEF FrameContinue


\* try_frame on a whole request.
LEMMA FrameKeeps ==
  ASSUME Inv, NEW c \in Client, Frame(c)
  PROVE  Inv'
<1>1. /\ todo # <<>> /\ StackSound(todo) /\ todo[1][1] # "gate" /\ Alone(todo, c)
      /\ Local(c, cl[c], "frame", Gated(todo, c), recs, answered)
  BY RunsClient DEF Frame, ClientOps
<1>2. us' = us /\ pool' = pool /\ recs' = recs /\ answered' = answered /\ fin' = fin
  BY DEF Frame, hist
<1>3. cl[c].phase = "Idle" /\ cl[c].rbuf # <<>> /\ cl[c].up = NoUp /\ cl[c].slot \in Venue
  BY <1>1 DEF Frame, CanFrame, Local, ClientSound, Mode, ClientShape
<1>4. PICK version \in Versions, v \in Venue, op \in {"error", "dispatch"} :
        cl' = [cl EXCEPT ![c] = Opened(cl[c], version, v)] /\ Then(<<<<op, c>>>>)
  <2>1. PICK version \in Versions :
          \/ /\ cl' = [cl EXCEPT ![c] = OpenRequest(c, version)]
             /\ Then(<<<<"error", c>>>>)
          \/ \E v \in IF Policy THEN Venue ELSE {FirstVenue} :
               /\ cl' = [cl EXCEPT ![c] = [OpenRequest(c, version) EXCEPT !.slot = v]]
               /\ Then(<<<<"dispatch", c>>>>)
    BY DEF Frame
  <2>2. CASE /\ cl' = [cl EXCEPT ![c] = OpenRequest(c, version)]
             /\ Then(<<<<"error", c>>>>)
    <3>1. OpenRequest(c, version) = Opened(cl[c], version, cl[c].slot)
      BY <1>1 DEF OpenRequest, Opened, Local, ClientSound, ClientShape
    <3> QED BY <2>2, <3>1, <1>3
  <2>3. ASSUME NEW v \in IF Policy THEN Venue ELSE {FirstVenue},
               cl' = [cl EXCEPT ![c] = [OpenRequest(c, version) EXCEPT !.slot = v]],
               Then(<<<<"dispatch", c>>>>)
        PROVE  \E x \in Venue : cl' = [cl EXCEPT ![c] = Opened(cl[c], version, x)]
    <3>1. v \in Venue
      BY LifecycleConstants
    <3>2. [OpenRequest(c, version) EXCEPT !.slot = v] = Opened(cl[c], version, v)
      BY <1>1 DEF OpenRequest, Opened, Local, ClientSound, ClientShape
    <3> QED BY <2>3, <3>1, <3>2
  <2> QED BY <2>1, <2>2, <2>3
<1>5. /\ Goes(todo, todo', c, op) /\ todo' # <<>> /\ todo'[1] = <<op, c>>
      /\ (Gated(todo, c) => Gated(todo', c))
  BY <1>1, <1>4, HeadCalls DEF ClientOps
<1>6. OnlyClient(c) /\ cl'[c] = Opened(cl[c], version, v)
  BY <1>2, <1>4 DEF OnlyClient, ButClient, Inv
<1>7. /\ Local(c, cl'[c], op, Gated(todo', c), recs', answered')
      /\ cl'[c].up = cl[c].up
  <2> DEFINE g == Gated(todo', c)
  <2>1. Local(c, cl[c], "frame", g, recs, answered)
    BY <1>1, <1>5, LocalGated
  <2> HIDE DEF g
  <2>2. /\ Local(c, cl'[c], op, g, recs, answered)
        /\ cl'[c].up = cl[c].up
    BY ONLY <2>1, <1>3, <1>6, LocalOpens, c \in Client, v \in Venue, op \in {"error", "dispatch"}
  <2> QED BY <2>2, <1>2 DEF g
<1>8. Owned(cl', us', pool', Owed(todo))
  <2>1. Owned(cl, us, pool, Owed(todo))
    BY DEF Inv
  <2> QED BY <2>1, <1>2, <1>3, <1>6, <1>7, OwnSame DEF OnlyClient
<1>9. Others(c)
  BY <1>2, SameHistory
<1> QED BY <1>1, <1>5, <1>6, <1>7, <1>8, <1>9, StepCalls DEF ClientOps

\* dispatch, refused at the venue's size limit.
LEMMA DispatchRefusedKeeps ==
  ASSUME Inv, NEW c \in Client, DispatchRefused(c)
  PROVE  Inv'
<1>1. /\ todo # <<>> /\ StackSound(todo) /\ todo[1][1] # "gate" /\ Alone(todo, c)
      /\ Local(c, cl[c], "dispatch", Gated(todo, c), recs, answered)
  BY RunsClient DEF DispatchRefused, ClientOps
<1>2. /\ Goes(todo, todo', c, "error") /\ todo' # <<>> /\ todo'[1] = <<"error", c>>
      /\ (Gated(todo, c) => Gated(todo', c))
  BY <1>1, HeadCalls DEF ClientOps, DispatchRefused
<1>3. cl' = cl /\ us' = us /\ pool' = pool /\ recs' = recs /\ answered' = answered /\ fin' = fin
  BY DEF DispatchRefused, hist
<1>4. Local(c, cl'[c], "error", Gated(todo', c), recs', answered')
  <2> DEFINE g == Gated(todo', c)
  <2>1. Local(c, cl[c], "dispatch", g, recs, answered)
    BY <1>1, <1>2, LocalGated
  <2> HIDE DEF g
  <2>2. Local(c, cl'[c], "error", g, recs, answered)
    BY ONLY <2>1, <1>3, LocalRefused, c \in Client
  <2> QED BY <2>2, <1>3 DEF g
<1>5. OnlyClient(c) /\ Others(c) /\ Owned(cl', us', pool', Owed(todo))
  BY <1>3, SameHistory DEF OnlyClient, ButClient, Inv
<1> QED BY <1>1, <1>2, <1>4, <1>5, StepCalls DEF ClientOps

\* dispatch with no connection to be had.
LEMMA DispatchNoConnKeeps ==
  ASSUME Inv, NEW c \in Client, DispatchNoConn(c)
  PROVE  Inv'
<1>1. /\ todo # <<>> /\ StackSound(todo) /\ todo[1][1] # "gate" /\ Alone(todo, c)
      /\ Local(c, cl[c], "dispatch", Gated(todo, c), recs, answered)
  BY RunsClient DEF DispatchNoConn, ClientOps
<1>2. us' = us /\ pool' = pool /\ recs' = recs /\ answered' = answered /\ fin' = fin
  BY DEF DispatchNoConn, hist
<1>3. cl[c].up = NoUp /\ Owned(cl, us, pool, Owed(todo))
  BY <1>1 DEF Inv, Local, ClientSound, Mode
<1>4. CASE /\ cl' = [cl EXCEPT ![c].phase = "Dispatched",
                               ![c].rbuf = IF cl[c].saved # 0 THEN Tail(@) ELSE @]
           /\ Then(<<<<"error", c>>>>)
  <2> DEFINE r == IF cl[c].saved # 0 THEN Tail(cl[c].rbuf) ELSE cl[c].rbuf
  <2>1. OnlyClient(c) /\ cl'[c] = NotConnected(cl[c], r) /\ r \in {cl[c].rbuf, Tail(cl[c].rbuf)}
    BY <1>2, <1>4 DEF OnlyClient, ButClient, Inv, NotConnected
  <2> HIDE DEF r
  <2>2. /\ Goes(todo, todo', c, "error") /\ todo' # <<>> /\ todo'[1] = <<"error", c>>
        /\ (Gated(todo, c) => Gated(todo', c))
    BY <1>1, <1>4, HeadCalls DEF ClientOps
  <2>3. /\ Local(c, cl'[c], "error", Gated(todo', c), recs', answered')
        /\ cl'[c].up = cl[c].up
    <3> DEFINE g == Gated(todo', c)
    <3>1. Local(c, cl[c], "dispatch", g, recs, answered)
      BY <1>1, <2>2, LocalGated
    <3> HIDE DEF g
    <3>2. /\ Local(c, cl'[c], "error", g, recs, answered)
          /\ cl'[c].up = cl[c].up
      BY ONLY <3>1, <2>1, LocalNoConn, c \in Client
    <3> QED BY <3>2, <1>2 DEF g
  <2>4. Owned(cl', us', pool', Owed(todo))
    BY <1>2, <1>3, <2>1, <2>3, OwnSame DEF OnlyClient
  <2>5. Others(c)
    BY <1>2, SameHistory
  <2> QED BY <1>1, <2>1, <2>2, <2>3, <2>4, <2>5, StepCalls DEF ClientOps
<1>5. CASE /\ cl' = [cl EXCEPT ![c] = [TakeRequest(@) EXCEPT !.phase = "Dispatched"]]
           /\ Then(<<<<"failed", c>>>>)
  <2> DEFINE s == IF cl[c].saved # 0 \/ ~Policy \/ Cardinality(Venue) < 2 THEN cl[c].saved ELSE Head(cl[c].rbuf)
  <2>1. OnlyClient(c) /\ cl'[c] = Taken(cl[c], s) /\ s \in {cl[c].saved, Head(cl[c].rbuf)}
    BY <1>1, <1>2, <1>5 DEF OnlyClient, ButClient, Inv, Taken, TakeRequest
  <2> HIDE DEF s
  <2>2. /\ Goes(todo, todo', c, "failed") /\ todo' # <<>> /\ todo'[1] = <<"failed", c>>
        /\ (Gated(todo, c) => Gated(todo', c))
    BY <1>1, <1>5, HeadCalls DEF ClientOps
  <2>3. /\ Local(c, cl'[c], "failed", Gated(todo', c), recs', answered')
        /\ cl'[c].up = cl[c].up
    <3> DEFINE g == Gated(todo', c)
    <3>1. Local(c, cl[c], "dispatch", g, recs, answered)
      BY <1>1, <2>2, LocalGated
    <3> HIDE DEF g
    <3>2. /\ Local(c, cl'[c], "failed", g, recs, answered)
          /\ cl'[c].up = cl[c].up
      BY ONLY <3>1, <2>1, LocalTaken, c \in Client
    <3> QED BY <3>2, <1>2 DEF g
  <2>4. Owned(cl', us', pool', Owed(todo))
    BY <1>2, <1>3, <2>1, <2>3, OwnSame DEF OnlyClient
  <2>5. Others(c)
    BY <1>2, SameHistory
  <2> QED BY <1>1, <2>1, <2>2, <2>3, <2>4, <2>5, StepCalls DEF ClientOps
<1> QED BY <1>4, <1>5 DEF DispatchNoConn

\* error_respond.
LEMMA ErrorKeeps ==
  ASSUME Inv, NEW c \in Client, Error(c)
  PROVE  Inv'
<1>1. /\ todo # <<>> /\ StackSound(todo) /\ todo[1][1] # "gate" /\ Alone(todo, c)
      /\ At(todo, c) = "error"
      /\ Local(c, cl[c], "error", Gated(todo, c), recs, answered)
  BY RunsClient DEF Error, ClientOps
<1>2. Open(c)
  BY <1>1 DEF Open, Local, ClientSound, Mode
<1>3. CASE cl[c].phase \in {"Streaming", "Replying"} \/ cl[c].out # <<>>
  <2>1. Return /\ CloseClient(c)
    BY <1>2, <1>3 DEF Error
  <2>2. Leaves(todo, todo')
    BY <1>1, <2>1, HeadReturns
  <2>3. cl[c].st = "open"
    BY <1>2 DEF Open
  <2> QED BY <1>1, <2>1, <2>2, <2>3, StepCloses
<1>4. CASE ~(cl[c].phase \in {"Streaming", "Replying"} \/ cl[c].out # <<>>)
  <2> DEFINE i == [r |-> Req(c), k |-> "err"]
  <2>1. /\ cl' = [cl EXCEPT ![c].out = <<i>>, ![c].phase = "Replying", ![c].closeAfter = TRUE,
                            ![c].up = NoUp]
        /\ us' = DropUp(c) /\ Then(<<<<"respond", c>>>>) /\ UNCHANGED <<pool, hist>>
    BY <1>2, <1>4 DEF Error
  <2>2. pool' = pool /\ recs' = recs /\ answered' = answered /\ fin' = fin
    BY <2>1 DEF hist
  <2>3. DOMAIN us' = Up /\ ButUp(us', us, cl[c].up) /\ (cl[c].up # NoUp => us'[cl[c].up] = NewUp)
    BY <2>1, DropsUp
  <2>4. OnlyClient(c) /\ cl'[c] = Answering(cl[c], i)
    BY <2>1, <2>3 DEF OnlyClient, ButClient, Inv, Answering
  <2>5. IsSeq(<<i>>) /\ <<i>> # <<>> /\ cl[c].phase \notin {"Streaming", "Replying"}
    BY <1>4 DEF IsSeq
  <2> HIDE DEF i
  <2>6. /\ Goes(todo, todo', c, "respond") /\ todo' # <<>> /\ todo'[1] = <<"respond", c>>
        /\ (Gated(todo, c) => Gated(todo', c))
    BY <1>1, <2>1, HeadCalls DEF ClientOps
  <2>7. /\ Local(c, cl'[c], "respond", Gated(todo', c), recs', answered')
        /\ cl'[c].up = NoUp
    <3> DEFINE g == Gated(todo', c)
    <3>1. Local(c, cl[c], "error", g, recs, answered)
      BY <1>1, <2>6, LocalGated
    <3> HIDE DEF g
    <3>2. /\ Local(c, cl'[c], "respond", g, recs, answered)
          /\ cl'[c].up = NoUp
      BY ONLY <3>1, <2>4, <2>5, LocalAnswer, c \in Client
    <3> QED BY <3>2, <2>2 DEF g
  <2>8. Owned(cl', us', pool', Owed(todo))
    <3>1. Owned(cl, us, pool, Owed(todo))
      BY DEF Inv
    <3> QED BY <3>1, <2>2, <2>3, <2>4, <2>7, OwnDrop DEF OnlyClient
  <2>9. Others(c)
    BY <2>2, SameHistory
  <2> QED BY <1>1, <2>4, <2>6, <2>7, <2>8, <2>9, StepCalls DEF ClientOps
<1> QED BY <1>3, <1>4


\* finish makes one record: the request is Idle when the close it may make
\* asks.
LEMMA RecordsReply ==
  ASSUME NEW c \in Client, recs \in [Request -> Nat], ~cl[c].sunk, NEW b \in BOOLEAN,
         Local(c, cl[c], At(todo, c), Gated(todo, c), recs, answered),
         Record(c, ~cl[c].sunk, [SinkEmit(cl[c]) EXCEPT !.out = <<>>, !.phase = "Idle"], b)
  PROVE  recs' = Made(recs, c, cl[c].n)
<1> DEFINE k == [SinkEmit(cl[c]) EXCEPT !.out = <<>>, !.phase = "Idle"]
<1>1. ClientShape(cl[c])
  BY DEF Local, ClientSound
<1>2. k.phase = "Idle"
  BY <1>1 DEF SinkEmit, ClientShape
<1>3. ~SinkUnfinished(k) /\ cl[c].n \in Nat
  BY <1>1, <1>2, LifecycleConstants DEF SinkUnfinished, ClientShape
<1> HIDE DEF k
<1>4. Record(c, TRUE, k, b)
  <2>1. ~cl[c].sunk = TRUE
    OBVIOUS
  <2> QED BY <2>1 DEF k
<1> QED BY <1>3, <1>4, RecordsOne

\* respond, and the finish of what it sent.
LEMMA RespondKeeps ==
  ASSUME Inv, NEW c \in Client, Respond(c)
  PROVE  Inv'
<1>1. /\ todo # <<>> /\ StackSound(todo) /\ todo[1][1] # "gate" /\ Alone(todo, c)
      /\ At(todo, c) = "respond"
      /\ Local(c, cl[c], "respond", Gated(todo, c), recs, answered)
  BY RunsClient DEF Respond, ClientOps
<1>2. /\ cl[c].phase # "Streaming" /\ IsSeq(cl[c].out) /\ cl[c].st = "open"
      /\ cl[c].phase = "Replying" => ~cl[c].sunk
      /\ cl[c].phase = "Replying" => cl[c].up = NoUp
  BY <1>1 DEF Local, ClientSound, Mode
<1>3. /\ DOMAIN cl = Client /\ DOMAIN us = Up /\ recs \in [Request -> Nat]
      /\ Owned(cl, us, pool, Owed(todo))
  BY DEF Inv
<1>4. cl[c].up # NoUp => ~us[cl[c].up].paused /\ (us[cl[c].up].st = "connecting" => cl[c].phase = "Dispatched")
  <2>1. cl[c].up # NoUp => Pair(c, cl[c].n, cl[c].phase, cl[c].out, us[cl[c].up])
    BY <1>3, PairOf
  <2> QED BY <1>2, <2>1 DEF Pair
<1>5. CASE Deliver(c, cl[c].out, Len(cl[c].out)) /\ Finish(c)
  <2>1. pool' = pool /\ answered' = answered /\ fin' = fin
    BY <1>5 DEF Finish
  <2>2. CASE cl[c].phase # "Replying"
    <3>1. cl' = [cl EXCEPT ![c].out = <<>>] /\ Return /\ us' = us /\ recs' = recs
      BY <1>5, <2>2 DEF Finish
    <3>2. Leaves(todo, todo') /\ (Gated(todo, c) => Gated(todo', c))
      <4>1. Leaves(todo, todo')
        BY <1>1, <3>1, HeadReturns
      <4> QED BY <4>1 DEF Leaves
    <3>3. OnlyClient(c) /\ cl'[c] = SentAll(cl[c])
      BY <1>3, <3>1 DEF OnlyClient, ButClient, SentAll
    <3>4. /\ Local(c, cl'[c], "none", Gated(todo', c), recs', answered')
          /\ cl'[c].up = cl[c].up /\ cl'[c].n = cl[c].n /\ cl'[c].phase = cl[c].phase
      <4> DEFINE g == Gated(todo', c)
      <4>1. Local(c, cl[c], "respond", g, recs, answered)
        BY <1>1, <3>2, LocalGated
      <4> HIDE DEF g
      <4>2. /\ Local(c, cl'[c], "none", g, recs, answered)
            /\ cl'[c].up = cl[c].up /\ cl'[c].n = cl[c].n /\ cl'[c].phase = cl[c].phase
        BY ONLY <4>1, <2>2, <3>3, LocalSent, c \in Client
      <4> QED BY <4>2, <2>1, <3>1 DEF g
    <3>5. Owned(cl', us', pool', Owed(todo))
      BY <1>3, <1>4, <2>1, <3>1, <3>3, <3>4, OwnSame DEF OnlyClient
    <3>6. Others(c)
      BY <2>1, <3>1, SameHistory
    <3> QED BY <1>1, <3>2, <3>3, <3>4, <3>5, <3>6, StepReturns
  <2>3. CASE cl[c].phase = "Replying" /\ (cl[c].closeAfter \/ cl[c].msg = "close")
    <3>1. cl' = [cl EXCEPT ![c] = Closed(c)] /\ us' = DropUp(c) /\ Return
          /\ recs' = Made(recs, c, cl[c].n)
      BY <1>1, <1>2, <1>3, <1>5, <2>3, RecordsReply DEF Finish
    <3>2. Leaves(todo, todo')
      BY <1>1, <3>1, HeadReturns
    <3>3. DOMAIN us' = Up /\ ButUp(us', us, cl[c].up) /\ (cl[c].up # NoUp => us'[cl[c].up] = NewUp)
      BY <3>1, DropsUp
    <3>4. OnlyClient(c) /\ cl'[c] = Closed(c)
      BY <1>3, <3>1, <3>3 DEF OnlyClient, ButClient
    <3>5. recs' = MadeIf(recs, c, cl[c].n, cl[c].phase)
      BY <2>3, <3>1 DEF MadeIf
    <3>6. cl'[c].up = NoUp
      BY <3>4, ClosedUp
    <3>7. Owned(cl', us', pool', Owed(todo))
      BY <1>3, <2>1, <3>3, <3>4, <3>6, OwnDrop DEF OnlyClient
    <3> QED BY <1>1, <1>2, <2>1, <2>3, <3>2, <3>4, <3>5, <3>7, StepShuts
  <2>4. CASE cl[c].phase = "Replying" /\ ~(cl[c].closeAfter \/ cl[c].msg = "close")
    <3>1. /\ cl' = [cl EXCEPT ![c] = Nexts(cl[c])] /\ us' = us /\ Then(Bytes(c))
          /\ recs' = Made(recs, c, cl[c].n)
      <4>1. Nexts(cl[c]) = [SinkEmit(cl[c]) EXCEPT !.out = <<>>, !.phase = "Idle"]
        BY DEF Nexts, SinkEmit
      <4> QED BY <1>1, <1>2, <1>3, <1>5, <2>4, <4>1, RecordsReply DEF Finish
    <3>2. /\ Goes(todo, todo', c, "frame") /\ todo' # <<>> /\ todo'[1] = <<"frame", c>>
          /\ Gated(todo', c)
      BY <1>1, <3>1, HeadNexts
    <3>3. OnlyClient(c) /\ cl'[c] = Nexts(cl[c])
      BY <1>3, <3>1 DEF OnlyClient, ButClient
    <3>4. recs' = Made(recs, c, cl[c].n)
      BY <3>1
    <3>5. recs \in [Request -> Nat] /\ cl[c].phase = "Replying" /\ ~cl[c].closeAfter
      BY <1>3, <2>4
    <3>6. /\ Local(c, cl'[c], "frame", Gated(todo', c), recs', answered')
          /\ cl'[c].up = cl[c].up /\ Made(recs, c, cl[c].n) \in [Request -> Nat]
          /\ Keeps(Made(recs, c, cl[c].n), recs, c)
      <4>1. Local(c, cl[c], "respond", TRUE, recs, answered)
        BY <1>1, LocalGated
      <4>2. /\ Local(c, cl'[c], "frame", TRUE, Made(recs, c, cl[c].n), answered)
            /\ cl'[c].up = cl[c].up /\ Made(recs, c, cl[c].n) \in [Request -> Nat]
            /\ Keeps(Made(recs, c, cl[c].n), recs, c)
        BY ONLY <4>1, <3>3, <3>5, LocalNext, c \in Client
      <4>3. Local(c, cl'[c], "frame", Gated(todo', c), Made(recs, c, cl[c].n), answered)
        BY <4>2, <3>2, LocalGated
      <4> QED BY <4>2, <4>3, <2>1, <3>4
    <3>7. Owned(cl', us', pool', Owed(todo))
      BY <1>2, <1>3, <2>1, <2>4, <3>1, <3>3, <3>6, OwnSame DEF OnlyClient
    <3>8. Others(c)
      BY <2>1, <3>4, <3>6 DEF Others, Inv
    <3> QED BY <1>1, <3>2, <3>3, <3>6, <3>7, <3>8, StepCalls DEF ClientOps
  <2> QED BY <2>2, <2>3, <2>4
<1>6. ASSUME NEW k \in Written(cl[c].out) \ {Len(cl[c].out)},
             cl' = [cl EXCEPT ![c].out = Unsent(cl[c].out, k)],
             Return, UNCHANGED <<us, pool, asks, recs, answered, fin>>
      PROVE  Inv'
  <2> DEFINE o == Unsent(cl[c].out, k)
  <2>1. IsSeq(o) /\ o # <<>>
    BY <1>2, UnsentIs DEF Written
  <2>2. cl[c].out # <<>>
    BY <1>2 DEF Written, IsSeq
  <2> HIDE DEF o
  <2>3. OnlyClient(c) /\ cl'[c] = SentSome(cl[c], o)
    BY <1>3, <1>6 DEF OnlyClient, ButClient, SentSome, o
  <2>4. Leaves(todo, todo') /\ (Gated(todo, c) => Gated(todo', c))
    <3>1. Leaves(todo, todo')
      BY <1>1, <1>6, HeadReturns
    <3> QED BY <3>1 DEF Leaves
  <2>5. us' = us /\ pool' = pool /\ recs' = recs /\ answered' = answered /\ fin' = fin
    BY <1>6
  <2>6. /\ Local(c, cl'[c], "none", Gated(todo', c), recs', answered')
        /\ cl'[c].up = cl[c].up /\ cl'[c].n = cl[c].n /\ cl'[c].phase = cl[c].phase
    <3> DEFINE g == Gated(todo', c)
    <3>1. Local(c, cl[c], "respond", g, recs, answered)
      BY <1>1, <2>4, LocalGated
    <3> HIDE DEF g
    <3>2. /\ Local(c, cl'[c], "none", g, recs, answered)
          /\ cl'[c].up = cl[c].up /\ cl'[c].n = cl[c].n /\ cl'[c].phase = cl[c].phase
      BY ONLY <3>1, <2>1, <2>2, <2>3, LocalSome, c \in Client
    <3> QED BY <3>2, <2>5 DEF g
  <2>7. Owned(cl', us', pool', Owed(todo))
    BY <1>3, <1>4, <2>3, <2>5, <2>6, OwnSame DEF OnlyClient
  <2>8. Others(c)
    BY <2>5, SameHistory
  <2> QED BY <1>1, <2>3, <2>4, <2>6, <2>7, <2>8, StepReturns
<1>7. CASE MayFail(cl[c].out) /\ CloseClient(c) /\ Return
  <2>1. Leaves(todo, todo')
    BY <1>1, <1>7, HeadReturns
  <2> QED BY <1>1, <1>2, <1>7, <2>1, StepCloses
<1> QED BY <1>5, <1>6, <1>7 DEF Respond


\* An upstream's routine runs for the client it is paired with.
LEMMA RunsPaired ==
  ASSUME Inv, NEW u \in Up, NEW op \in UpOps \ {"upEof"}, Runs(op, u)
  PROVE  /\ us[u].c \in Client /\ cl[us[u].c].up = u /\ u # NoUp /\ UpSound(us[u], u \in Owed(todo))
         /\ Pair(us[u].c, cl[us[u].c].n, cl[us[u].c].phase, cl[us[u].c].out, us[u])
         /\ op \in {"pump", "pumpEof"} => cl[us[u].c].phase = "Streaming"
<1>1. todo # <<>> /\ todo[1] = <<op, u>>
  BY RunsUp
<1>2. Owned(cl, us, pool, Owed(todo)) /\ HeadFit(cl, us, todo)
  BY DEF Inv
<1>3. us[u].c # NoClient /\ (op \in {"pump", "pumpEof"} => cl[us[u].c].phase = "Streaming")
  BY <1>1, <1>2 DEF HeadFit
<1>4. UpSound(us[u], u \in Owed(todo)) /\ Pairs(cl, us)
  BY <1>2 DEF Owned
<1>5. us[u].c \in Client
  BY <1>3, <1>4 DEF UpSound, UpShape
<1>6. cl[us[u].c].up = u /\ u # NoUp
  BY <1>3, <1>4, NoUpOut DEF Pairs
<1>7. Pair(us[u].c, cl[us[u].c].n, cl[us[u].c].phase, cl[us[u].c].out, us[u])
  BY <1>4, <1>5, <1>6 DEF Pairs
<1> QED BY <1>3, <1>4, <1>5, <1>6, <1>7

\* send_upstream.
LEMMA SendUpstreamKeeps ==
  ASSUME Inv, NEW u \in Up, SendUpstream(u)
  PROVE  Inv'
<1> DEFINE c == us[u].c
<1>1. /\ todo # <<>> /\ StackSound(todo) /\ todo[1] = <<"send", u>> /\ todo[1][1] # "gate"
      /\ \A d \in Client : Alone(todo, d) /\ Local(d, cl[d], "none", Gated(todo, d), recs, answered)
  BY RunsUp DEF SendUpstream, UpOps
<1>2. /\ c \in Client /\ cl[c].up = u /\ u # NoUp /\ UpSound(us[u], u \in Owed(todo))
      /\ Pair(c, cl[c].n, cl[c].phase, cl[c].out, us[u])
  BY RunsPaired DEF SendUpstream, UpOps
<1>3. DOMAIN us = Up /\ Owned(cl, us, pool, Owed(todo))
  BY DEF Inv
<1> HIDE DEF c
<1>4. cl' = cl /\ pool' = pool /\ recs' = recs /\ answered' = answered /\ fin' = fin
  BY DEF SendUpstream, hist
<1>5. ASSUME NEW q \in {"all", "part"}, us' = [us EXCEPT ![u].wire = q], Return
      PROVE  Inv'
  <2>1. Leaves(todo, todo')
    BY <1>1, <1>5, HeadReturns
  <2>2. UpShape(us'[u]) /\ us'[u].st = us[u].st /\ us'[u].rbuf = us[u].rbuf /\ us'[u].c = us[u].c
        /\ us'[u].paused = us[u].paused /\ us'[u].eof = us[u].eof /\ us'[u].ask = us[u].ask
    BY <1>2, <1>3, <1>5 DEF UpSound, UpShape
  <2>3. UpSound(us'[u], u \in Owed(todo)) /\ Pair(c, cl[c].n, cl[c].phase, cl[c].out, us'[u])
    BY <1>2, <2>2 DEF UpSound, Pair
  <2>4. OnlyClient(c) /\ ButUp(us', us, u) /\ Others(c)
    BY <1>2, <1>3, <1>4, <1>5, SameHistory DEF OnlyClient, ButClient, ButUp, Inv
  <2>5. Owned(cl', us', pool', Owed(todo))
    BY <1>2, <1>3, <1>4, <2>3, <2>4, OwnKeep DEF OnlyClient
  <2>6. Local(c, cl'[c], "none", Gated(todo', c), recs', answered')
    BY <1>1, <1>2, <1>4, <2>1, LocalGated DEF Leaves
  <2> QED BY <1>1, <1>2, <2>1, <2>4, <2>5, <2>6, StepReturns
<1>6. CASE Then(<<<<"lost", u>>>>) /\ us' = us
  <2>1. /\ Goes(todo, todo', c, "none") /\ todo' # <<>> /\ todo'[1] = <<"lost", u>>
        /\ (Gated(todo, c) => Gated(todo', c))
    BY <1>1, <1>2, <1>6, HeadCallsUp DEF UpOps
  <2>2. Local(c, cl'[c], "none", Gated(todo', c), recs', answered')
    BY <1>1, <1>2, <1>4, <2>1, LocalGated
  <2>3. OnlyClient(c) /\ Others(c) /\ Owned(cl', us', pool', Owed(todo)) /\ us'[u].c # NoClient
    BY <1>2, <1>3, <1>4, <1>6, SameHistory, NoUpOut DEF OnlyClient, ButClient, Inv, Pair
  <2> QED BY <1>1, <1>2, <2>1, <2>2, <2>3, StepCallsUp DEF UpOps
<1> QED BY <1>5, <1>6 DEF SendUpstream

\* fail_request.
LEMMA FailedKeeps ==
  ASSUME Inv, NEW c \in Client, Failed(c)
  PROVE  Inv'
<1>1. /\ todo # <<>> /\ StackSound(todo) /\ todo[1][1] # "gate" /\ Alone(todo, c)
      /\ At(todo, c) = "failed"
      /\ Local(c, cl[c], "failed", Gated(todo, c), recs, answered)
  BY RunsClient DEF Failed, ClientOps
<1>2. pool' = pool /\ recs' = recs /\ answered' = answered /\ fin' = fin
  BY DEF Failed, hist
<1>3. DOMAIN cl = Client /\ DOMAIN us = Up /\ Owned(cl, us, pool, Owed(todo))
  BY DEF Inv
<1>4. ASSUME NEW v \in Venue, MayFailOver(c), us' = DropUp(c), Then(<<<<"dispatch", c>>>>),
             cl' = [cl EXCEPT ![c].up = NoUp, ![c].attempts = @ + 1, ![c].slot = v,
                              ![c].rbuf = <<cl[c].saved>> \o @]
      PROVE  Inv'
  <2>1. DOMAIN us' = Up /\ ButUp(us', us, cl[c].up) /\ (cl[c].up # NoUp => us'[cl[c].up] = NewUp)
    BY <1>4, DropsUp
  <2>2. OnlyClient(c) /\ cl'[c] = FailedOver(cl[c], v)
    BY <1>3, <1>4, <2>1 DEF OnlyClient, ButClient, FailedOver
  <2>3. cl[c].phase = "Dispatched" /\ cl[c].saved # 0 /\ cl[c].attempts < MaxAttempts - 1
    BY <1>4 DEF MayFailOver, CanRedispatch
  <2>4. /\ Goes(todo, todo', c, "dispatch") /\ todo' # <<>> /\ todo'[1] = <<"dispatch", c>>
        /\ (Gated(todo, c) => Gated(todo', c))
    BY <1>1, <1>4, HeadCalls DEF ClientOps
  <2>5. /\ Local(c, cl'[c], "dispatch", Gated(todo', c), recs', answered')
        /\ cl'[c].up = NoUp
    <3> DEFINE g == Gated(todo', c)
    <3>1. Local(c, cl[c], "failed", g, recs, answered)
      BY <1>1, <2>4, LocalGated
    <3> HIDE DEF g
    <3>2. /\ Local(c, cl'[c], "dispatch", g, recs, answered)
          /\ cl'[c].up = NoUp
      BY ONLY <3>1, <2>2, <2>3, LocalFailsOver, c \in Client, v \in Venue
    <3> QED BY <3>2, <1>2 DEF g
  <2>6. Owned(cl', us', pool', Owed(todo))
    BY <1>2, <1>3, <2>1, <2>2, <2>5, OwnDrop DEF OnlyClient
  <2>7. Others(c)
    BY <1>2, SameHistory
  <2> QED BY <1>1, <2>2, <2>4, <2>5, <2>6, <2>7, StepCalls DEF ClientOps
<1>5. CASE Then(<<<<"error", c>>>>) /\ cl' = cl /\ us' = us
  <2>1. /\ Goes(todo, todo', c, "error") /\ todo' # <<>> /\ todo'[1] = <<"error", c>>
        /\ (Gated(todo, c) => Gated(todo', c))
    BY <1>1, <1>5, HeadCalls DEF ClientOps
  <2>2. Local(c, cl'[c], "error", Gated(todo', c), recs', answered')
    <3> DEFINE g == Gated(todo', c)
    <3>1. Local(c, cl[c], "failed", g, recs, answered)
      BY <1>1, <2>1, LocalGated
    <3> HIDE DEF g
    <3>2. Local(c, cl'[c], "error", g, recs, answered)
      BY ONLY <3>1, <1>5, LocalGivesUp, c \in Client
    <3> QED BY <3>2, <1>2 DEF g
  <2>3. OnlyClient(c) /\ Others(c) /\ Owned(cl', us', pool', Owed(todo))
    BY <1>2, <1>3, <1>5, SameHistory DEF OnlyClient, ButClient
  <2> QED BY <1>1, <2>1, <2>2, <2>3, StepCalls DEF ClientOps
<1> QED BY <1>4, <1>5 DEF Failed


\* A connection just begun.
Connecting(v, c, r, a) ==
  [st |-> "connecting", venue |-> v, c |-> c, fromPool |-> FALSE, retried |-> r,
   eof |-> FALSE, rbuf |-> <<>>, paused |-> FALSE, ask |-> a, wire |-> "none",
   ans |-> "none", toks |-> 0, extra |-> FALSE]

\* upstream_lost.
LEMMA UpstreamLostKeeps ==
  ASSUME Inv, NEW u \in Up, UpstreamLost(u)
  PROVE  Inv'
<1> DEFINE c == us[u].c
           w == Fresh
<1>1. /\ todo # <<>> /\ StackSound(todo) /\ todo[1] = <<"lost", u>> /\ todo[1][1] # "gate"
      /\ \A d \in Client : Alone(todo, d) /\ Local(d, cl[d], "none", Gated(todo, d), recs, answered)
  BY RunsUp DEF UpstreamLost, UpOps
<1>2. /\ c \in Client /\ cl[c].up = u /\ u # NoUp /\ UpSound(us[u], u \in Owed(todo))
      /\ Pair(c, cl[c].n, cl[c].phase, cl[c].out, us[u])
  BY RunsPaired DEF UpstreamLost, UpOps
<1>3. DOMAIN cl = Client /\ DOMAIN us = Up /\ Owned(cl, us, pool, Owed(todo))
  BY DEF Inv
<1>4. Local(c, cl[c], "none", Gated(todo, c), recs, answered) /\ Alone(todo, c) /\ c # NoClient
  BY <1>1, <1>2, NoUpOut
<1>5. /\ w \in Up /\ us[w].st = "free" /\ w \notin Owed(todo)
  <2>1. todo[1][2] = u /\ us[u].st # "free"
    BY <1>1, <1>2 DEF Pair
  <2>2. w \in Up /\ us[w].st = "free" /\ \A i \in 1..Len(todo) : todo[i][2] # w
    BY <1>1, <1>3, <2>1, FreshFree
  <2>3. \A i \in 2..Len(todo) : i \in 1..Len(todo)
    BY <1>1 DEF StackSound
  <2>4. \A i \in 2..Len(todo) : todo[i] # <<"upEof", w>>
    BY <2>2, <2>3
  <2> QED BY <2>2, <2>4 DEF Owed
<1>6. CASE /\ MayRetry(u)
           /\ us' = [us EXCEPT ![u] = NewUp,
                               ![w] = [NewUp EXCEPT !.st = "connecting", !.venue = us[u].venue,
                                                    !.c = c, !.retried = TRUE, !.ask = us[u].ask]]
           /\ cl' = [cl EXCEPT ![c].up = w]
           /\ Return
           /\ UNCHANGED <<pool, rx, recs, answered, fin>>
  <2> DEFINE m1 == [cl EXCEPT ![c].up = NoUp]
             w1 == [us EXCEPT ![u] = NewUp]
  <2>a. PICK y : y = [NewUp EXCEPT !.st = "connecting", !.venue = us[u].venue,
                                   !.c = c, !.retried = TRUE, !.ask = us[u].ask]
    OBVIOUS
  <2>1. cl[c].phase = "Dispatched"
    BY <1>6 DEF MayRetry, CanRedispatch
  <2>2. ButClient(m1, cl, c) /\ ButUp(w1, us, cl[c].up) /\ m1[c].up = NoUp /\ w1[cl[c].up] = NewUp
    <3>1. cl[c] = [cl[c] EXCEPT !.up = cl[c].up] /\ ClientShape(cl[c])
      BY <1>4 DEF Local, ClientSound, ClientShape
    <3> QED BY <1>2, <1>3, <3>1 DEF ButClient, ButUp, ClientShape
  <2>3. Owned(m1, w1, pool, Owed(todo))
    <3> HIDE DEF m1, w1
    <3> QED BY <1>2, <1>3, <2>2, OwnDrop
  <2>4. w # u /\ us'[w] = y /\ ButUp(us', w1, w) /\ DOMAIN us' = Up
    BY <1>2, <1>3, <1>5, <1>6, <2>a DEF ButUp, Pair
  <2>5. w1[w].st = "free"
    BY <1>3, <1>5, <2>4
  <2>6. OnlyClient(c) /\ cl'[c] = Moved(cl[c], w)
    BY <1>2, <1>3, <1>6, <2>4 DEF OnlyClient, ButClient, Moved
  <2>7. ButClient(cl', m1, c)
    BY <1>2, <1>3, <1>6 DEF ButClient
  <2>8. /\ us[u].venue \in Venue /\ us[u].ask = <<c, cl[c].n>>
    BY <1>2 DEF UpSound, UpShape, Pair
  <2>9. UpSound(y, FALSE) /\ y.c = c /\ y.st = "connecting" /\ y.ask = <<c, cl[c].n>> /\ ~y.paused
    <3>1. y = Connecting(us[u].venue, c, TRUE, us[u].ask)
      <4> HIDE DEF c
      <4> QED BY <2>a DEF NewUp, Connecting
    <3> HIDE DEF c
    <3> QED BY ONLY <1>2, <2>8, <3>1, EmptyIs DEF UpSound, UpShape, Connecting
  <2>10. Leaves(todo, todo') /\ (Gated(todo, c) => Gated(todo', c))
    <3>1. Leaves(todo, todo')
      BY <1>1, <1>6, HeadReturns
    <3> QED BY <1>2, <3>1 DEF Leaves
  <2> HIDE DEF m1, w1, w, c
  <2>11. cl[c].up # NoUp
    BY <1>2
  <2>12. /\ Local(c, cl'[c], "none", Gated(todo', c), recs', answered')
        /\ cl'[c].up = w /\ cl'[c].n = cl[c].n /\ cl'[c].phase = cl[c].phase
    <3> DEFINE g == Gated(todo', c)
    <3>1. Local(c, cl[c], "none", g, recs, answered)
      BY <1>4, <2>10, LocalGated
    <3> HIDE DEF g
    <3>2. /\ Local(c, cl'[c], "none", g, recs, answered)
          /\ cl'[c].up = w /\ cl'[c].n = cl[c].n /\ cl'[c].phase = cl[c].phase
      BY ONLY <3>1, <2>6, <2>11, LocalRetried, <1>2, <1>5
    <3> QED BY <3>2, <1>6 DEF g
  <2>13. Pair(c, cl'[c].n, cl'[c].phase, cl'[c].out, us'[w])
    BY <2>1, <2>4, <2>9, <2>12 DEF Pair
  <2>14. Owned(cl', us', pool', Owed(todo))
    <3>1. UpSound(us'[w], FALSE) /\ pool' = pool
      BY <1>6, <2>4, <2>9
    <3> QED BY ONLY <1>2, <1>5, <2>2, <2>3, <2>4, <2>5, <2>7, <2>12, <2>13, <3>1, OwnFresh
  <2>15. Others(c)
    BY <1>2, <1>6, SameHistory
  <2> QED BY <1>2, <1>4, <2>6, <2>10, <2>12, <2>14, <2>15, StepReturns
<1>7. ASSUME NEW op \in {"error", "failed"}, Then(<<<<op, c>>>>), UNCHANGED <<cl, us, pool, hist>>
      PROVE  Inv'
  <2>1. cl' = cl /\ us' = us /\ pool' = pool /\ recs' = recs /\ answered' = answered /\ fin' = fin
    BY <1>7 DEF hist
  <2>2. /\ Goes(todo, todo', c, op) /\ todo' # <<>> /\ todo'[1] = <<op, c>>
        /\ (Gated(todo, c) => Gated(todo', c))
    BY <1>1, <1>2, <1>7, HeadCalls DEF ClientOps
  <2> HIDE DEF c
  <2>3. cl[c].up # NoUp
    BY <1>2
  <2>4. Local(c, cl'[c], op, Gated(todo', c), recs', answered')
    <3> DEFINE g == Gated(todo', c)
    <3>1. Local(c, cl[c], "none", g, recs, answered)
      BY <1>4, <2>2, LocalGated
    <3> HIDE DEF g
    <3>2. Local(c, cl'[c], op, g, recs, answered)
      BY ONLY <3>1, <2>1, <2>3, <1>2, LocalTold, op \in {"error", "failed"}
    <3> QED BY <3>2, <2>1 DEF g
  <2>5. OnlyClient(c) /\ Others(c) /\ Owned(cl', us', pool', Owed(todo))
    BY <1>2, <1>3, <2>1, SameHistory DEF OnlyClient, ButClient
  <2> QED BY <1>2, <1>4, <2>2, <2>4, <2>5, StepCalls DEF ClientOps
<1> QED BY <1>4, <1>6, <1>7 DEF UpstreamLost


\* dispatch onto a connection.
LEMMA DispatchKeeps ==
  ASSUME Inv, NEW c \in Client, Dispatch(c)
  PROVE  Inv'
<1> DEFINE v == cl[c].slot
           r == <<c, Head(cl[c].rbuf)>>
           s == IF cl[c].saved # 0 \/ ~Policy \/ Cardinality(Venue) < 2 THEN cl[c].saved ELSE Head(cl[c].rbuf)
<1>1. /\ todo # <<>> /\ StackSound(todo) /\ todo[1][1] # "gate" /\ Alone(todo, c)
      /\ At(todo, c) = "dispatch"
      /\ Local(c, cl[c], "dispatch", Gated(todo, c), recs, answered)
  BY RunsClient DEF Dispatch, ClientOps
<1>2. DOMAIN cl = Client /\ DOMAIN us = Up /\ Owned(cl, us, pool, Owed(todo))
  BY DEF Inv
<1>3. /\ cl[c].up = NoUp /\ v \in Venue /\ c # NoClient /\ s \in {cl[c].saved, Head(cl[c].rbuf)}
      /\ Head(cl[c].rbuf) = cl[c].n
  <2>1. /\ cl[c].up = NoUp /\ v \in Venue /\ cl[c].st = "open" /\ cl[c].sent \in Nat
        /\ cl[c].n \in Nat
        /\ cl[c].n <= cl[c].sent
    BY <1>1 DEF Local, ClientSound, Mode, ClientShape, Pipe
  <2>2. UpTo(cl[c].rbuf, cl[c].sent) /\ Len(cl[c].rbuf) = cl[c].sent - cl[c].n + 1
    BY <1>1, <2>1 DEF Local, ClientSound, Pipe
  <2>3. Head(cl[c].rbuf) = cl[c].n
    <3>1. cl[c].rbuf # <<>>
      BY <2>1, <2>2
    <3>2. Head(cl[c].rbuf) = cl[c].sent - Len(cl[c].rbuf) + 1
      BY <2>1, <2>2, <3>1, UpToTail
    <3> QED BY <2>1, <2>2, <3>2
  <2> QED BY <2>1, <2>3, NoUpOut
<1>4. recs' = recs /\ answered' = answered /\ fin' = fin
  BY DEF Dispatch
<1>5. ASSUME NEW u \in Up,
             cl' = [cl EXCEPT ![c] = [TakeRequest(@) EXCEPT !.phase = "Dispatched", !.up = u,
                                                                       !.framed = TRUE]],
             DOMAIN us' = Up, Gated(todo, c) => Gated(todo', c)
      PROVE  /\ OnlyClient(c) /\ Local(c, cl'[c], "none", Gated(todo', c), recs', answered')
             /\ cl'[c].up = u /\ cl'[c].n = cl[c].n /\ cl'[c].phase = "Dispatched"
  <2>1. OnlyClient(c) /\ cl'[c] = SentOff(cl[c], s, u)
    BY <1>1, <1>2, <1>5 DEF OnlyClient, ButClient, SentOff, TakeRequest
  <2> HIDE DEF s
  <2>2. /\ Local(c, cl'[c], "none", Gated(todo', c), recs', answered')
        /\ cl'[c].up = u /\ cl'[c].n = cl[c].n /\ cl'[c].phase = "Dispatched"
    <3> DEFINE g == Gated(todo', c)
    <3>1. Local(c, cl[c], "dispatch", g, recs, answered)
      BY <1>1, <1>5, LocalGated
    <3> HIDE DEF g
    <3>2. /\ Local(c, cl'[c], "none", g, recs, answered)
          /\ cl'[c].up = u /\ cl'[c].n = cl[c].n /\ cl'[c].phase = "Dispatched"
      BY ONLY <3>1, <2>1, <1>3, LocalDispatched, c \in Client, u \in Up
    <3> QED BY <3>2, <1>4 DEF g
  <2> QED BY <2>1, <2>2
<1>6. CASE pool[v] # <<>>
  <2> DEFINE u == Head(pool[v])
  <2>1. PICK y : y = [us[u] EXCEPT !.st = "open", !.venue = v, !.c = c, !.fromPool = TRUE,
                                   !.retried = FALSE,
                                   !.ask = r, !.wire = "none", !.ans = "none", !.toks = 0, !.extra = FALSE]
    OBVIOUS
  <2>2. /\ cl' = [cl EXCEPT ![c] = [TakeRequest(@) EXCEPT !.phase = "Dispatched", !.up = u,
                                                          !.framed = TRUE]]
        /\ us' = [us EXCEPT ![u] = y] /\ pool' = [pool EXCEPT ![v] = Tail(@)]
        /\ Then(<<<<"send", u>>>>)
    BY <1>6, <2>1 DEF Dispatch
  <2>3. u \in Up /\ UpSound(us[u], u \in Owed(todo)) /\ Fit(us[u], v)
    <3>1. pool[v] \in Seq(Up) /\ (\A i \in 1..Len(pool[v]) : Fit(us[pool[v][i]], v))
          /\ \A x \in Up : UpSound(us[x], x \in Owed(todo))
      BY <1>2, <1>3 DEF Owned, PoolSound
    <3> HIDE DEF v
    <3>2. u \in Up /\ u = pool[v][1] /\ 1 \in 1..Len(pool[v])
      BY <1>6, <3>1
    <3> QED BY <3>1, <3>2
  <2> HIDE DEF u, v
  <2>4. y = [st |-> "open", venue |-> v, c |-> c, fromPool |-> TRUE, retried |-> FALSE,
             eof |-> us[u].eof, rbuf |-> us[u].rbuf, paused |-> us[u].paused, ask |-> r,
             wire |-> "none", ans |-> "none", toks |-> 0, extra |-> FALSE]
    BY <2>1, <2>3 DEF UpSound, UpShape
  <2>5. UpSound(y, FALSE) /\ Pair(c, cl[c].n, "Dispatched", cl'[c].out, y)
    BY <1>3, <2>3, <2>4, EmptyIs DEF UpSound, UpShape, Pair, Fit
  <2>6. ButUp(us', us, u) /\ us'[u] = y /\ DOMAIN us' = Up
    BY <1>2, <2>2, <2>3 DEF ButUp
  <2>7. /\ Goes(todo, todo', c, "none") /\ todo' # <<>> /\ todo'[1] = <<"send", u>>
        /\ (Gated(todo, c) => Gated(todo', c))
    BY <1>1, <2>2, <2>3, HeadCallsUp DEF UpOps
  <2>8. /\ OnlyClient(c) /\ Local(c, cl'[c], "none", Gated(todo', c), recs', answered')
        /\ cl'[c].up = u /\ cl'[c].n = cl[c].n /\ cl'[c].phase = "Dispatched"
    BY <1>5, <2>2, <2>3, <2>6, <2>7
  <2>9. Owned(cl', us', pool', Owed(todo))
    <3>1. Pair(c, cl'[c].n, cl'[c].phase, cl'[c].out, us'[u]) /\ UpSound(us'[u], FALSE)
      BY <2>5, <2>6, <2>8
    <3>2. ButClient(cl', cl, c) /\ u = Head(pool[v])
      BY <2>8 DEF OnlyClient, u
    <3>3. Owned(cl', us', [pool EXCEPT ![v] = Tail(@)], Owed(todo))
      BY ONLY <1>2, <1>3, <1>6, <2>6, <2>8, <3>1, <3>2, OwnReuse, c \in Client
    <3> QED BY <2>2, <3>3
  <2>10. Others(c) /\ us'[u].c # NoClient
    BY <1>3, <1>4, <2>4, <2>6, SameHistory
  <2> QED BY <1>1, <2>3, <2>7, <2>8, <2>9, <2>10, StepCallsUp DEF UpOps
<1>7. CASE pool[v] = <<>>
  <2> DEFINE u == Fresh
  <2>1. PICK y : y = [NewUp EXCEPT !.st = "connecting", !.venue = v, !.c = c, !.fromPool = FALSE,
                                   !.retried = FALSE,
                                   !.ask = r, !.wire = "none", !.ans = "none", !.toks = 0, !.extra = FALSE]
    OBVIOUS
  <2>2. /\ cl' = [cl EXCEPT ![c] = [TakeRequest(@) EXCEPT !.phase = "Dispatched", !.up = u,
                                                          !.framed = TRUE]]
        /\ us' = [us EXCEPT ![u] = y] /\ pool' = pool /\ Return
    BY <1>7, <2>1 DEF Dispatch
  <2>3. u \in Up /\ us[u].st = "free" /\ u \notin Owed(todo)
    <3>1. todo[1][2] \notin Up
      <4>1. todo[1] = <<"dispatch", c>>
        BY RunsClient DEF Dispatch, ClientOps
      <4> QED BY <4>1, Apart
    <3>2. u \in Up /\ us[u].st = "free" /\ \A i \in 1..Len(todo) : todo[i][2] # u
      BY <1>1, <1>2, <3>1, FreshFree
    <3>3. \A i \in 2..Len(todo) : i \in 1..Len(todo)
      BY <1>1 DEF StackSound
    <3>4. \A i \in 2..Len(todo) : todo[i] # <<"upEof", u>>
      BY <3>2, <3>3
    <3> QED BY <3>2, <3>4 DEF Owed
  <2> HIDE DEF u, v
  <2>4. y = Connecting(v, c, FALSE, r)
    BY <2>1 DEF NewUp, Connecting
  <2>5. UpSound(y, FALSE) /\ Pair(c, cl[c].n, "Dispatched", cl'[c].out, y)
    BY <1>3, <2>4, EmptyIs DEF UpSound, UpShape, Pair, Connecting
  <2>6. ButUp(us', us, u) /\ us'[u] = y /\ DOMAIN us' = Up
    BY <1>2, <2>2, <2>3 DEF ButUp
  <2>7. Leaves(todo, todo') /\ (Gated(todo, c) => Gated(todo', c))
    <3>1. Leaves(todo, todo')
      BY <1>1, <2>2, HeadReturns
    <3> QED BY <3>1 DEF Leaves
  <2>8. /\ OnlyClient(c) /\ Local(c, cl'[c], "none", Gated(todo', c), recs', answered')
        /\ cl'[c].up = u /\ cl'[c].n = cl[c].n /\ cl'[c].phase = "Dispatched"
    BY <1>5, <2>2, <2>3, <2>6, <2>7
  <2>9. Owned(cl', us', pool', Owed(todo))
    <3>1. Pair(c, cl'[c].n, cl'[c].phase, cl'[c].out, us'[u]) /\ UpSound(us'[u], FALSE)
      BY <2>5, <2>6, <2>8
    <3>2. ButClient(cl', cl, c) /\ pool' = pool
      BY <2>2, <2>8 DEF OnlyClient
    <3> QED BY ONLY <1>2, <1>3, <2>3, <2>6, <2>8, <3>1, <3>2, OwnFresh, c \in Client
  <2>10. Others(c)
    BY <1>4, SameHistory
  <2> QED BY <1>1, <2>7, <2>8, <2>9, <2>10, StepReturns
<1> QED BY <1>6, <1>7


\* The pool's count is that of the connections no client has.
LEMMA CountIs ==
  ASSUME NEW O, Owned(cl, us, pool, O)
  PROVE  /\ {x \in Up : Pooled(x)} = {x \in Up : Unpaired(us[x])}
         /\ \A x \in Up : Pooled(x) <=> Unpaired(us[x])
<1>1. PoolSound(us, pool) /\ \A x \in Up : UpSound(us[x], x \in O)
  BY DEF Owned
<1>2. \A v \in Venue : pool[v] \in Seq(Up) /\ \A i \in 1..Len(pool[v]) : Fit(us[pool[v][i]], v)
  BY <1>1 DEF PoolSound
<1>3. ASSUME NEW x \in Up, Pooled(x) PROVE Unpaired(us[x])
  <2>1. PICK v \in Venue : Holds(pool[v], x)
    BY <1>2, <1>3, RangeHolds DEF Pooled
  <2> QED BY <1>2, <2>1 DEF Holds, Fit, Unpaired
<1>4. ASSUME NEW x \in Up, Unpaired(us[x]) PROVE Pooled(x)
  <2>1. us[x].venue \in Venue
    BY <1>1 DEF UpSound, UpShape
  <2>2. Holds(pool[us[x].venue], x)
    BY <1>1, <1>4 DEF PoolSound, Holds
  <2> QED BY <1>2, <2>1, <2>2, RangeHolds DEF Pooled
<1> QED BY <1>3, <1>4

\* release_upstream.
LEMMA Released ==
  ASSUME Inv, NEW c \in Client, NEW u \in Up, u = cl[c].up, us[u].st = "open",
         NEW left, NEW b, NEW e, ReleaseUp(u, left, b, e), ButClient(cl', cl, c), cl'[c].up = NoUp
  PROVE  Owned(cl', us', pool', Owed(todo)) /\ DOMAIN us' = Up
<1>1. Owned(cl, us, pool, Owed(todo)) /\ DOMAIN us = Up
  BY DEF Inv
<1>2. UpSound(us[u], u \in Owed(todo))
  BY <1>1 DEF Owned
<1>3. CASE left = <<>> /\ Poolable(u, b, e)
  <2>1. /\ us' = [us EXCEPT ![u].c = NoClient, ![u].rbuf = <<>>, ![u].paused = FALSE]
        /\ pool' = [pool EXCEPT ![us[u].venue] = <<u>> \o @]
    BY <1>3 DEF ReleaseUp
  <2>2. ~us[u].eof /\ us[u].wire = "all" /\ Cardinality({x \in Up : Unpaired(us[x])}) < PoolCap
    BY <1>1, <1>3, CountIs DEF Poolable, Count
  <2>3. /\ DOMAIN us' = Up /\ ButUp(us', us, u) /\ us[u].venue \in Venue
        /\ us'[u] = [us[u] EXCEPT !.c = NoClient, !.rbuf = <<>>, !.paused = FALSE]
    BY <1>1, <1>2, <2>1 DEF ButUp, UpSound, UpShape
  <2>4. us'[u] = [st |-> us[u].st, venue |-> us[u].venue, c |-> NoClient, fromPool |-> us[u].fromPool,
                  retried |-> us[u].retried, eof |-> us[u].eof, rbuf |-> <<>>, paused |-> FALSE,
                  ask |-> us[u].ask, wire |-> us[u].wire, ans |-> us[u].ans, toks |-> us[u].toks,
                  extra |-> us[u].extra]
    BY <1>2, <2>3 DEF UpSound, UpShape
  <2>5. UpShape(us'[u]) /\ Fit(us'[u], us[u].venue)
    BY <1>2, <2>2, <2>4 DEF UpSound, UpShape, Fit
  <2>6. PICK v \in Venue : v = us[u].venue
    BY <2>3
  <2>7. u = cl[c].up /\ ButClient(cl', cl, c) /\ cl'[c].up = NoUp /\ Fit(us'[u], v)
    BY <2>5, <2>6
  <2>8. Owned(cl', us', [pool EXCEPT ![v] = <<u>> \o @], Owed(todo))
    BY ONLY <1>1, <2>2, <2>3, <2>5, <2>7, OwnPool, c \in Client, u \in Up, v \in Venue
  <2> QED BY <2>1, <2>3, <2>6, <2>8
<1>4. CASE ~(left = <<>> /\ Poolable(u, b, e))
  <2>1. us' = FreeUp(u) /\ pool' = pool
    BY <1>4 DEF ReleaseUp
  <2>2. DOMAIN us' = Up /\ ButUp(us', us, cl[c].up) /\ us'[cl[c].up] = NewUp
    BY <1>1, <2>1 DEF FreeUp, ButUp
  <2> QED BY <1>1, <2>1, <2>2, OwnDrop
<1> QED BY <1>3, <1>4

\* A step that concerns no client.
LEMMA StepIdle ==
  ASSUME Inv, cl' = cl, recs' = recs, answered' = answered, fin' = fin, DOMAIN us' = Up,
         \A c \in Client : At(todo, c) = "none", Leaves(todo, todo'), Owned(cl, us', pool', Owed(todo))
  PROVE  Inv'
<1>1. /\ HeadFit(cl, us', todo') /\ Owned(cl, us', pool', Owed(todo')) /\ StackSound(todo')
      /\ \A c \in Client : At(todo', c) = "none" /\ (Gated(todo, c) => Gated(todo', c))
  BY RestFit
<1>2. ASSUME NEW c \in Client PROVE Local(c, cl'[c], At(todo', c), Gated(todo', c), recs',
                                          answered')
  <2>1. Local(c, cl[c], "none", Gated(todo, c), recs, answered)
    BY DEF Inv
  <2>2. Local(c, cl[c], "none", Gated(todo', c), recs, answered)
    BY <2>1, <1>1, LocalGated
  <2> QED BY <2>2, <1>1
<1> QED BY <1>1, <1>2 DEF Inv

\* on_response.
LEMMA OnResponseKeeps ==
  ASSUME Inv, NEW u \in Up, Runs("upBytes", u), ~cl[us[u].c].streaming, NEW len, OnResponse(u, len)
  PROVE  Inv'
<1> DEFINE c == us[u].c
<1>1. /\ todo # <<>> /\ StackSound(todo) /\ todo[1] = <<"upBytes", u>> /\ todo[1][1] # "gate"
      /\ \A d \in Client : Alone(todo, d) /\ Local(d, cl[d], "none", Gated(todo, d), recs, answered)
  BY RunsUp DEF UpOps
<1>2. /\ c \in Client /\ cl[c].up = u /\ u # NoUp /\ UpSound(us[u], u \in Owed(todo))
      /\ Pair(c, cl[c].n, cl[c].phase, cl[c].out, us[u])
  BY RunsPaired DEF UpOps
<1>3. us[u].st = "open" /\ DOMAIN cl = Client
  BY <1>1 DEF Inv, HeadFit
<1>4. /\ Local(c, cl[c], "none", Gated(todo, c), recs, answered) /\ Alone(todo, c)
      /\ ~cl[c].streaming
      /\ cl[c].up # NoUp
  BY <1>1, <1>2
<1>5. cl[c].phase \in {"Dispatched", "Responding"} /\ IsSeq(cl[c].out)
  BY <1>4 DEF Local, ClientSound, Mode, ClientShape, Phases
<1>6. recs' = recs /\ answered' = answered /\ fin' = fin
  BY DEF OnResponse, hist
<1>7. PICK b \in BOOLEAN : ReleaseUp(u, Unsent(us[u].rbuf, len), b, TRUE)
  BY DEF OnResponse
<1>8. ASSUME NEW op \in {"respond", "error"}, ButClient(cl', cl, c), DOMAIN cl' = Client,
             cl'[c].up = NoUp,
             Goes(todo, todo', c, op), todo' # <<>>, todo'[1] = <<op, c>>,
             Local(c, cl'[c], op, Gated(todo', c), recs', answered')
      PROVE  Inv'
  <2> HIDE DEF c
  <2>1. Owned(cl', us', pool', Owed(todo)) /\ DOMAIN us' = Up
    BY <1>2, <1>3, <1>7, <1>8, Released
  <2>2. OnlyClient(c) /\ Others(c)
    BY <1>2, <1>6, <1>8, <2>1, SameHistory DEF OnlyClient
  <2> QED BY <1>2, <1>4, <1>8, <2>1, <2>2, StepCalls DEF ClientOps
<1>9. CASE /\ cl' = [cl EXCEPT ![c].up = NoUp, ![c].phase = "Replying",
                               ![c].out = Append(@, [r |-> Head(us[u].rbuf).r, k |-> "w"])]
           /\ Then(<<<<"respond", c>>>>)
  <2> DEFINE o == Append(cl[c].out, [r |-> Head(us[u].rbuf).r, k |-> "w"])
  <2>1. IsSeq(o) /\ o # <<>>
    BY <1>5, AppendIs
  <2>2. ButClient(cl', cl, c) /\ DOMAIN cl' = Client /\ cl'[c] = Replies(cl[c], o)
    BY <1>2, <1>3, <1>9 DEF ButClient, Replies
  <2> HIDE DEF o, c
  <2>3. /\ Goes(todo, todo', c, "respond") /\ todo' # <<>> /\ todo'[1] = <<"respond", c>>
        /\ (Gated(todo, c) => Gated(todo', c))
    BY <1>1, <1>2, <1>9, HeadCalls DEF ClientOps
  <2>4. /\ Local(c, cl'[c], "respond", Gated(todo', c), recs', answered')
        /\ cl'[c].up = NoUp
    <3> DEFINE g == Gated(todo', c)
    <3>1. Local(c, cl[c], "none", g, recs, answered)
      BY <1>4, <2>3, LocalGated
    <3> HIDE DEF g
    <3>2. /\ Local(c, cl'[c], "respond", g, recs, answered)
          /\ cl'[c].up = NoUp
      BY ONLY <3>1, <1>2, <1>4, <2>1, <2>2, LocalReplies
    <3> QED BY <3>2, <1>6 DEF g
  <2> QED BY <1>8, <2>2, <2>3, <2>4
<1>10. CASE cl' = [cl EXCEPT ![c].up = NoUp] /\ Then(<<<<"error", c>>>>)
  <2>1. ButClient(cl', cl, c) /\ DOMAIN cl' = Client /\ cl'[c] = Unpairs(cl[c])
    BY <1>2, <1>3, <1>10 DEF ButClient, Unpairs
  <2> HIDE DEF c
  <2>2. /\ Goes(todo, todo', c, "error") /\ todo' # <<>> /\ todo'[1] = <<"error", c>>
        /\ (Gated(todo, c) => Gated(todo', c))
    BY <1>1, <1>2, <1>10, HeadCalls DEF ClientOps
  <2>3. /\ Local(c, cl'[c], "error", Gated(todo', c), recs', answered')
        /\ cl'[c].up = NoUp
    <3> DEFINE g == Gated(todo', c)
    <3>1. Local(c, cl[c], "none", g, recs, answered)
      BY <1>4, <2>2, LocalGated
    <3> HIDE DEF g
    <3>2. /\ Local(c, cl'[c], "error", g, recs, answered)
          /\ cl'[c].up = NoUp
      BY ONLY <3>1, <1>2, <1>5, <2>1, LocalUnpaired
    <3> QED BY <3>2, <1>6 DEF g
  <2> QED BY <1>8, <2>1, <2>2, <2>3
<1> QED BY <1>9, <1>10 DEF OnResponse


\* begin_stream.
LEMMA BeginStreamKeeps ==
  ASSUME Inv, NEW u \in Up, Runs("upBytes", u), us[u].rbuf # <<>>, us[u].rbuf[1].k \in Bodies,
         BeginStream(u)
  PROVE  Inv'
<1> DEFINE c == us[u].c
           i == Head(us[u].rbuf)
<1>1. /\ todo # <<>> /\ StackSound(todo) /\ todo[1] = <<"upBytes", u>> /\ todo[1][1] # "gate"
      /\ \A d \in Client : Alone(todo, d) /\ Local(d, cl[d], "none", Gated(todo, d), recs, answered)
  BY RunsUp DEF UpOps
<1>2. /\ c \in Client /\ cl[c].up = u /\ u # NoUp /\ UpSound(us[u], u \in Owed(todo))
      /\ Pair(c, cl[c].n, cl[c].phase, cl[c].out, us[u])
  BY RunsPaired DEF UpOps
<1>3. us[u].st = "open" /\ DOMAIN cl = Client /\ DOMAIN us = Up /\ Owned(cl, us, pool, Owed(todo))
  BY <1>1 DEF Inv, HeadFit
<1>4. /\ Local(c, cl[c], "none", Gated(todo, c), recs, answered) /\ Alone(todo, c)
      /\ cl[c].up # NoUp
  BY <1>1, <1>2
<1>5. IsSeq(cl[c].out) /\ IsSeq(us[u].rbuf) /\ i.k \in Bodies
  <2>1. IsSeq(cl[c].out) /\ IsSeq(us[u].rbuf)
    BY <1>2, <1>4 DEF Local, ClientSound, UpSound
  <2>2. i = us[u].rbuf[1]
    BY <2>1 DEF IsSeq
  <2> QED BY <2>1, <2>2
<1>6. pool' = pool /\ recs' = recs /\ answered' = answered /\ fin' = fin
  BY DEF BeginStream, hist
<1>7. PICK b \in BOOLEAN :
        cl' = [cl EXCEPT ![c].streaming = TRUE, ![c].phase = "Streaming",
                         ![c].body = i.k, ![c].keepUp = b,
                         ![c].chunkedOut = (cl[c].msg = "keep"),
                         ![c].out = Append(@, [r |-> i.r, k |-> "head"])]
  BY DEF BeginStream
<1> DEFINE o == Append(cl[c].out, [r |-> i.r, k |-> "head"])
           d == (cl[c].msg = "keep")
           k == i.k
<1>8. IsSeq(o) /\ o # <<>> /\ d \in BOOLEAN /\ k \in Bodies
  BY <1>5, AppendIs
<1>9. us' = [us EXCEPT ![u].rbuf = Tail(@)]
  BY DEF BeginStream
<1>10. OnlyClient(c) /\ cl'[c] = Begun(cl[c], k, b, d, o)
  BY <1>2, <1>3, <1>7, <1>9 DEF OnlyClient, ButClient, Begun
<1> HIDE DEF o, d, k, c
<1>11. /\ Goes(todo, todo', c, "none") /\ todo' # <<>> /\ todo'[1] = <<"pump", u>>
       /\ (Gated(todo, c) => Gated(todo', c))
  BY <1>1, <1>2, HeadCallsUp DEF UpOps, BeginStream
<1>12. /\ Local(c, cl'[c], "none", Gated(todo', c), recs', answered')
      /\ cl'[c].up = cl[c].up /\ cl'[c].n = cl[c].n /\ cl'[c].phase = "Streaming"
      /\ cl'[c].out # <<>>
  <2> DEFINE g == Gated(todo', c)
  <2>1. Local(c, cl[c], "none", g, recs, answered)
    BY <1>4, <1>11, LocalGated
  <2> HIDE DEF g
  <2>2. /\ Local(c, cl'[c], "none", g, recs, answered)
        /\ cl'[c].up = cl[c].up /\ cl'[c].n = cl[c].n /\ cl'[c].phase = "Streaming"
        /\ cl'[c].out # <<>>
    BY ONLY <2>1, <1>2, <1>4, <1>8, <1>10, LocalBegins, b \in BOOLEAN
  <2> QED BY <2>2, <1>6 DEF g
<1>13. /\ UpShape(us'[u]) /\ us'[u].st = us[u].st /\ us'[u].rbuf = Tail(us[u].rbuf)
       /\ us'[u].c = us[u].c
       /\ us'[u].paused = us[u].paused /\ us'[u].eof = us[u].eof /\ us'[u].ask = us[u].ask
  <2>1. us'[u] = [us[u] EXCEPT !.rbuf = Tail(us[u].rbuf)]
    BY <1>3, <1>9
  <2> QED BY <1>2, <2>1 DEF UpSound, UpShape
<1>14. UpSound(us'[u], u \in Owed(todo)) /\ Pair(c, cl'[c].n, cl'[c].phase, cl'[c].out, us'[u])
  <2>1. IsSeq(Tail(us[u].rbuf))
    BY <1>5, TailIs
  <2> QED BY <1>2, <1>3, <1>12, <1>13, <2>1 DEF UpSound, Pair
<1>15. Owned(cl', us', pool', Owed(todo))
  <2>1. ButUp(us', us, u) /\ ButClient(cl', cl, c)
    BY <1>3, <1>9, <1>10 DEF ButUp, OnlyClient
  <2> QED BY <1>2, <1>3, <1>6, <1>12, <1>14, <2>1, OwnKeep
<1>16. Others(c) /\ us'[u].c = c /\ us'[u].c # NoClient
  BY <1>2, <1>6, <1>13, SameHistory, NoUpOut DEF Pair
<1> QED BY <1>2, <1>4, <1>10, <1>11, <1>12, <1>15, <1>16, StepCallsUp DEF UpOps

\* on_upstream_bytes.
LEMMA UpstreamBytesKeeps ==
  ASSUME Inv, NEW u \in Up, UpstreamBytes(u)
  PROVE  Inv'
<1> DEFINE c == us[u].c
           in == us[u].rbuf
<1>1. /\ todo # <<>> /\ StackSound(todo) /\ todo[1] = <<"upBytes", u>> /\ todo[1][1] # "gate"
      /\ \A d \in Client : Alone(todo, d) /\ Local(d, cl[d], "none", Gated(todo, d), recs, answered)
  BY RunsUp DEF UpstreamBytes, UpOps
<1>2. /\ c \in Client /\ cl[c].up = u /\ u # NoUp /\ UpSound(us[u], u \in Owed(todo))
      /\ Pair(c, cl[c].n, cl[c].phase, cl[c].out, us[u])
  BY RunsPaired DEF UpstreamBytes, UpOps
<1>3. /\ c # NoClient /\ DOMAIN cl = Client /\ DOMAIN us = Up /\ Owned(cl, us, pool, Owed(todo))
      /\ IsSeq(in)
  BY <1>2, NoUpOut DEF Inv, UpSound
<1>4. /\ Local(c, cl[c], "none", Gated(todo, c), recs, answered) /\ Alone(todo, c)
      /\ cl[c].up # NoUp /\ Runs("upBytes", u)
  BY <1>1, <1>2 DEF UpstreamBytes
<1>5. ASSUME UNCHANGED <<cl, us, pool, hist>>
      PROVE  OnlyClient(c) /\ Others(c) /\ Owned(cl', us', pool', Owed(todo)) /\ us'[u].c # NoClient
             /\ recs' = recs /\ answered' = answered /\ cl' = cl /\ us' = us
  BY <1>2, <1>3, <1>5, SameHistory DEF OnlyClient, ButClient, hist
<1>6. CASE cl[c].streaming /\ Then(<<<<"pump", u>>>>) /\ UNCHANGED <<cl, us, pool, hist>>
  <2>1. cl[c].phase = "Streaming"
    BY <1>4, <1>6 DEF Local, ClientSound, Mode
  <2>2. /\ Goes(todo, todo', c, "none") /\ todo' # <<>> /\ todo'[1] = <<"pump", u>>
        /\ (Gated(todo, c) => Gated(todo', c))
    BY <1>1, <1>2, <1>6, HeadCallsUp DEF UpOps
  <2>3. Local(c, cl'[c], "none", Gated(todo', c), recs', answered')
    BY <1>4, <1>5, <1>6, <2>2, LocalGated
  <2> QED BY <1>2, <1>4, <1>5, <1>6, <2>1, <2>2, <2>3, StepCallsUp DEF UpOps
<1>7. CASE Return /\ UNCHANGED <<cl, us, pool, hist>>
  <2>1. Leaves(todo, todo')
    BY <1>1, <1>7, HeadReturns
  <2>2. Local(c, cl'[c], "none", Gated(todo', c), recs', answered')
    BY <1>2, <1>4, <1>5, <1>7, <2>1, LocalGated DEF Leaves
  <2> QED BY <1>2, <1>4, <1>5, <1>7, <2>1, <2>2, StepReturns
<1>8. CASE Then(<<<<"error", c>>>>) /\ UNCHANGED <<cl, us, pool, hist>>
  <2>1. /\ Goes(todo, todo', c, "error") /\ todo' # <<>> /\ todo'[1] = <<"error", c>>
        /\ (Gated(todo, c) => Gated(todo', c))
    BY <1>1, <1>2, <1>8, HeadCalls DEF ClientOps
  <2>2. /\ OnlyClient(c) /\ Others(c) /\ Owned(cl', us', pool', Owed(todo)) /\ recs' = recs
        /\ answered' = answered /\ cl' = cl
    BY <1>5, <1>8
  <2> HIDE DEF c
  <2>3. Local(c, cl'[c], "error", Gated(todo', c), recs', answered')
    <3> DEFINE g == Gated(todo', c)
    <3>1. Local(c, cl[c], "none", g, recs, answered)
      BY <1>4, <2>1, LocalGated
    <3> HIDE DEF g
    <3>2. Local(c, cl'[c], "error", g, recs, answered)
      BY ONLY <3>1, <2>2, <1>2, <1>4, LocalTold
    <3> QED BY <3>2, <2>2 DEF g
  <2> QED BY <1>2, <1>4, <2>1, <2>2, <2>3, StepCalls DEF ClientOps
<1>9. ASSUME NEW len, ~cl[c].streaming, OnResponse(u, len)
      PROVE  Inv'
  BY <1>4, <1>9, OnResponseKeeps
<1>10. CASE in # <<>> /\ in[1].k \in Bodies /\ BeginStream(u)
  BY <1>4, <1>10, BeginStreamKeeps
<1> QED BY <1>3, <1>6, <1>7, <1>8, <1>9, <1>10 DEF UpstreamBytes

\* on_upstream_eof.
LEMMA UpstreamEofKeeps ==
  ASSUME Inv, NEW u \in Up, UpstreamEof(u)
  PROVE  Inv'
<1> DEFINE c == us[u].c
<1>1. /\ todo # <<>> /\ StackSound(todo) /\ todo[1] = <<"upEof", u>> /\ todo[1][1] # "gate"
      /\ \A d \in Client : /\ Alone(todo, d) /\ At(todo, d) = "none"
                           /\ Local(d, cl[d], "none", Gated(todo, d), recs, answered)
  BY RunsUp DEF UpstreamEof, UpOps
<1>2. /\ DOMAIN us = Up /\ Owned(cl, us, pool, Owed(todo)) /\ HeadFit(cl, us, todo)
      /\ DOMAIN cl = Client
  BY DEF Inv
<1>3. us[u].st = "free" \/ c # NoClient
  BY <1>1, <1>2 DEF HeadFit
<1>4. cl' = cl /\ pool' = pool /\ recs' = recs /\ answered' = answered /\ fin' = fin
  BY DEF UpstreamEof, hist
<1>5. CASE ~Live(u) \/ (us[u].eof /\ c = NoClient)
  <2>1. Return /\ us' = us
    BY <1>5 DEF UpstreamEof
  <2>2. Leaves(todo, todo')
    BY <1>1, <2>1, HeadReturns
  <2> QED BY <1>1, <1>2, <1>4, <2>1, <2>2, StepIdle
<1>6. CASE ~(~Live(u) \/ (us[u].eof /\ c = NoClient))
  <2>1. c # NoClient /\ us' = [us EXCEPT ![u].eof = TRUE]
        /\ Then(IF cl[c].streaming THEN <<<<"pumpEof", u>>>> ELSE <<<<"lost", u>>>>)
    BY <1>3, <1>6 DEF UpstreamEof, Live
  <2>2. UpSound(us[u], u \in Owed(todo)) /\ Pairs(cl, us)
    BY <1>2 DEF Owned
  <2>3. c \in Client
    BY <2>1, <2>2 DEF UpSound, UpShape
  <2>4. cl[c].up = u /\ u # NoUp
    BY <2>1, <2>2, NoUpOut DEF Pairs
  <2>5. Pair(c, cl[c].n, cl[c].phase, cl[c].out, us[u])
    BY <2>2, <2>3, <2>4 DEF Pairs
  <2>6. /\ UpShape(us'[u]) /\ us'[u].st = us[u].st /\ us'[u].rbuf = us[u].rbuf /\ us'[u].c = us[u].c
        /\ us'[u].paused = us[u].paused /\ us'[u].eof /\ us'[u].ask = us[u].ask
    BY <1>2, <2>1, <2>2 DEF UpSound, UpShape
  <2> HIDE DEF c
  <2>7. UpSound(us'[u], u \in Owed(todo)) /\ Pair(c, cl[c].n, cl[c].phase, cl[c].out, us'[u])
    BY <2>2, <2>5, <2>6 DEF UpSound, Pair
  <2>8. OnlyClient(c) /\ ButUp(us', us, u) /\ Others(c) /\ us'[u].c = c
    BY <1>2, <1>4, <2>1, <2>3, <2>6, SameHistory DEF OnlyClient, ButClient, ButUp, c
  <2>9. Owned(cl', us', pool', Owed(todo))
    BY <1>2, <1>4, <2>3, <2>4, <2>7, <2>8, OwnKeep DEF OnlyClient
  <2>10. PICK op \in {"pumpEof", "lost"} : Then(<<<<op, u>>>>) /\ (op = "pumpEof" => cl[c].streaming)
    BY <2>1
  <2>11. /\ Goes(todo, todo', c, "none") /\ todo' # <<>> /\ todo'[1] = <<op, u>>
         /\ (Gated(todo, c) => Gated(todo', c))
    BY <1>1, <2>3, <2>10, HeadCallsUp DEF UpOps
  <2>12. Local(c, cl'[c], "none", Gated(todo', c), recs', answered')
    BY <1>1, <1>4, <2>3, <2>11, LocalGated
  <2>13. op = "pumpEof" => cl'[c].phase = "Streaming"
    <3>1. Local(c, cl[c], "none", Gated(todo, c), recs, answered)
      BY <1>1, <2>3
    <3> QED BY <3>1, <1>4, <2>10 DEF Local, ClientSound, Mode
  <2> QED BY <1>1, <2>1, <2>3, <2>8, <2>9, <2>10, <2>11, <2>12, <2>13, StepCallsUp DEF UpOps
<1> QED BY <1>5, <1>6


\* stream_step: what it leaves and stages, and that at EOF a stream ends.
LEMMA StreamStepIs ==
  ASSUME NEW c, NEW u, NEW atEof \in BOOLEAN, IsSeq(us[u].rbuf),
         cl[c].bodyDone \in BOOLEAN, cl[c].said \in BOOLEAN, cl[c].bad \in BOOLEAN,
         cl[c].ended \in BOOLEAN
  PROVE  /\ IsSeq(StreamStep(c, u, atEof).left) /\ IsSeq(StreamStep(c, u, atEof).items)
         /\ StreamStep(c, u, atEof).done \in BOOLEAN /\ StreamStep(c, u, atEof).said \in BOOLEAN
         /\ StreamStep(c, u, atEof).bad \in BOOLEAN
         /\ atEof => cl[c].ended \/ StreamStep(c, u, atEof).end # "Ok"
<1> DEFINE s     == cl[c]
           in    == us[u].rbuf
           xlate == us[u].venue \in Translated
           cut   == IF s.body = "se" THEN Len(in)
                    ELSE IF s.bodyDone THEN 0
                    ELSE Cardinality({i \in 1..Len(in) : \A h \in 1..(i - 1) : in[h].k \notin {"z", "y"}})
           has(k) == \E i \in 1..cut : in[i].k = k
           done  == s.bodyDone \/ (s.body # "se" /\ (has("z") \/ has("y")))
           said  == s.said \/ has("z")
           bad   == s.bad \/ (s.body = "sc" /\ has("e")) \/ (xlate /\ has("f"))
           corrupt == s.bad \/ (s.body = "sc" /\ has("e"))
           I      == {i \in 1..cut : /\ in[i].k \in {"t", "z", "f"} /\ ~corrupt
                                     /\ bad => \A h \in 1..i : in[h].k # "f"}
           staged == Picked(in, I)
           complete == StreamComplete(s.body, done, atEof)
           left   == IF s.body = "sl" THEN Unsent(in, cut) ELSE <<>>
           items  == [i \in 1..Len(staged) |->
                       [r |-> staged[i].r, k |-> ChunkWrap(bad, s.chunkedOut, staged[i].k)]]
           end    == CASE bad -> "Failed"
                       [] ~bad /\ complete /\ ~s.ended ->
                            IF Unfinished(xlate, said) THEN "Failed" ELSE "Ended"
                       [] ~bad /\ ~complete /\ atEof /\ ~s.ended -> "Failed"
                       [] OTHER -> IF s.ended THEN "Ended" ELSE "Ok"
<1>1. StreamStep(c, u, atEof) = [left |-> left, items |-> items, done |-> done, said |-> said,
                                 bad |-> bad, end |-> end]
  BY DEF StreamStep
<1>2. done \in BOOLEAN /\ said \in BOOLEAN /\ bad \in BOOLEAN
  OBVIOUS
<1>3. atEof => cl[c].ended \/ end # "Ok"
  <2> HIDE DEF done, said, xlate, bad
  <2> QED BY <1>2 DEF StreamComplete
<1>4. cut \in 0..Len(in)
  <2> DEFINE C == {i \in 1..Len(in) : \A h \in 1..(i - 1) : in[h].k \notin {"z", "y"}}
  <2>1. Len(in) \in Nat
    BY DEF IsSeq
  <2>2. IsFiniteSet(1..Len(in)) /\ Cardinality(1..Len(in)) = Len(in)
    BY <2>1, FS_Interval
  <2>3. C \subseteq 1..Len(in)
    OBVIOUS
  <2> HIDE DEF C
  <2>4. Cardinality(C) \in Nat /\ Cardinality(C) <= Len(in)
    BY <2>1, <2>2, <2>3, FS_Subset, FS_CardinalityType
  <2>5. cut = IF s.body = "se" THEN Len(in) ELSE IF s.bodyDone THEN 0 ELSE Cardinality(C)
    BY DEF C
  <2> HIDE DEF cut
  <2> QED BY <2>1, <2>4, <2>5
<1>5. IsSeq(left)
  <2> HIDE DEF cut
  <2> QED BY <1>4, UnsentIs, EmptyIs
<1>6. IsSeq(items)
  <2> HIDE DEF cut
  <2>1. I \subseteq 1..cut /\ IsFiniteSet(1..cut)
    <3>1. cut \in Nat
      BY <1>4 DEF IsSeq
    <3>2. IsFiniteSet(1..cut)
      BY <3>1, FS_Interval
    <3> QED BY <3>2
  <2> HIDE DEF I
  <2>2. Cardinality(I) \in Nat
    BY <2>1, FS_Subset, FS_CardinalityType
  <2>3. IsSeq(staged) /\ Len(staged) = Cardinality(I)
    <3>1. DOMAIN staged = 1..Cardinality(I) /\ staged = [i \in DOMAIN staged |-> staged[i]]
      BY DEF Picked
    <3> HIDE DEF staged
    <3> QED BY <2>2, <3>1, FcnIs
  <2> HIDE DEF staged, bad
  <2>4. /\ DOMAIN items = 1..Len(staged) /\ items = [i \in DOMAIN items |-> items[i]]
        /\ Len(staged) \in Nat
    BY <2>2, <2>3
  <2> HIDE DEF items
  <2> QED BY <2>4, FcnIs
<1> HIDE DEF left, items, done, said, bad, end
<1> QED BY <1>1, <1>2, <1>3, <1>5, <1>6


\* stream_pump.
LEMMA StreamPumpKeeps ==
  ASSUME Inv, NEW u \in Up, StreamPump(u)
  PROVE  Inv'
<1> DEFINE c  == us[u].c
           st == StreamStep(c, u, FALSE)
           o  == cl[c].out \o st.items
<1>1. /\ todo # <<>> /\ StackSound(todo) /\ todo[1] = <<"pump", u>> /\ todo[1][1] # "gate"
      /\ \A d \in Client : Alone(todo, d) /\ Local(d, cl[d], "none", Gated(todo, d), recs, answered)
  BY RunsUp DEF StreamPump, UpOps
<1>2. /\ c \in Client /\ cl[c].up = u /\ u # NoUp /\ UpSound(us[u], u \in Owed(todo))
      /\ cl[c].phase = "Streaming"
      /\ Pair(c, cl[c].n, cl[c].phase, cl[c].out, us[u])
  BY RunsPaired DEF StreamPump, UpOps
<1>3. DOMAIN cl = Client /\ DOMAIN us = Up /\ Owned(cl, us, pool, Owed(todo))
  BY DEF Inv
<1>4. Local(c, cl[c], "none", Gated(todo, c), recs, answered) /\ Alone(todo, c) /\ cl[c].up # NoUp
  BY <1>1, <1>2
<1>5. /\ ClientShape(cl[c]) /\ IsSeq(cl[c].out) /\ IsSeq(us[u].rbuf)
      /\ cl[c].bodyDone \in BOOLEAN /\ cl[c].said \in BOOLEAN /\ cl[c].bad \in BOOLEAN
      /\ cl[c].ended \in BOOLEAN /\ cl[c].closeAfter \in BOOLEAN
  BY <1>2, <1>4 DEF Local, ClientSound, ClientShape, UpSound
<1>6. CASE CloseClient(c) /\ Return
  <2>1. Leaves(todo, todo')
    BY <1>1, <1>6, HeadReturns
  <2>2. cl[c].st = "open"
    BY <1>2, <1>4 DEF Local, ClientSound, Mode
  <2> QED BY <1>2, <1>4, <1>6, <2>1, <2>2, StepCloses
<1>7. CASE /\ us' = [us EXCEPT ![u].rbuf = st.left]
           /\ cl' = [cl EXCEPT ![c] = Stepped(c, st)]
           /\ Then(<<<<"flush", c>>>>)
           /\ UNCHANGED <<pool, hist>>
  <2>1. /\ IsSeq(st.left) /\ IsSeq(st.items) /\ st.done \in BOOLEAN /\ st.said \in BOOLEAN
        /\ st.bad \in BOOLEAN
    BY <1>5, StreamStepIs
  <2> HIDE DEF st
  <2>2. IsSeq(o) /\ (cl[c].out # <<>> => o # <<>>)
    BY <1>5, <2>1, ConcatIs
  <2>12. PICK done \in BOOLEAN, said \in BOOLEAN, bad \in BOOLEAN :
           done = st.done /\ said = st.said /\ bad = st.bad
    BY <2>1
  <2>3. OnlyClient(c) /\ cl'[c] = SteppedTo(cl[c], o, done, said, bad, st.end)
    BY <1>2, <1>3, <1>7, <2>12 DEF OnlyClient, ButClient, Stepped, SteppedTo
  <2>4. pool' = pool /\ recs' = recs /\ answered' = answered /\ fin' = fin
    BY <1>7 DEF hist
  <2> HIDE DEF o, c
  <2>5. /\ Goes(todo, todo', c, "flush") /\ todo' # <<>> /\ todo'[1] = <<"flush", c>>
        /\ (Gated(todo, c) => Gated(todo', c))
    BY <1>1, <1>2, <1>7, HeadCalls DEF ClientOps
  <2>6. /\ Local(c, cl'[c], "flush", Gated(todo', c), recs', answered')
        /\ cl'[c].up = cl[c].up /\ cl'[c].n = cl[c].n /\ cl'[c].phase = cl[c].phase
        /\ cl'[c].out = o
    <3> DEFINE g == Gated(todo', c)
    <3>1. Local(c, cl[c], "none", g, recs, answered)
      BY <1>4, <2>5, LocalGated
    <3> HIDE DEF g
    <3>2. /\ Local(c, cl'[c], "flush", g, recs, answered)
          /\ cl'[c].up = cl[c].up /\ cl'[c].n = cl[c].n /\ cl'[c].phase = cl[c].phase
          /\ cl'[c].out = o
      BY ONLY <3>1, <1>2, <2>2, <2>3, LocalStepped, c \in Client, done \in BOOLEAN,
              said \in BOOLEAN, bad \in BOOLEAN
    <3> QED BY <3>2, <2>4 DEF g

  <2>7. /\ UpShape(us'[u]) /\ us'[u].st = us[u].st /\ us'[u].rbuf = st.left /\ us'[u].c = us[u].c
        /\ us'[u].paused = us[u].paused /\ us'[u].eof = us[u].eof /\ us'[u].ask = us[u].ask
    <3>1. us'[u] = [us[u] EXCEPT !.rbuf = st.left]
      BY <1>3, <1>7
    <3> QED BY <1>2, <3>1 DEF UpSound, UpShape
  <2>8. UpSound(us'[u], u \in Owed(todo)) /\ Pair(c, cl'[c].n, cl'[c].phase, cl'[c].out, us'[u])
    BY <1>2, <2>1, <2>2, <2>6, <2>7 DEF UpSound, Pair
  <2>9. ButUp(us', us, u) /\ ButClient(cl', cl, c) /\ Others(c)
    BY <1>2, <1>3, <1>7, <2>3, <2>4, SameHistory DEF ButUp, OnlyClient
  <2>10. Owned(cl', us', pool', Owed(todo))
    BY <1>2, <1>3, <2>4, <2>6, <2>8, <2>9, OwnKeep
  <2> QED BY <1>2, <1>4, <2>3, <2>5, <2>6, <2>9, <2>10, StepCalls DEF ClientOps
<1> QED BY <1>6, <1>7 DEF StreamPump

\* stream_on_upstream_eof.
LEMMA StreamEofKeeps ==
  ASSUME Inv, NEW u \in Up, StreamEof(u)
  PROVE  Inv'
<1> DEFINE c  == us[u].c
           st == StreamStep(c, u, TRUE)
           o  == cl[c].out \o st.items
           ff == cl[c].closeAfter \/ st.end = "Failed"
<1>1. /\ todo # <<>> /\ StackSound(todo) /\ todo[1] = <<"pumpEof", u>> /\ todo[1][1] # "gate"
      /\ \A d \in Client : Alone(todo, d) /\ Local(d, cl[d], "none", Gated(todo, d), recs, answered)
  BY RunsUp DEF StreamEof, UpOps
<1>2. /\ c \in Client /\ cl[c].up = u /\ u # NoUp /\ UpSound(us[u], u \in Owed(todo))
      /\ cl[c].phase = "Streaming"
      /\ Pair(c, cl[c].n, cl[c].phase, cl[c].out, us[u])
  BY RunsPaired DEF StreamEof, UpOps
<1>3. DOMAIN cl = Client /\ DOMAIN us = Up /\ Owned(cl, us, pool, Owed(todo))
  BY DEF Inv
<1>4. Local(c, cl[c], "none", Gated(todo, c), recs, answered) /\ Alone(todo, c) /\ cl[c].up # NoUp
  BY <1>1, <1>2
<1>5. /\ ClientShape(cl[c]) /\ IsSeq(cl[c].out) /\ IsSeq(us[u].rbuf)
      /\ cl[c].bodyDone \in BOOLEAN /\ cl[c].said \in BOOLEAN /\ cl[c].bad \in BOOLEAN
      /\ cl[c].ended \in BOOLEAN /\ cl[c].closeAfter \in BOOLEAN
  BY <1>2, <1>4 DEF Local, ClientSound, ClientShape, UpSound
<1>6. /\ us' = FreeUp(u) /\ Then(<<<<"flush", c>>>>) /\ pool' = pool
      /\ cl' = [cl EXCEPT ![c] = [Stepped(c, st) EXCEPT !.up = NoUp]]
      /\ recs' = recs /\ answered' = answered /\ fin' = fin
  BY DEF StreamEof, hist
<1>7. /\ IsSeq(st.left) /\ IsSeq(st.items) /\ st.done \in BOOLEAN /\ st.said \in BOOLEAN
      /\ st.bad \in BOOLEAN
      /\ (cl[c].ended \/ st.end # "Ok") = TRUE
  BY <1>5, StreamStepIs
<1> HIDE DEF st
<1>8. IsSeq(o)
  BY <1>5, <1>7, ConcatIs
<1>14. PICK done \in BOOLEAN, said \in BOOLEAN, bad \in BOOLEAN, f \in BOOLEAN :
         done = st.done /\ said = st.said /\ bad = st.bad /\ f = ff
  BY <1>7
<1>15. cl[c].closeAfter => f
  BY <1>14
<1>9. OnlyClient(c) /\ cl'[c] = CutTo(cl[c], o, done, said, bad, f)
  <2>1. [Stepped(c, st) EXCEPT !.up = NoUp] = CutTo(cl[c], o, done, said, bad, f)
    BY <1>5, <1>7, <1>14 DEF Stepped, CutTo, ClientShape
  <2> QED BY <1>2, <1>3, <1>6, <2>1 DEF OnlyClient, ButClient, FreeUp
<1> HIDE DEF o, ff, c
<1>10. /\ Goes(todo, todo', c, "flush") /\ todo' # <<>> /\ todo'[1] = <<"flush", c>>
       /\ (Gated(todo, c) => Gated(todo', c))
  BY <1>1, <1>2, <1>6, HeadCalls DEF ClientOps
<1>11. /\ Local(c, cl'[c], "flush", Gated(todo', c), recs', answered')
      /\ cl'[c].up = NoUp
  <2> DEFINE g == Gated(todo', c)
  <2>1. Local(c, cl[c], "none", g, recs, answered)
    BY <1>4, <1>10, LocalGated
  <2> HIDE DEF g
  <2>2. /\ Local(c, cl'[c], "flush", g, recs, answered)
        /\ cl'[c].up = NoUp
    BY ONLY <2>1, <1>2, <1>8, <1>9, <1>15, LocalCut, c \in Client, done \in BOOLEAN,
            said \in BOOLEAN, bad \in BOOLEAN, f \in BOOLEAN
  <2> QED BY <2>2, <1>6 DEF g
<1>12. ButUp(us', us, u) /\ us'[u] = NewUp
  BY <1>2, <1>3, <1>6 DEF ButUp, FreeUp
<1>13. Owned(cl', us', pool', Owed(todo)) /\ Others(c)
  BY <1>2, <1>3, <1>6, <1>9, <1>11, <1>12, OwnDrop, SameHistory DEF OnlyClient
<1> QED BY <1>2, <1>4, <1>9, <1>10, <1>11, <1>13, StepCalls DEF ClientOps


\* finalize_stream.
LEMMA FinalizeStreamKeeps ==
  ASSUME Inv, NEW c \in Client, Runs("flush", c), FinalizeStream(c),
         UNCHANGED <<asks, answered, fin>>
  PROVE  Inv'
<1> DEFINE u    == cl[c].up
           keep == cl[c].chunkedOut /\ ~cl[c].closeAfter /\ cl[c].msg # "close"
<1>1. /\ todo # <<>> /\ StackSound(todo) /\ todo[1][1] # "gate" /\ Alone(todo, c)
      /\ At(todo, c) = "flush"
      /\ Local(c, cl[c], "flush", Gated(todo, c), recs, answered)
  BY RunsClient DEF UpOps, ClientOps
<1>2. cl[c].phase = "Streaming" /\ ~cl[c].sunk /\ cl[c].st = "open" /\ ClientShape(cl[c])
  BY <1>1 DEF Local, ClientSound, Mode
<1>3. /\ DOMAIN cl = Client /\ DOMAIN us = Up /\ recs \in [Request -> Nat]
      /\ Owned(cl, us, pool, Owed(todo))
  BY DEF Inv
<1>4. recs' = Made(recs, c, cl[c].n) /\ answered' = answered /\ fin' = fin
  <2> DEFINE k == SinkEmit(cl[c])
  <2>1. ~SinkUnfinished(k) /\ cl[c].n \in Nat
    BY <1>2, LifecycleConstants DEF SinkUnfinished, SinkEmit, ClientShape
  <2> HIDE DEF k
  <2>2. (~keep) \in BOOLEAN /\ (~cl[c].sunk) = TRUE
    BY <1>2
  <2>3. Record(c, TRUE, k, ~keep)
    BY <2>2 DEF FinalizeStream, k
  <2> QED BY <1>3, <2>1, <2>2, <2>3, RecordsOne
<1>5. ASSUME ButClient(cl', cl, c), cl'[c].up = NoUp
      PROVE  Owned(cl', us', pool', Owed(todo)) /\ DOMAIN us' = Up
  <2>1. CASE u = NoUp
    <3>1. us' = us /\ pool' = pool
      BY <2>1 DEF FinalizeStream
    <3> QED BY <1>3, <1>5, <2>1, <3>1, OwnSame
  <2>2. CASE u # NoUp
    <3> DEFINE b == cl[c].keepUp /\ ~cl[c].closeAfter
               e == cl[c].body # "se" /\ cl[c].bodyDone
               q == us[u].rbuf
    <3>1. ReleaseUp(u, q, b, e)
      BY <2>2 DEF FinalizeStream
    <3>2. /\ u \in Up /\ Pair(c, cl[c].n, cl[c].phase, cl[c].out, us[u])
          /\ UpSound(us[u], u \in Owed(todo))
      BY <1>3, <2>2, PairOf
    <3>3. us[u].st = "open"
      BY <1>2, <3>2 DEF Pair, UpSound, UpShape
    <3> HIDE DEF b, e, q
    <3> QED BY <1>5, <3>1, <3>2, <3>3, Released
  <2> QED BY <2>1, <2>2
<1>6. CASE keep
  <2>1. cl' = [cl EXCEPT ![c] = [SinkEmit(cl[c]) EXCEPT !.up = NoUp, !.out = <<>>,
                                                        !.phase = "Idle", !.streaming = FALSE]]
        /\ Then(Bytes(c)) /\ ~cl[c].closeAfter
    BY <1>6 DEF FinalizeStream
  <2>2. ButClient(cl', cl, c) /\ DOMAIN cl' = Client /\ cl'[c] = Finalised(cl[c])
    <3>1. Finalised(cl[c]) = [SinkEmit(cl[c]) EXCEPT !.up = NoUp, !.out = <<>>,
                                                     !.phase = "Idle", !.streaming = FALSE]
      BY DEF Finalised, SinkEmit
    <3> QED BY <1>3, <2>1, <3>1 DEF ButClient
  <2>3. /\ Goes(todo, todo', c, "frame") /\ todo' # <<>> /\ todo'[1] = <<"frame", c>>
        /\ Gated(todo', c)
    BY <1>1, <2>1, HeadNexts
  <2>4. /\ Local(c, cl'[c], "frame", Gated(todo', c), recs', answered')
        /\ cl'[c].up = NoUp /\ Made(recs, c, cl[c].n) \in [Request -> Nat]
        /\ Keeps(Made(recs, c, cl[c].n), recs, c)
    <3>1. Local(c, cl[c], "flush", TRUE, recs, answered)
      BY <1>1, LocalGated
    <3>2. /\ Local(c, cl'[c], "frame", TRUE, Made(recs, c, cl[c].n), answered)
          /\ cl'[c].up = NoUp /\ Made(recs, c, cl[c].n) \in [Request -> Nat]
          /\ Keeps(Made(recs, c, cl[c].n), recs, c)
      <4>1. recs \in [Request -> Nat] /\ ~cl[c].closeAfter /\ cl'[c] = Finalised(cl[c])
        BY <1>3, <2>1, <2>2
      <4> QED BY ONLY <3>1, <4>1, LocalFinal, c \in Client
    <3>3. Local(c, cl'[c], "frame", Gated(todo', c), Made(recs, c, cl[c].n), answered)
      BY <3>2, <2>3, LocalGated
    <3> QED BY <3>2, <3>3, <1>4
  <2>5. Owned(cl', us', pool', Owed(todo)) /\ OnlyClient(c)
    BY <1>5, <2>2, <2>4 DEF OnlyClient
  <2>6. Others(c)
    BY <1>4, <2>4 DEF Others, Inv
  <2> QED BY <1>1, <2>3, <2>4, <2>5, <2>6, StepCalls DEF ClientOps
<1>7. CASE ~keep
  <2>1. cl' = [cl EXCEPT ![c] = Closed(c)] /\ Return
    BY <1>7 DEF FinalizeStream, Return
  <2>2. ButClient(cl', cl, c) /\ DOMAIN cl' = Client /\ cl'[c] = Closed(c)
    BY <1>3, <2>1 DEF ButClient
  <2>3. cl'[c].up = NoUp
    BY <2>2, ClosedUp
  <2>4. Owned(cl', us', pool', Owed(todo)) /\ OnlyClient(c)
    BY <1>5, <2>2, <2>3 DEF OnlyClient
  <2>5. Leaves(todo, todo')
    BY <1>1, <2>1, HeadReturns
  <2>6. recs' = MadeIf(recs, c, cl[c].n, cl[c].phase)
    BY <1>2, <1>4 DEF MadeIf
  <2> QED BY <1>1, <1>2, <1>4, <2>2, <2>4, <2>5, <2>6, StepShuts
<1> QED BY <1>6, <1>7

\* stream_flush, when the client stays.
PausedAt(y, p) == [y EXCEPT !.paused = p]

LEMMA FlushedKeeps ==
  ASSUME Inv, NEW c \in Client, Runs("flush", c), Return, UNCHANGED <<pool, recs, answered, fin>>,
         NEW o, IsSeq(o), o # <<>> \/ ~cl[c].ended, NEW b \in BOOLEAN,
         DOMAIN cl' = Client, ButClient(cl', cl, c), cl'[c] = Flushed(cl[c], o, b),
         DOMAIN us' = Up, ButUp(us', us, cl[c].up), NEW p \in BOOLEAN, p => o # <<>>,
         cl[c].up # NoUp => us'[cl[c].up] = PausedAt(us[cl[c].up], p)
  PROVE  Inv'
<1> DEFINE u == cl[c].up
<1>1. /\ todo # <<>> /\ StackSound(todo) /\ todo[1][1] # "gate" /\ Alone(todo, c)
      /\ At(todo, c) = "flush"
      /\ Local(c, cl[c], "flush", Gated(todo, c), recs, answered)
  BY RunsClient DEF UpOps, ClientOps
<1>2. Leaves(todo, todo') /\ (Gated(todo, c) => Gated(todo', c))
  <2>1. Leaves(todo, todo')
    BY <1>1, HeadReturns
  <2> QED BY <2>1 DEF Leaves
<1>3. DOMAIN us = Up /\ Owned(cl, us, pool, Owed(todo)) /\ cl[c].phase = "Streaming"
  BY <1>1 DEF Inv, Local, ClientSound, Mode
<1>4. /\ Local(c, cl'[c], "none", Gated(todo', c), recs', answered')
      /\ cl'[c].up = cl[c].up /\ cl'[c].n = cl[c].n /\ cl'[c].phase = cl[c].phase /\ cl'[c].out = o
  <2> DEFINE g == Gated(todo', c)
  <2>1. Local(c, cl[c], "flush", g, recs, answered)
    BY <1>1, <1>2, LocalGated
  <2> HIDE DEF g
  <2>2. /\ Local(c, cl'[c], "none", g, recs, answered)
        /\ cl'[c].up = cl[c].up /\ cl'[c].n = cl[c].n /\ cl'[c].phase = cl[c].phase
        /\ cl'[c].out = o
    BY ONLY <2>1, IsSeq(o), o # <<>> \/ ~cl[c].ended, b \in BOOLEAN, cl'[c] = Flushed(cl[c], o, b),
       LocalFlushed, c \in Client
  <2> QED BY <2>2 DEF g
<1>6. ASSUME u # NoUp
      PROVE  /\ UpSound(us'[u], u \in Owed(todo))
             /\ Pair(c, cl'[c].n, cl'[c].phase, cl'[c].out, us'[u])
  <2>1. /\ u \in Up /\ Pair(c, cl[c].n, cl[c].phase, cl[c].out, us[u])
        /\ UpSound(us[u], u \in Owed(todo))
    BY <1>3, <1>6, PairOf
  <2>2. us'[u] = [us[u] EXCEPT !.paused = p]
    BY <1>6 DEF PausedAt
  <2>3. /\ UpShape(us'[u]) /\ us'[u].st = us[u].st /\ us'[u].rbuf = us[u].rbuf /\ us'[u].c = us[u].c
        /\ us'[u].paused = p /\ us'[u].eof = us[u].eof /\ us'[u].ask = us[u].ask
    BY <2>1, <2>2 DEF UpSound, UpShape
  <2> QED BY <1>3, <1>4, <2>1, <2>3 DEF UpSound, Pair
<1>7. Owned(cl', us', pool', Owed(todo))
  BY <1>3, <1>4, <1>6, OwnKeep
<1>8. OnlyClient(c) /\ Others(c)
  BY SameHistory DEF OnlyClient
<1> QED BY <1>1, <1>2, <1>4, <1>7, <1>8, StepReturns

LEMMA StreamFlushKeeps ==
  ASSUME Inv, NEW c \in Client, StreamFlush(c)
  PROVE  Inv'
<1> DEFINE out == Staged(c)
           u   == cl[c].up
           ends == cl[c].terminated \/ Terminates(c)
<1>1. /\ todo # <<>> /\ StackSound(todo) /\ todo[1][1] # "gate" /\ Alone(todo, c)
      /\ At(todo, c) = "flush"
      /\ Local(c, cl[c], "flush", Gated(todo, c), recs, answered)
  BY RunsClient DEF StreamFlush, ClientOps
<1>2. /\ cl[c].phase = "Streaming" /\ IsSeq(cl[c].out) /\ DOMAIN cl = Client /\ Runs("flush", c)
      /\ cl[c].terminated \in BOOLEAN /\ cl[c].ended \in BOOLEAN /\ cl[c].closeAfter \in BOOLEAN
      /\ DOMAIN us = Up
      /\ u # NoUp => u \in Up /\ us[u].paused \in BOOLEAN /\ us[u] = PausedAt(us[u], us[u].paused)
  <2>1. ClientShape(cl[c]) /\ IsSeq(cl[c].out) /\ cl[c].phase = "Streaming"
    BY <1>1 DEF Local, ClientSound, Mode
  <2>2. Owned(cl, us, pool, Owed(todo)) /\ DOMAIN cl = Client /\ DOMAIN us = Up
    BY DEF Inv
  <2>3. ASSUME u # NoUp
        PROVE  u \in Up /\ us[u].paused \in BOOLEAN /\ us[u] = PausedAt(us[u], us[u].paused)
    <3>1. /\ u \in Up /\ Pair(c, cl[c].n, cl[c].phase, cl[c].out, us[u])
          /\ UpSound(us[u], u \in Owed(todo))
      BY <2>2, <2>3, PairOf
    <3> QED BY <3>1 DEF UpSound, UpShape, PausedAt
  <2> QED BY <2>1, <2>2, <2>3 DEF ClientShape, StreamFlush
<1>3. IsSeq(out) /\ (cl[c].out # <<>> => out # <<>>) /\ ends \in BOOLEAN
  <2>1. ends \in BOOLEAN
    BY <1>2 DEF Terminates
  <2>2. IsSeq(out) /\ (cl[c].out # <<>> => out # <<>>)
    BY <1>2, AppendIs DEF Staged
  <2> QED BY <2>1, <2>2
<1> HIDE DEF out
<1>4. ASSUME NEW k \in Written(out) \ {Len(out)},
             cl' = [cl EXCEPT ![c].out = Unsent(out, k), ![c].terminated = @ \/ Terminates(c)],
             us' = IF u # NoUp /\ Len(out) - k > PauseAbove THEN [us EXCEPT ![u].paused = TRUE] ELSE us,
             Return, UNCHANGED <<pool, asks, recs, answered, fin>>
      PROVE  Inv'
  <2> DEFINE o == Unsent(out, k)
  <2>1. IsSeq(o) /\ o # <<>>
    BY <1>3, UnsentIs DEF Written
  <2>2. PICK b \in BOOLEAN : b = ends
    BY <1>3
  <2>3. DOMAIN cl' = Client /\ ButClient(cl', cl, c) /\ cl'[c] = Flushed(cl[c], o, b)
    BY <1>2, <1>4, <2>2 DEF ButClient, Flushed
  <2>4. PICK p \in BOOLEAN : u # NoUp => us'[u] = PausedAt(us[u], p)
    <3>1. CASE u # NoUp /\ Len(out) - k > PauseAbove
      <4>1. us'[u] = PausedAt(us[u], TRUE)
        BY <1>2, <1>4, <3>1 DEF PausedAt
      <4> QED BY <4>1
    <3>2. CASE u = NoUp
      BY <3>2
    <3>3. CASE u # NoUp /\ ~(Len(out) - k > PauseAbove)
      <4>1. us'[u] = PausedAt(us[u], us[u].paused) /\ us[u].paused \in BOOLEAN
        BY <1>2, <1>4, <3>3
      <4> QED BY <4>1
    <3> QED BY <3>1, <3>2, <3>3
  <2>5. DOMAIN us' = Up /\ ButUp(us', us, u)
    BY <1>2, <1>4 DEF ButUp
  <2>6. UNCHANGED <<pool, recs, answered, fin>> /\ Return /\ Runs("flush", c)
    BY <1>2, <1>4
  <2> HIDE DEF o, u
  <2>7. o # <<>> \/ ~cl[c].ended
    BY <2>1
  <2> QED BY ONLY Inv, c \in Client, <2>1, <2>3, <2>4, <2>5, <2>6, <2>7, b \in BOOLEAN,
             p \in BOOLEAN, FlushedKeeps DEF u
<1>5. CASE FinalizeStream(c) /\ UNCHANGED <<asks, answered, fin>>
  BY <1>2, <1>5, FinalizeStreamKeeps
<1>6. CASE /\ ~cl[c].ended
           /\ cl' = [cl EXCEPT ![c].out = Unsent(out, Len(out)),
                               ![c].terminated = @ \/ Terminates(c)]
           /\ us' = IF u = NoUp THEN us ELSE [us EXCEPT ![u].paused = FALSE]
           /\ Return /\ UNCHANGED <<pool, recs, asks, answered, fin>>
  <2> DEFINE o == Unsent(out, Len(out))
  <2>1. IsSeq(o)
    BY <1>3, UnsentIs DEF IsSeq
  <2>2. PICK b \in BOOLEAN : b = ends
    BY <1>3
  <2>3. DOMAIN cl' = Client /\ ButClient(cl', cl, c) /\ cl'[c] = Flushed(cl[c], o, b)
    BY <1>2, <1>6, <2>2 DEF ButClient, Flushed
  <2>4. PICK p \in BOOLEAN : ~p /\ (u # NoUp => us'[u] = PausedAt(us[u], p))
    <3>1. u # NoUp => us'[u] = PausedAt(us[u], FALSE)
      BY <1>2, <1>6 DEF PausedAt
    <3> QED BY <3>1
  <2>5. DOMAIN us' = Up /\ ButUp(us', us, u)
    BY <1>2, <1>6 DEF ButUp
  <2>6. /\ UNCHANGED <<pool, recs, answered, fin>> /\ Return /\ Runs("flush", c)
        /\ (o # <<>> \/ ~cl[c].ended)
    BY <1>2, <1>6
  <2> HIDE DEF o, u
  <2> QED BY ONLY Inv, c \in Client, <2>1, <2>3, <2>4, <2>5, <2>6, b \in BOOLEAN, p \in BOOLEAN,
             FlushedKeeps DEF u
<1>7. CASE CloseClient(c) /\ Return
  <2>1. Leaves(todo, todo')
    BY <1>1, <1>7, HeadReturns
  <2>2. cl[c].st = "open"
    BY <1>1 DEF Local, ClientSound, Mode
  <2> QED BY <1>1, <1>2, <1>7, <2>1, <2>2, StepCloses
<1> QED
  <2>1. CASE \E k \in Written(out) \ {Len(out)} :
               /\ Deliver(c, out, k)
               /\ cl' = [cl EXCEPT ![c].out = Unsent(out, k), ![c].terminated = @ \/ Terminates(c)]
               /\ us' = IF u # NoUp /\ Len(out) - k > PauseAbove THEN [us EXCEPT ![u].paused = TRUE] ELSE us
               /\ Return
               /\ UNCHANGED <<pool, asks, recs, answered, fin>>
    BY <1>4, <2>1
  <2> QED BY <1>5, <1>6, <1>7, <2>1 DEF StreamFlush, out


-----------------------------------------------------------------------------
(* Events.                                                                 *)

LEMMA OwnAlike ==
  ASSUME NEW m, NEW w, NEW p, NEW O, Owned(m, w, p, O), NEW m2, NEW c \in Client,
         ButClient(m2, m, c), m2[c].up = m[c].up, m2[c].n = m[c].n, m2[c].phase = m[c].phase,
         m2[c].out = m[c].out
  PROVE  Owned(m2, w, p, O)
<1>1. m[c].up # NoUp => Pair(c, m[c].n, m[c].phase, m[c].out, w[m[c].up])
  BY PairOf
<1>2. m[c].up # NoUp =>
           /\ m2[c].n = m[c].n
           /\ w[m[c].up].paused => m2[c].phase = "Streaming" /\ m2[c].out # <<>>
           /\ w[m[c].up].st = "connecting" => m2[c].phase = "Dispatched"
  BY <1>1 DEF Pair
<1> QED BY <1>2, OwnSame

LEMMA AcceptKeeps ==
  ASSUME Inv, NEW c \in Client, Accept(c)
  PROVE  Inv'
<1>1. /\ todo = <<>> /\ Alone(todo, c) /\ At(todo, c) = "none"
      /\ Local(c, cl[c], "none", Gated(todo, c), recs, answered)
  BY QuietStack DEF Accept
<1>2. DOMAIN cl = Client /\ DOMAIN us = Up /\ Owned(cl, us, pool, Owed(todo))
  BY DEF Inv
<1>3. /\ cl' = [cl EXCEPT ![c].st = "open"] /\ us' = us /\ pool' = pool /\ todo' = todo
      /\ recs' = recs /\ answered' = answered /\ fin' = fin
  BY DEF Accept, hist
<1>4. OnlyClient(c) /\ cl'[c] = Accepts(cl[c]) /\ cl[c].st = "new"
  BY <1>2, <1>3 DEF OnlyClient, ButClient, Accepts, Accept
<1>5. Leaves(todo, todo') /\ (Gated(todo, c) => Gated(todo', c))
  BY <1>1, <1>3, LeavesNone
<1>6. /\ Local(c, cl'[c], "none", Gated(todo', c), recs', answered')
      /\ cl'[c].up = cl[c].up /\ cl'[c].n = cl[c].n /\ cl'[c].phase = cl[c].phase
      /\ cl'[c].out = cl[c].out
  <2> DEFINE g == Gated(todo', c)
  <2>1. Local(c, cl[c], "none", g, recs, answered)
    BY <1>1, <1>5, LocalGated
  <2> HIDE DEF g
  <2>2. /\ Local(c, cl'[c], "none", g, recs, answered)
        /\ cl'[c].up = cl[c].up /\ cl'[c].n = cl[c].n /\ cl'[c].phase = cl[c].phase
        /\ cl'[c].out = cl[c].out
    BY ONLY <2>1, <1>4, LocalAccepted, c \in Client
  <2> QED BY <2>2, <1>3 DEF g
<1>7. Owned(cl', us', pool', Owed(todo)) /\ Others(c)
  BY <1>2, <1>3, <1>4, <1>6, OwnAlike, SameHistory DEF OnlyClient
<1> QED BY <1>1, <1>4, <1>5, <1>6, <1>7, StepReturns

\* on_client_readable.
LEMMA ClientSendsKeeps ==
  ASSUME Inv, NEW c \in Client, ClientSends(c)
  PROVE  Inv'
<1>1. /\ todo = <<>> /\ Alone(todo, c) /\ At(todo, c) = "none"
      /\ Local(c, cl[c], "none", Gated(todo, c), recs, answered)
  BY QuietStack DEF ClientSends, Calls
<1>2. DOMAIN cl = Client /\ DOMAIN us = Up /\ Owned(cl, us, pool, Owed(todo))
  BY DEF Inv
<1>3. /\ us' = us /\ pool' = pool /\ todo' = Bytes(c) /\ recs' = recs /\ answered' = answered
      /\ fin' = fin /\ cl[c].st = "open"
  BY DEF ClientSends, Calls, hist, Open
<1>4. Goes(todo, todo', c, "frame") /\ Gated(todo', c) /\ todo' # <<>> /\ todo'[1] = <<"frame", c>>
  BY <1>1, <1>3, BeginsBytes
<1>5. ASSUME OnlyClient(c), Local(c, cl'[c], "frame", TRUE, recs, answered),
             cl'[c].up = cl[c].up, cl'[c].n = cl[c].n, cl'[c].phase = cl[c].phase,
             cl'[c].out = cl[c].out
      PROVE  Inv'
  <2>1. Local(c, cl'[c], "frame", Gated(todo', c), recs', answered')
    BY <1>3, <1>4, <1>5, LocalGated
  <2>2. Owned(cl', us', pool', Owed(todo)) /\ Others(c)
    BY <1>2, <1>3, <1>5, OwnAlike, SameHistory DEF OnlyClient
  <2> QED BY <1>1, <1>4, <1>5, <2>1, <2>2, StepCalls DEF ClientOps
<1>6. Local(c, cl[c], "none", TRUE, recs, answered)
  BY <1>1, LocalGated
<1>7. ASSUME NEW h \in BOOLEAN, cl[c].sent < MaxReq,
             cl' = [cl EXCEPT ![c].rbuf = Append(@, cl[c].sent + 1), ![c].sent = @ + 1,
                              ![c].half = h]
      PROVE  Inv'
  <2>1. OnlyClient(c) /\ cl'[c] = Received(cl[c], h)
    BY <1>2, <1>3, <1>7 DEF OnlyClient, ButClient, Received
  <2>2. Local(c, cl'[c], "frame", TRUE, recs, answered)
        /\ cl'[c].up = cl[c].up /\ cl'[c].n = cl[c].n /\ cl'[c].phase = cl[c].phase
        /\ cl'[c].out = cl[c].out
    <3>1. /\ cl[c].st = "open" /\ cl[c].sent < MaxReq
          /\ cl'[c] = Received(cl[c], h)
      BY <1>3, <1>7, <2>1
    <3>2. CASE h = TRUE
      <4>1. /\ cl[c].st = "open" /\ cl[c].sent < MaxReq
            /\ cl'[c] = Received(cl[c], TRUE)
        BY <3>1, <3>2
      <4> QED BY ONLY <1>6, <4>1, LocalSends, c \in Client
    <3>3. CASE h = FALSE
      <4>1. cl[c].st = "open" /\ cl[c].sent < MaxReq /\ cl'[c] = Received(cl[c], FALSE)
        BY <3>1, <3>3
      <4> QED BY ONLY <1>6, <4>1, LocalSends, c \in Client
    <3> QED BY <3>2, <3>3
  <2> QED BY <1>5, <2>1, <2>2
<1>8. CASE cl' = [cl EXCEPT ![c].half = FALSE]
  <2>1. OnlyClient(c) /\ cl'[c] = Completes(cl[c])
    BY <1>2, <1>3, <1>8 DEF OnlyClient, ButClient, Completes
  <2>2. Local(c, cl'[c], "frame", TRUE, recs, answered)
        /\ cl'[c].up = cl[c].up /\ cl'[c].n = cl[c].n /\ cl'[c].phase = cl[c].phase
        /\ cl'[c].out = cl[c].out
    <3>1. cl[c].st = "open" /\ cl'[c] = Completes(cl[c])
      BY <1>3, <2>1
    <3> QED BY ONLY <1>6, <3>1, LocalRest, c \in Client
  <2> QED BY <1>5, <2>1, <2>2
<1>9. CASE cl[c].sent < MaxReq /\ \E half \in IF Expects THEN BOOLEAN ELSE {FALSE} :
             cl' = [cl EXCEPT ![c].rbuf = Append(@, cl[c].sent + 1), ![c].sent = @ + 1,
                              ![c].half = half]
  <2>1. PICK half \in IF Expects THEN BOOLEAN ELSE {FALSE} :
             cl' = [cl EXCEPT ![c].rbuf = Append(@, cl[c].sent + 1), ![c].sent = @ + 1,
                              ![c].half = half]
    BY <1>9
  <2>2. half \in BOOLEAN
    BY <2>1
  <2> QED BY <1>7, <1>9, <2>1, <2>2
<1> QED BY <1>8, <1>9 DEF ClientSends

\* client_gone.
LEMMA ClientGoneKeeps ==
  ASSUME Inv, NEW c \in Client, Quiet, Open(c), CloseClient(c), UNCHANGED todo
  PROVE  Inv'
<1>1. todo = <<>> /\ Alone(todo, c) /\ At(todo, c) = "none"
  BY QuietStack
<1>2. Leaves(todo, todo')
  BY <1>1, LeavesNone
<1> QED BY <1>1, <1>2, StepCloses DEF Open

\* An event calls a routine about a client that has not changed.
LEMMA EventTells ==
  ASSUME Inv, NEW c \in Client, UNCHANGED <<cl, us, pool, hist>>, NEW op \in ClientOps \ {"gate"},
         Calls(<<<<op, c>>>>), Local(c, cl[c], op, Gated(todo, c), recs, answered)
  PROVE  Inv'
<1>1. todo = <<>> /\ Alone(todo, c) /\ At(todo, c) = "none"
  BY QuietStack DEF Calls
<1>2. /\ cl' = cl /\ us' = us /\ pool' = pool /\ recs' = recs /\ answered' = answered /\ fin' = fin
      /\ todo' = <<<<op, c>>>>
  BY DEF hist, Calls
<1>3. Goes(todo, todo', c, op) /\ todo' # <<>> /\ todo'[1] = <<op, c>>
  BY <1>1, <1>2, BeginsClient
<1>4. Local(c, cl'[c], op, Gated(todo', c), recs', answered')
  BY <1>2, <1>3, LocalGated DEF Goes
<1>5. OnlyClient(c) /\ Others(c) /\ Owned(cl', us', pool', Owed(todo))
  BY <1>2, SameHistory DEF OnlyClient, ButClient, Inv
<1> QED BY <1>1, <1>3, <1>4, <1>5, StepCalls

\* on_client_writable.
LEMMA ClientWritableKeeps ==
  ASSUME Inv, NEW c \in Client, ClientWritable(c)
  PROVE  Inv'
<1>1. /\ todo = <<>> /\ Alone(todo, c) /\ At(todo, c) = "none"
      /\ Local(c, cl[c], "none", Gated(todo, c), recs, answered)
  BY QuietStack DEF ClientWritable, Calls
<1>2. PICK op \in {"flush", "respond"} : op = IF cl[c].streaming THEN "flush" ELSE "respond"
  OBVIOUS
<1>3. /\ cl[c].out # <<>> /\ cl[c].st = "open" /\ Calls(<<<<op, c>>>>)
      /\ UNCHANGED <<cl, us, pool, hist>>
  BY <1>2 DEF ClientWritable, Open
<1>4. Local(c, cl[c], op, Gated(todo, c), recs, answered)
  <2> DEFINE g == Gated(todo, c)
  <2>1. Local(c, cl[c], "none", g, recs, answered)
    BY <1>1
  <2> HIDE DEF g
  <2>2. Local(c, cl[c], op, g, recs, answered)
    BY ONLY <1>2, <1>3, <2>1, LocalWrites, c \in Client
  <2> QED BY <2>2 DEF g
<1> QED BY <1>3, <1>4, EventTells DEF ClientOps

\* sweep_client, of a silent venue or a client that does not read.
LEMMA SweepSilentKeeps ==
  ASSUME Inv, NEW c \in Client, SweepSilent(c)
  PROVE  Inv'
<1>1. /\ todo = <<>> /\ Alone(todo, c) /\ At(todo, c) = "none"
      /\ Local(c, cl[c], "none", Gated(todo, c), recs, answered)
  BY QuietStack DEF SweepSilent, Calls
<1>2. PICK op \in {"error", "failed"} : op = IF cl[c].out = <<>> THEN "failed" ELSE "error"
  OBVIOUS
<1>3. cl[c].up # NoUp /\ Calls(<<<<op, c>>>>) /\ UNCHANGED <<cl, us, pool, hist>>
  BY <1>2 DEF SweepSilent, Busy
<1>4. Local(c, cl[c], op, Gated(todo, c), recs, answered)
  <2> DEFINE g == Gated(todo, c)
  <2>1. Local(c, cl[c], "none", g, recs, answered)
    BY <1>1
  <2> HIDE DEF g
  <2>2. Local(c, cl[c], op, g, recs, answered)
    BY ONLY <1>3, <2>1, LocalTold, c \in Client, op \in {"error", "failed"}
  <2> QED BY <2>2 DEF g
<1> QED BY <1>3, <1>4, EventTells DEF ClientOps


\* An upstream with a client, and one that must have one.
LEMMA PairedUp ==
  ASSUME Inv, NEW u \in Up, us[u].c # NoClient
  PROVE  /\ us[u].c \in Client /\ cl[us[u].c].up = u /\ u # NoUp /\ UpSound(us[u], u \in Owed(todo))
         /\ Pair(us[u].c, cl[us[u].c].n, cl[us[u].c].phase, cl[us[u].c].out, us[u])
<1>1. UpSound(us[u], u \in Owed(todo)) /\ Pairs(cl, us)
  BY DEF Inv, Owned
<1>2. us[u].c \in Client
  BY <1>1 DEF UpSound, UpShape
<1>3. cl[us[u].c].up = u /\ u # NoUp
  BY <1>1, NoUpOut DEF Pairs
<1>4. Pair(us[u].c, cl[us[u].c].n, cl[us[u].c].phase, cl[us[u].c].out, us[u])
  BY <1>1, <1>2, <1>3 DEF Pairs
<1> QED BY <1>1, <1>2, <1>3, <1>4

LEMMA UnfitPaired ==
  ASSUME Inv, NEW u \in Up, us[u].st # "free", us[u].st # "open" \/ us[u].wire # "all"
  PROVE  us[u].c # NoClient
<1> SUFFICES ASSUME us[u].c = NoClient
             PROVE  FALSE
  OBVIOUS
<1>1. PoolSound(us, pool) /\ UpSound(us[u], u \in Owed(todo))
  BY DEF Inv, Owned
<1>2. us[u].venue \in Venue
  BY <1>1 DEF UpSound, UpShape
<1>3. PICK i \in 1..Len(pool[us[u].venue]) : pool[us[u].venue][i] = u
  BY <1>1 DEF PoolSound, Unpaired
<1>4. Fit(us[u], us[u].venue)
  BY <1>1, <1>2, <1>3 DEF PoolSound
<1> QED BY <1>4 DEF Fit

\* on_upstream_writable.
LEMMA UpstreamWritableKeeps ==
  ASSUME Inv, NEW u \in Up, UpstreamWritable(u)
  PROVE  Inv'
<1> DEFINE c == us[u].c
<1>1. /\ todo = <<>>
      /\ \A d \in Client : Alone(todo, d) /\ Local(d, cl[d], "none", Gated(todo, d), recs, answered)
  BY QuietStack DEF UpstreamWritable, Calls
<1>2. /\ c \in Client /\ cl[c].up = u /\ u # NoUp /\ UpSound(us[u], u \in Owed(todo))
      /\ Pair(c, cl[c].n, cl[c].phase, cl[c].out, us[u])
  BY UnfitPaired, PairedUp DEF UpstreamWritable
<1>3. DOMAIN cl = Client /\ DOMAIN us = Up /\ Owned(cl, us, pool, Owed(todo))
  BY DEF Inv
<1>4. /\ us' = [us EXCEPT ![u].st = "open"] /\ cl' = cl /\ pool' = pool /\ recs' = recs
      /\ answered' = answered /\ fin' = fin /\ todo' = <<<<"send", u>>>>
  BY DEF UpstreamWritable, Calls, hist
<1>5. Goes(todo, todo', c, "none") /\ todo' # <<>> /\ todo'[1] = <<"send", u>>
  BY <1>1, <1>4, BeginsUp DEF UpOps
<1>6. /\ UpShape(us'[u]) /\ us'[u].st = "open" /\ us'[u].rbuf = us[u].rbuf /\ us'[u].c = us[u].c
      /\ us'[u].paused = us[u].paused /\ us'[u].eof = us[u].eof /\ us'[u].ask = us[u].ask
  BY <1>2, <1>3, <1>4 DEF UpSound, UpShape
<1>7. UpSound(us'[u], u \in Owed(todo)) /\ Pair(c, cl'[c].n, cl'[c].phase, cl'[c].out, us'[u])
  BY <1>1, <1>2, <1>4, <1>6 DEF UpSound, Pair
<1>8. ButUp(us', us, u) /\ OnlyClient(c) /\ Others(c) /\ us'[u].c # NoClient
  BY <1>2, <1>3, <1>4, <1>6, SameHistory, NoUpOut DEF ButUp, OnlyClient, ButClient
<1> HIDE DEF c
<1>9. Owned(cl', us', pool', Owed(todo))
  BY <1>2, <1>3, <1>4, <1>7, <1>8, OwnKeep DEF OnlyClient
<1>10. Local(c, cl'[c], "none", Gated(todo', c), recs', answered')
  BY <1>1, <1>2, <1>4, <1>5, LocalGated DEF Goes
<1> QED BY <1>1, <1>2, <1>5, <1>8, <1>9, <1>10, StepCallsUp DEF UpOps

\* A connect is given up, and the client's request answered or failed over.
LEMMA GivesUpKeeps ==
  ASSUME Inv, NEW c \in Client, cl[c].up # NoUp, us[cl[c].up].st = "connecting",
         us' = FreeUp(cl[c].up),
         cl' = [cl EXCEPT ![c].up = NoUp], NEW op \in {"error", "failed"}, Calls(<<<<op, c>>>>),
         UNCHANGED <<pool, hist>>
  PROVE  Inv'
<1> DEFINE u == cl[c].up
<1>1. /\ todo = <<>> /\ Alone(todo, c) /\ At(todo, c) = "none"
      /\ Local(c, cl[c], "none", Gated(todo, c), recs, answered)
  BY QuietStack DEF Calls
<1>2. DOMAIN cl = Client /\ DOMAIN us = Up /\ Owned(cl, us, pool, Owed(todo))
  BY DEF Inv
<1>3. u \in Up /\ Pair(c, cl[c].n, cl[c].phase, cl[c].out, us[u])
  BY <1>2, PairOf
<1>4. pool' = pool /\ recs' = recs /\ answered' = answered /\ fin' = fin /\ todo' = <<<<op, c>>>>
  BY DEF Calls, hist
<1>5. /\ OnlyClient(c) /\ cl'[c] = Unpairs(cl[c]) /\ ButUp(us', us, u) /\ us'[u] = NewUp
      /\ cl[c].phase \in {"Dispatched", "Responding"}
  BY <1>2, <1>3 DEF OnlyClient, ButClient, Unpairs, ButUp, FreeUp, Pair
<1>6. /\ Goes(todo, todo', c, op) /\ todo' # <<>> /\ todo'[1] = <<op, c>>
      /\ (Gated(todo, c) => Gated(todo', c))
  <2>1. Goes(todo, todo', c, op) /\ todo' # <<>> /\ todo'[1] = <<op, c>>
    BY <1>1, <1>4, BeginsClient DEF ClientOps
  <2> QED BY <2>1 DEF Goes
<1>7. /\ Local(c, cl'[c], op, Gated(todo', c), recs', answered')
      /\ cl'[c].up = NoUp
  <2> DEFINE g == Gated(todo', c)
  <2>1. Local(c, cl[c], "none", g, recs, answered)
    BY <1>1, <1>6, LocalGated
  <2> HIDE DEF g
  <2>2. /\ Local(c, cl'[c], op, g, recs, answered)
        /\ cl'[c].up = NoUp
    BY ONLY <2>1, <1>5, LocalUnpaired, c \in Client, op \in {"error", "failed"}
  <2> QED BY <2>2, <1>4 DEF g
<1>8. Owned(cl', us', pool', Owed(todo)) /\ Others(c)
  BY <1>2, <1>4, <1>5, <1>7, OwnDrop, SameHistory DEF OnlyClient
<1> QED BY <1>1, <1>5, <1>6, <1>7, <1>8, StepCalls DEF ClientOps

LEMMA ConnectErrorKeeps ==
  ASSUME Inv, NEW u \in Up, ConnectError(u)
  PROVE  Inv'
<1>1. us[u].st = "connecting" /\ us[u].c # NoClient
  BY UnfitPaired DEF ConnectError
<1>2. us[u].c \in Client /\ cl[us[u].c].up = u /\ u # NoUp
  BY <1>1, PairedUp
<1>3. PICK op \in {"error", "failed"} : Calls(<<<<op, us[u].c>>>>)
  BY DEF ConnectError
<1>4. us' = FreeUp(u) /\ cl' = [cl EXCEPT ![us[u].c].up = NoUp] /\ UNCHANGED <<pool, hist>>
  BY <1>1 DEF ConnectError, ForgetUp
<1> QED BY <1>1, <1>2, <1>3, <1>4, GivesUpKeeps

LEMMA SweepConnectKeeps ==
  ASSUME Inv, NEW c \in Client, SweepConnect(c)
  PROVE  Inv'
<1>1. /\ us' = FreeUp(cl[c].up) /\ cl' = [cl EXCEPT ![c].up = NoUp] /\ UNCHANGED <<pool, hist>>
      /\ cl[c].up # NoUp /\ us[cl[c].up].st = "connecting"
  BY DEF SweepConnect, DropUp
<1>2. PICK op \in {"error", "failed"} : op = "failed"
  OBVIOUS
<1>3. Calls(<<<<op, c>>>>)
  BY <1>2 DEF SweepConnect
<1> QED BY <1>1, <1>3, GivesUpKeeps

\* A pooled connection is closed.
LEMMA IdleDropKeeps ==
  ASSUME Inv, NEW u \in Up, IdleDrop(u)
  PROVE  Inv'
<1>1. /\ todo = <<>> /\ (\A c \in Client : At(todo, c) = "none") /\ Leaves(todo, todo')
  BY QuietStack DEF IdleDrop
<1>2. DOMAIN us = Up /\ Owned(cl, us, pool, Owed(todo))
  BY DEF Inv
<1>3. /\ us' = FreeUp(u) /\ pool' = Unpool(u) /\ Pooled(u) /\ cl' = cl /\ recs' = recs
      /\ answered' = answered /\ fin' = fin
  BY DEF IdleDrop, hist
<1>4. DOMAIN us' = Up /\ ButUp(us', us, u) /\ us'[u] = NewUp
  BY <1>2, <1>3 DEF FreeUp, ButUp
<1>5. Owned(cl, us', pool', Owed(todo))
  BY <1>2, <1>3, <1>4, OwnIdle
<1> QED BY <1>1, <1>3, <1>4, <1>5, StepIdle


LEMMA ConcatTwo ==
  ASSUME NEW b, NEW e
  PROVE  /\ <<b>> \o <<>> = <<b>> /\ <<>> \o <<e>> = <<e>> /\ <<b>> \o <<e>> = <<b, e>>
         /\ <<b>> # <<b, e>> /\ <<e>> # <<b, e>>
<1> DEFINE S == {b, e}
<1>1. <<b>> \in Seq(S) /\ <<e>> \in Seq(S) /\ <<b, e>> \in Seq(S)
  OBVIOUS
<1>2. /\ Len(<<b>>) = 1 /\ Len(<<e>>) = 1 /\ Len(<<b, e>>) = 2 /\ <<b>>[1] = b /\ <<e>>[1] = e
      /\ <<b, e>>[1] = b /\ <<b, e>>[2] = e
  OBVIOUS
<1> HIDE DEF S
<1>3. <<b>> \o <<>> = <<b>> /\ <<>> \o <<e>> = <<e>>
  BY <1>1, ConcatEmptySeq
<1>4. <<b>> \o <<e>> = <<b, e>>
  <2>1. /\ <<b>> \o <<e>> \in Seq(S) /\ Len(<<b>> \o <<e>>) = 2
        /\ (<<b>> \o <<e>>)[1] = b /\ (<<b>> \o <<e>>)[2] = e
    BY <1>1, <1>2, ConcatProperties
  <2>2. \A i \in 1..2 : (<<b>> \o <<e>>)[i] = <<b, e>>[i]
    BY <1>2, <2>1
  <2> QED BY <1>1, <1>2, <2>1, <2>2, SeqEqual
<1>5. <<b>> # <<b, e>> /\ <<e>> # <<b, e>>
  BY <1>2
<1> QED BY <1>3, <1>4, <1>5

\* The handlers one drain of an upstream calls: its bytes', its EOF's, or both.
LEMMA DrainStack ==
  ASSUME NEW u \in Up, NEW t,
         t \in {<<<<"upBytes", u>>>>, <<<<"upEof", u>>>>, <<<<"upBytes", u>>, <<"upEof", u>>>>}
  PROVE  /\ StackSound(t) /\ t # <<>> /\ t[1] \in {<<"upBytes", u>>, <<"upEof", u>>}
         /\ \A d \in Client : At(t, d) = "none"
         /\ Owed(t) \subseteq {u}
         /\ u \in Owed(t) => t = <<<<"upBytes", u>>, <<"upEof", u>>>>
<1> DEFINE b == <<"upBytes", u>>
           e == <<"upEof", u>>
<1>1. b \in Entries /\ e \in Entries
  BY DEF Entries, UpOps
<1>2. t \in {<<b>>, <<e>>, <<b, e>>}
  OBVIOUS
<1>3. b[1] = "upBytes" /\ e[1] = "upEof" /\ b[2] = u /\ e[2] = u
  OBVIOUS
<1> HIDE DEF b, e
<1>4. t \in Seq(Entries) /\ t # <<>> /\ (t[1] = b \/ t[1] = e)
      /\ (Len(t) = 1 \/ (Len(t) = 2 /\ t = <<b, e>> /\ t[2] = e))
  <2>1. CASE t = <<b>>
    BY <1>1, <2>1
  <2>2. CASE t = <<e>>
    BY <1>1, <2>2
  <2>3. CASE t = <<b, e>>
    BY <1>1, <2>3
  <2> QED BY <1>2, <2>1, <2>2, <2>3
<1>6. \A i \in 2..Len(t) : i = 2 /\ t = <<b, e>> /\ t[i] = e
  <2>1. CASE Len(t) = 1
    BY ONLY <2>1
  <2>2. CASE Len(t) = 2 /\ t = <<b, e>> /\ t[2] = e
    <3>1. \A i \in 2..Len(t) : i = 2
      BY ONLY <2>2
    <3> QED BY ONLY <2>2, <3>1
  <2> QED BY <1>4, <2>1, <2>2
<1>7. StackSound(t)
  BY <1>3, <1>4, <1>6 DEF StackSound
<1>8. \A d \in Client : At(t, d) = "none"
  BY <1>3, <1>4, Apart DEF At
<1>9. ASSUME NEW x \in Up, x \in Owed(t)
      PROVE  x = u /\ t = <<b, e>>
  <2>1. PICK i \in 2..Len(t) : t[i] = <<"upEof", x>>
    BY <1>9 DEF Owed
  <2>2. e = <<"upEof", x>> /\ t = <<b, e>>
    BY <1>6, <2>1
  <2>3. e[2] = x
    BY <2>2
  <2> QED BY <2>2, <2>3, <1>3
<1>10. Owed(t) \subseteq {u}
  BY <1>9 DEF Owed
<1> QED BY <1>4, <1>7, <1>8, <1>9, <1>10 DEF b, e

LEMMA SegmentIs ==
  ASSUME NEW v, NEW a, NEW seg \in Segments(v, a)
  PROVE  Len(seg) \in Nat
<1>1. CASE seg = <<>>
  BY <1>1
<1>2. CASE \E k \in Follows(v, a) : seg = <<k>>
  BY <1>2
<1>3. CASE \E k \in Follows(v, a) : \E j : seg = <<k, j>>
  BY <1>3
<1> QED BY <1>1, <1>2, <1>3 DEF Segments

\* on_upstream_readable.
LEMMA VenueSendsKeeps ==
  ASSUME Inv, NEW u \in Up, VenueSends(u)
  PROVE  Inv'
<1> DEFINE c == us[u].c
           x == us[u]
           streaming == cl[c].streaming
<1>1. /\ todo = <<>>
      /\ \A d \in Client : Alone(todo, d) /\ Local(d, cl[d], "none", Gated(todo, d), recs, answered)
  BY QuietStack DEF VenueSends, Drained, Calls
<1>2. /\ c \in Client /\ cl[c].up = u /\ u # NoUp /\ UpSound(us[u], u \in Owed(todo))
      /\ Pair(c, cl[c].n, cl[c].phase, cl[c].out, us[u])
  BY PairedUp DEF VenueSends
<1>3. /\ DOMAIN cl = Client /\ DOMAIN us = Up /\ Owned(cl, us, pool, Owed(todo))
      /\ us[u].st = "open"
      /\ recs \in [Request -> Nat] /\ answered \subseteq Request /\ fin \subseteq Request
      /\ pool' = pool /\ recs' = recs
  BY DEF Inv, VenueSends
<1>4. /\ Local(c, cl[c], "none", Gated(todo, c), recs, answered) /\ cl[c].phase # "Idle"
      /\ cl[c].up # NoUp
      /\ <<c, cl[c].n>> \in Request /\ x.ask = <<c, cl[c].n>> /\ Req(c) = <<c, cl[c].n>>
  <2>1. Local(c, cl[c], "none", Gated(todo, c), recs, answered)
    BY <1>1, <1>2
  <2>2. /\ ClientShape(cl[c])
        /\ Mode(cl[c].st, cl[c].phase, cl[c].up, cl[c].n, cl[c].streaming, cl[c].ended,
                cl[c].closeAfter, cl[c].sunk, cl[c].mute, "none")
    BY <2>1 DEF Local, ClientSound
  <2>3. cl[c].phase # "Idle" /\ cl[c].n \in 1..MaxReq
    BY <1>2, <2>2, LifecycleConstants DEF ClientShape, Mode
  <2> QED BY <1>2, <2>1, <2>3 DEF Request, Req, Pair
<1>5. PICK seg \in Segments(us[u].venue, us[u].ans), eof \in BOOLEAN :
        (seg # <<>> \/ eof) /\ Drained(u, seg, eof)
  BY DEF VenueSends
<1> DEFINE items == [i \in 1..Len(seg) |-> [r |-> x.ask, k |-> seg[i]]]
           q     == x.rbuf \o items
           ans   == AfterAll(x.ans, seg)
           toks  == x.toks + Cardinality({i \in 1..Len(seg) : seg[i] = "t"})
           more  == x.extra \/ "x" \in ToSet(seg)
           gone  == eof /\ seg # <<>> /\ ~streaming
<1>0. us' = [us EXCEPT ![u] = [x EXCEPT !.rbuf = q, !.ans = ans, !.toks = toks, !.extra = more,
                                        !.eof = gone]]
  BY <1>5 DEF Drained
<1>6. /\ cl' = cl \/ (cl[c].phase = "Dispatched" /\ cl' = [cl EXCEPT ![c].phase = "Responding"])
      /\ seg # <<>> /\ cl[c].phase = "Dispatched" => cl' = [cl EXCEPT ![c].phase = "Responding"]
      /\ answered' = IF seg # <<>> THEN answered \cup {<<c, cl[c].n>>} ELSE answered
      /\ fin' = fin \/ fin' = fin \cup {<<c, cl[c].n>>}
  <2>1. cl' = IF (x.rbuf # <<>> \/ seg # <<>>) /\ cl[c].phase = "Dispatched"
              THEN [cl EXCEPT ![c].phase = "Responding"] ELSE cl
    BY <1>5 DEF Drained
  <2>2. answered' = IF seg # <<>> THEN answered \cup {Req(c)} ELSE answered
    BY <1>5 DEF Drained
  <2>3. fin' = fin \/ fin' = fin \cup {x.ask}
    BY <1>5 DEF Drained
  <2> QED BY <1>4, <2>1, <2>2, <2>3
<1>7. /\ todo' \in {<<<<"upBytes", u>>>>, <<<<"upEof", u>>>>, <<<<"upBytes", u>>, <<"upEof", u>>>>}
      /\ todo' = <<<<"upBytes", u>>, <<"upEof", u>>>> => gone
  <2> DEFINE b == <<"upBytes", u>>
             e == <<"upEof", u>>
  <2>1. todo' = (IF seg # <<>> /\ ~(eof /\ streaming) THEN <<b>> ELSE <<>>) \o (IF eof THEN <<e>> ELSE <<>>)
        /\ (seg # <<>> \/ eof)
    BY <1>5 DEF Drained, Calls
  <2> HIDE DEF b, e, streaming, c
  <2>3. /\ <<b>> \o <<>> = <<b>> /\ <<>> \o <<e>> = <<e>> /\ <<b>> \o <<e>> = <<b, e>>
        /\ <<b>> # <<b, e>> /\ <<e>> # <<b, e>>
    BY ConcatTwo
  <2>4. (todo' = <<b>>) \/ (todo' = <<e>>) \/ (todo' = <<b, e>> /\ gone)
    <3>1. CASE ~eof
      BY <2>1, <2>3, <3>1
    <3>2. CASE eof /\ (seg = <<>> \/ streaming)
      BY <2>1, <2>3, <3>2
    <3>3. CASE eof /\ seg # <<>> /\ ~streaming
      BY <2>1, <2>3, <3>3
    <3> QED BY <3>1, <3>2, <3>3
  <2> QED BY <2>3, <2>4 DEF b, e
<1>8. IsSeq(q)
  <2>1. Len(seg) \in Nat
    BY SegmentIs
  <2>2. DOMAIN items = 1..Len(seg) /\ items = [i \in DOMAIN items |-> items[i]]
    <3>1. DOMAIN items = 1..Len(seg)
      OBVIOUS
    <3>2. items = [i \in 1..Len(seg) |-> items[i]]
      OBVIOUS
    <3> HIDE DEF items
    <3> QED BY <3>1, <3>2
  <2> HIDE DEF items
  <2>3. IsSeq(items)
    BY <2>1, <2>2, FcnIs
  <2> QED BY <1>2, <2>3, ConcatIs DEF UpSound
<1>9. more \in BOOLEAN /\ gone \in BOOLEAN
  BY <1>2 DEF UpSound, UpShape
<1> HIDE DEF q, ans, toks, more, gone, x, streaming
<1>10. /\ UpShape(us'[u]) /\ us'[u].st = us[u].st /\ us'[u].rbuf = q /\ us'[u].c = us[u].c
       /\ us'[u].paused = us[u].paused /\ us'[u].eof = gone /\ us'[u].ask = us[u].ask
       /\ ButUp(us', us, u) /\ DOMAIN us' = Up
  <2>1. us'[u] = [us[u] EXCEPT !.rbuf = q, !.ans = ans, !.toks = toks, !.extra = more, !.eof = gone]
    BY <1>0, <1>3 DEF x
  <2>2. us'[u] = [st |-> us[u].st, venue |-> us[u].venue, c |-> us[u].c, fromPool |-> us[u].fromPool,
                  retried |-> us[u].retried, eof |-> gone, rbuf |-> q, paused |-> us[u].paused,
                  ask |-> us[u].ask, wire |-> us[u].wire, ans |-> ans, toks |-> toks,
                  extra |-> more]
    BY <1>2, <2>1 DEF UpSound, UpShape
  <2>3. ButUp(us', us, u) /\ DOMAIN us' = Up
    BY <1>0, <1>3 DEF ButUp
  <2> QED BY <1>2, <1>9, <2>2, <2>3 DEF UpSound, UpShape
<1> HIDE DEF c
<1>11. OnlyClient(c) /\ (cl'[c] = cl[c] \/ (cl[c].phase = "Dispatched" /\ cl'[c] = Hears(cl[c])))
       /\ (seg # <<>> /\ cl[c].phase = "Dispatched" => cl'[c] = Hears(cl[c]))
  BY <1>2, <1>3, <1>6, <1>10 DEF OnlyClient, ButClient, Hears
<1>12. /\ StackSound(todo') /\ todo' # <<>> /\ todo'[1] \in {<<"upBytes", u>>, <<"upEof", u>>}
       /\ \A d \in Client : At(todo', d) = "none"
       /\ Owed(todo') \subseteq {u} /\ (u \in Owed(todo') => gone)
  BY <1>7, DrainStack
<1>13. /\ Local(c, cl'[c], "none", Gated(todo', c), recs, answered)
       /\ cl'[c].up = cl[c].up /\ cl'[c].n = cl[c].n /\ cl'[c].out = cl[c].out
       /\ cl'[c].phase \in {cl[c].phase, "Responding"}
       /\ (cl'[c].phase # cl[c].phase => cl[c].phase = "Dispatched")
       /\ seg # <<>> => cl'[c].phase # "Dispatched"
  <2> DEFINE g == Gated(todo', c)
  <2>1. Local(c, cl[c], "none", g, recs, answered)
    <3>1. ~Gated(todo, c)
      BY <1>1, RestNone
    <3> QED BY <1>4, <3>1, LocalGated
  <2> HIDE DEF g
  <2>2. CASE cl'[c] = Hears(cl[c]) /\ cl[c].phase = "Dispatched"
    <3>1. /\ Local(c, cl'[c], "none", g, recs, answered)
          /\ cl'[c].up = cl[c].up /\ cl'[c].n = cl[c].n /\ cl'[c].phase = "Responding"
          /\ cl'[c].out = cl[c].out
      BY ONLY <1>2, <1>4, <2>1, <2>2, LocalHears
    <3> QED BY <3>1, <2>2 DEF g
  <2>3. CASE cl'[c] = cl[c] /\ ~(seg # <<>> /\ cl[c].phase = "Dispatched")
    BY <2>1, <2>3 DEF g
  <2> QED BY <1>11, <2>2, <2>3
<1>14. Local(c, cl'[c], "none", Gated(todo', c), recs', answered') /\ answered' \subseteq Request
  <2> DEFINE g == Gated(todo', c)
  <2>1. Local(c, cl'[c], "none", g, recs, answered)
    BY <1>13
  <2> HIDE DEF g
  <2>2. CASE seg = <<>>
    BY <1>3, <1>6, <2>1, <2>2 DEF g
  <2>3. CASE seg # <<>>
    <3>1. cl'[c].phase # "Dispatched" /\ c \in Client
      BY <1>2, <1>13, <2>3
    <3>2. Local(c, cl'[c], "none", g, recs, answered \cup {<<c, cl'[c].n>>})
      BY ONLY <2>1, <3>1, LocalAnswered
    <3> QED BY <1>3, <1>4, <1>6, <1>13, <2>3, <3>2 DEF g
  <2> QED BY <2>2, <2>3
<1>15. Others(c)
  <2>1. fin' \subseteq Request
    BY <1>3, <1>4, <1>6
  <2> QED BY <1>3, <1>6, <1>14, <2>1 DEF Others, Keeps
<1>16. UpSound(us'[u], u \in Owed(todo')) /\ Pair(c, cl'[c].n, cl'[c].phase, cl'[c].out, us'[u])
  BY <1>2, <1>3, <1>8, <1>10, <1>12, <1>13 DEF UpSound, Pair
<1>17. Owned(cl', us', pool', Owed(todo'))
  <2>1. Owned(cl, us, pool, {})
    BY <1>3, OwnFewer
  <2>2. UpSound(us'[u], u \in {})
    BY <1>16 DEF UpSound
  <2>3. Owned(cl', us', pool, {})
    BY <1>2, <1>10, <1>11, <1>13, <1>16, <2>1, <2>2, OwnKeep DEF OnlyClient
  <2>4. \A y \in Up : UpSound(us'[y], y \in Owed(todo'))
    BY <1>12, <1>16, <2>3 DEF Owned, UpSound
  <2> QED BY <1>3, <2>3, <2>4 DEF Owned
<1>18. HeadFit(cl', us', todo')
  <2>1. us'[u].c # NoClient /\ us'[u].st = "open"
    BY <1>2, <1>3, <1>10, NoUpOut DEF Pair
  <2> QED BY <1>12, <2>1 DEF HeadFit
<1>19. /\ Alone(todo, c) /\ Alone(todo', c)
       /\ \A d \in Client : d # c /\ Gated(todo, d) => Gated(todo', d)
  BY <1>1, <1>2, <1>12, RestNone DEF Alone
<1> QED BY <1>2, <1>11, <1>12, <1>14, <1>15, <1>17, <1>18, <1>19, Steps

-----------------------------------------------------------------------------
(* The invariant holds.                                                    *)

LEMMA InitLocal ==
  ASSUME NEW c \in Client, NEW rc, \A m \in 1..MaxReq : rc[<<c, m>>] = 0
  PROVE  Local(c, NewClient, "none", FALSE, rc, {})
<1>1. /\ IsSeq(<<>>) /\ <<>> \in Seq(Nat) /\ Len(<<>>) = 0
  BY EmptyIs, EmptySeq
<1>2. FirstVenue \in Venue /\ MaxAttempts \in Nat \ {0} /\ MaxReq \in Nat
  BY LifecycleConstants
<1>3. ClientShape(NewClient)
  BY <1>1, <1>2 DEF ClientShape, NewClient, Phases, Bodies, NoUp
<1>4. /\ Mode("new", "Idle", NoUp, 0, FALSE, FALSE, FALSE, FALSE, FALSE, "none")
      /\ Pipe("new", <<>>, 0, 0, 0, "Idle", FALSE, "none")
      /\ Awake("new", "Idle", NoUp, <<>>, FALSE, <<>>, FALSE, FALSE, "none", FALSE)
  BY <1>1 DEF Mode, Pipe, Awake
<1>5. ClientSound(NewClient, "none", FALSE)
  <2>1. /\ NewClient.st = "new" /\ NewClient.phase = "Idle" /\ NewClient.up = NoUp
        /\ NewClient.n = 0 /\ NewClient.sent = 0 /\ NewClient.saved = 0
        /\ NewClient.streaming = FALSE /\ NewClient.ended = FALSE
        /\ NewClient.closeAfter = FALSE /\ NewClient.sunk = FALSE /\ NewClient.half = FALSE
        /\ NewClient.mute = FALSE
        /\ NewClient.paused = FALSE /\ NewClient.rbuf = <<>> /\ NewClient.out = <<>>
    BY DEF NewClient
  <2> QED BY <1>1, <1>3, <1>4, <2>1 DEF ClientSound
<1>6. NewClient.n = 0 /\ NewClient.phase = "Idle" /\ NewClient.mute = FALSE
  BY DEF NewClient
<1>7. Recorded(c, 0, "Idle", FALSE, "none", rc)
  BY <1>2 DEF Recorded
<1>8. Unanswered(c, 0, "Idle", "none", {})
  BY DEF Unanswered
<1> QED BY <1>5, <1>6, <1>7, <1>8 DEF Local

LEMMA InitKeeps == Init => Inv
<1> SUFFICES ASSUME Init PROVE Inv
  OBVIOUS
<1>1. /\ cl = [c \in Client |-> NewClient] /\ us = [u \in Up |-> NewUp]
      /\ pool = [v \in Venue |-> <<>>] /\ todo = <<>>
      /\ recs = [r \in Request |-> 0] /\ answered = {} /\ fin = {}
  BY DEF Init
<1>2. <<>> \in Seq(Entries) /\ <<>> \in Seq(Up) /\ Len(<<>>) = 0
  BY EmptySeq
<1>3. StackSound(todo) /\ Owed(todo) = {}
  BY <1>1, <1>2 DEF StackSound, Owed
<1>4. ASSUME NEW c \in Client
      PROVE  Local(c, cl[c], At(todo, c), Gated(todo, c), recs, answered)
  <2>1. \A m \in 1..MaxReq : recs[<<c, m>>] = 0
    BY <1>1 DEF Request
  <2>2. Local(c, NewClient, "none", FALSE, recs, {})
    BY <2>1, InitLocal
  <2>3. cl[c] = NewClient /\ At(todo, c) = "none" /\ Gated(todo, c) = FALSE
    BY <1>1, <1>2 DEF At, Gated
  <2> QED BY <1>1, <2>2, <2>3
<1>5. Owned(cl, us, pool, {})
  <2>1. \A u \in Up : us[u] = NewUp
    BY <1>1
  <2>2. \A u \in Up : UpSound(us[u], u \in {})
    BY <2>1, NewUpSound DEF UpSound
  <2>3. \A c \in Client : cl[c].up = NoUp
    BY <1>1 DEF NewClient
  <2>4. Pairs(cl, us)
    BY <2>1, <2>3, NewUpSound DEF Pairs
  <2>5. {u \in Up : Unpaired(us[u])} = {}
    BY <2>1, NewUpSound DEF Unpaired
  <2>6. Cardinality({}) <= PoolCap
    BY FS_EmptySet, LifecycleConstants
  <2>7. PoolSound(us, pool)
    <3>1. pool \in [Venue -> Seq(Up)] /\ \A v \in Venue : Len(pool[v]) = 0
      BY <1>1, <1>2
    <3>2. \A u \in Up : ~Unpaired(us[u])
      BY <2>5
    <3>3. Cardinality({u \in Up : Unpaired(us[u])}) <= PoolCap
      BY <2>5, <2>6
    <3> QED BY <3>1, <3>2, <3>3 DEF PoolSound
  <2> QED BY <2>2, <2>4, <2>7 DEF Owned
<1>6. HeadFit(cl, us, todo)
  BY <1>1 DEF HeadFit
<1> QED BY <1>1, <1>3, <1>4, <1>5, <1>6 DEF Inv

LEMMA NextKeeps ==
  ASSUME Inv, [Next]_vars
  PROVE  Inv'
<1>1. CASE UNCHANGED vars
  BY <1>1, StepStays
<1>2. CASE Internal
  <2>1. ASSUME NEW c \in Client,
               \/ Gate(c) \/ FrameNothing(c) \/ FrameContinue(c) \/ Frame(c)
               \/ DispatchRefused(c) \/ DispatchNoConn(c) \/ Dispatch(c)
               \/ Failed(c) \/ Error(c) \/ Respond(c) \/ StreamFlush(c)
        PROVE  Inv'
    BY <2>1, GateKeeps, FrameNothingKeeps, FrameContinueKeeps, FrameKeeps, DispatchRefusedKeeps,
       DispatchNoConnKeeps, DispatchKeeps, FailedKeeps, ErrorKeeps, RespondKeeps, StreamFlushKeeps
  <2>2. ASSUME NEW u \in Up,
               \/ SendUpstream(u) \/ UpstreamLost(u) \/ UpstreamBytes(u) \/ UpstreamEof(u)
               \/ StreamPump(u) \/ StreamEof(u)
        PROVE  Inv'
    BY <2>2, SendUpstreamKeeps, UpstreamLostKeeps, UpstreamBytesKeeps, UpstreamEofKeeps,
       StreamPumpKeeps, StreamEofKeeps
  <2> QED BY <1>2, <2>1, <2>2 DEF Internal
<1>3. CASE Event
  <2>1. ASSUME NEW c \in Client, Sweep(c) PROVE Inv'
    <3>1. CASE SweepClose(c)
      BY <3>1, ClientGoneKeeps DEF SweepClose
    <3> QED BY <2>1, <3>1, SweepConnectKeeps, SweepSilentKeeps DEF Sweep
  <2>2. ASSUME NEW c \in Client, ClientGone(c) PROVE Inv'
    BY <2>2, ClientGoneKeeps DEF ClientGone
  <2>3. ASSUME NEW c \in Client,
               Accept(c) \/ ClientSends(c) \/ ClientGone(c) \/ ClientWritable(c) \/ Sweep(c)
        PROVE  Inv'
    BY <2>1, <2>2, <2>3, AcceptKeeps, ClientSendsKeeps, ClientWritableKeeps
  <2>4. ASSUME NEW u \in Up,
               UpstreamWritable(u) \/ ConnectError(u) \/ VenueSends(u) \/ IdleDrop(u)
        PROVE  Inv'
    BY <2>4, UpstreamWritableKeeps, ConnectErrorKeeps, VenueSendsKeeps, IdleDropKeeps
  <2> QED BY <1>3, <2>3, <2>4 DEF Event
<1> QED BY <1>1, <1>2, <1>3 DEF Next

\* What holds of the worker at every step of every handler: its stack, each
\* client, and who owns each upstream connection.
THEOREM InvHolds == Spec => []Inv
<1>1. Inv /\ [Next]_vars => Inv'
  BY NextKeeps
<1> QED BY <1>1, InitKeeps, PTL DEF Spec

-----------------------------------------------------------------------------
(* What follows from it.                                                   *)

\* Every variable has its type.
THEOREM TypeOKHolds == Spec => []TypeOK
<1>1. ASSUME Inv PROVE TypeOK
  <2>1. ASSUME NEW c \in Client PROVE ClientShape(cl[c])
    BY <1>1 DEF Inv, Local, ClientSound
  <2>2. ASSUME NEW u \in Up PROVE UpShape(us[u])
    BY <1>1 DEF Inv, Owned, UpSound
  <2>3. ASSUME NEW v \in Venue, NEW i \in 1..Len(pool[v]) PROVE pool[v][i] \in Up
    BY <1>1, ElementOfSeq DEF Inv, Owned, PoolSound
  <2>4. ASSUME NEW c \in Client
        PROVE  /\ cl[c].st \in {"new", "open", "closed"} /\ cl[c].phase \in Phases
               /\ cl[c].up \in Up \cup {NoUp} /\ cl[c].slot \in Venue
               /\ cl[c].saved \in 0..MaxReq /\ cl[c].n \in 0..MaxReq /\ cl[c].sent \in 0..MaxReq
               /\ cl[c].attempts \in 0..MaxAttempts - 1 /\ cl[c].body \in Bodies
    BY <2>1 DEF ClientShape
  <2>5. ASSUME NEW u \in Up
        PROVE  /\ us[u].st \in {"free", "connecting", "open"}
               /\ us[u].c \in Client \cup {NoClient} /\ us[u].venue \in Venue
               /\ us[u].wire \in {"none", "part", "all"}
    BY <2>2 DEF UpShape
  <2>6. answered \subseteq Request /\ fin \subseteq Request
    BY <1>1 DEF Inv
  <2> QED BY <2>3, <2>4, <2>5, <2>6 DEF TypeOK, Phases
<1> QED BY <1>1, InvHolds, PTL

\* pair and unpair: a link is never one-sided, even in the middle of a
\* handler.
THEOREM LinkedHolds == Spec => []Linked
<1>1. Inv => Linked
  BY DEF Inv, Owned, Pairs, Pair, Linked
<1> QED BY <1>1, InvHolds, PTL

\* A live upstream connection is one client's or the pool's: release and
\* close never leak one and never share one.
THEOREM NoOrphanHolds == Spec => []NoOrphan
<1>1. ASSUME Inv PROVE NoOrphan
  <2>1. Owned(cl, us, pool, Owed(todo))
    BY <1>1 DEF Inv
  <2>2. \A u \in Up : Pooled(u) <=> Unpaired(us[u])
    BY <2>1, CountIs
  <2>3. ASSUME NEW u \in Up, Live(u) PROVE (us[u].c # NoClient) # Pooled(u)
    <3>1. Pooled(u) \in BOOLEAN
      BY DEF Pooled
    <3>2. Pooled(u) <=> us[u].c = NoClient
      BY <2>2, <2>3 DEF Unpaired, Live
    <3> QED BY <3>1, <3>2
  <2> QED BY <2>3 DEF NoOrphan
<1> QED BY <1>1, InvHolds, PTL

\* release_upstream and acquire: the pool holds at most PoolCap connections,
\* each of its venue's list and fit for another client, whatever the last one
\* did.
THEOREM PooledFitHolds == Spec => []PooledFit
<1>1. ASSUME Inv PROVE PooledFit
  <2>1. Owned(cl, us, pool, Owed(todo)) /\ PoolSound(us, pool)
    BY <1>1 DEF Inv, Owned
  <2>2. Count <= PoolCap
    BY <2>1, CountIs DEF PoolSound, Count
  <2>3. ASSUME NEW v \in Venue, NEW u \in Range(pool[v])
        PROVE  /\ us[u].st = "open" /\ us[u].venue = v
               /\ us[u].rbuf = <<>> /\ us[u].wire = "all"
               /\ ~us[u].eof /\ ~us[u].paused
    <3>1. pool[v] \in Seq(Up)
      BY <2>1 DEF PoolSound
    <3>2. Holds(pool[v], u)
      BY <3>1, <2>3, RangeHolds
    <3> QED BY <2>1, <3>2 DEF PoolSound, Holds, Fit
  <2> QED BY <2>2, <2>3 DEF PooledFit
<1> QED BY <1>1, InvHolds, PTL

\* Between events nothing waits for a wakeup that cannot come: every client
\* with a request in hand has an armed socket, an upstream or bytes owed, and
\* what was paused has someone who will resume it.
THEOREM NoLostWakeupHolds == Spec => []NoLostWakeup
<1>1. ASSUME Inv PROVE NoLostWakeup
  <2> SUFFICES ASSUME Quiet PROVE NoLostWakeup
    BY DEF NoLostWakeup
  <2>1. todo = <<>> /\ Len(todo) = 0
    BY EmptySeq DEF Quiet
  <2>2. ASSUME NEW c \in Client
        PROVE  /\ Mode(cl[c].st, cl[c].phase, cl[c].up, cl[c].n, cl[c].streaming, cl[c].ended,
                       cl[c].closeAfter, cl[c].sunk, cl[c].mute, "none")
               /\ Awake(cl[c].st, cl[c].phase, cl[c].up, cl[c].rbuf, cl[c].half, cl[c].out,
                        cl[c].ended, cl[c].paused, "none", FALSE)
    <3>1. At(todo, c) = "none" /\ Gated(todo, c) = FALSE
      BY <2>1 DEF At, Gated
    <3> QED BY <1>1, <3>1 DEF Inv, Local, ClientSound
  <2>3. ASSUME NEW c \in Client
        PROVE  /\ cl[c].phase \in {"Dispatched", "Responding"} => cl[c].up # NoUp
               /\ cl[c].phase = "Replying" => cl[c].out # <<>>
               /\ cl[c].phase = "Streaming" => cl[c].out # <<>> \/ (cl[c].up # NoUp /\ ~cl[c].ended)
               /\ cl[c].paused => cl[c].phase # "Idle"
               /\ CanFrame(c) => Partial(c)
    BY <2>2 DEF Mode, Awake, CanFrame, Partial, Open
  <2>4. ASSUME NEW u \in Up, us[u].paused
        PROVE  us[u].c # NoClient /\ cl[us[u].c].out # <<>>
    <3>1. /\ UpSound(us[u], u \in Owed(todo)) /\ Pairs(cl, us) /\ PoolSound(us, pool)
      BY <1>1 DEF Inv, Owned
    <3>2. us[u].c # NoClient
      <4>1. us[u].c = NoClient => us[u].venue \in Venue /\ Unpaired(us[u])
        BY <2>4, <3>1 DEF UpSound, UpShape, Unpaired
      <4> QED BY <2>4, <3>1, <4>1 DEF PoolSound, Fit
    <3>3. us[u].c \in Client
      BY <3>1, <3>2 DEF UpSound, UpShape
    <3>4. cl[us[u].c].up = u /\ u # NoUp
      BY <3>1, <3>2, NoUpOut DEF Pairs
    <3> QED BY <2>4, <3>1, <3>2, <3>3, <3>4 DEF Pairs, Pair
  <2> QED BY <2>3, <2>4 DEF NoLostWakeup
<1> QED BY <1>1, InvHolds, PTL

\* Behind the request in hand a client's buffer has exactly the later ones, in
\* order, however often a failover put that one back in front of them.
THEOREM PipelineKeptHolds == Spec => []PipelineKept
<1>1. ASSUME Inv PROVE PipelineKept
  <2> SUFFICES ASSUME Quiet, NEW c \in Client, Open(c), ~cl[c].closeAfter
               PROVE  cl[c].rbuf = [i \in 1..(cl[c].sent - cl[c].n) |-> cl[c].n + i]
    BY DEF PipelineKept
  <2>1. At(todo, c) = "none"
    BY DEF At, Quiet
  <2>2. /\ ClientShape(cl[c])
        /\ Pipe(cl[c].st, cl[c].rbuf, cl[c].sent, cl[c].n, cl[c].saved, cl[c].phase,
                cl[c].closeAfter, "none")
    BY <1>1, <2>1 DEF Inv, Local, ClientSound
  <2> DEFINE q == cl[c].rbuf
             s == cl[c].sent
             n == cl[c].n
  <2>3. s \in 0..MaxReq /\ n \in 0..MaxReq /\ MaxReq \in Nat
    BY <2>2, LifecycleConstants DEF ClientShape
  <2>4. /\ n <= s /\ q \in Seq(Nat) /\ Len(q) = s - n
        /\ \A i \in 1..Len(q) : q[i] = s - Len(q) + i
    BY <2>2 DEF Pipe, UpTo, Open
  <2> HIDE DEF q, s, n
  <2>5. q = [i \in 1..Len(q) |-> q[i]]
    BY <2>4, SeqIs DEF IsSeq
  <2>6. q = [i \in 1..(s - n) |-> n + i]
    BY <2>3, <2>4, <2>5
  <2> QED BY <2>6 DEF q, s, n
<1> QED BY <1>1, InvHolds, PTL

\* The sink gets at most one record of a request, by the latch and the phase,
\* and exactly one once it is over, whatever ended it; none if it was refused
\* while its own 100 Continue was still queued.
THEOREM RecordedOnceHolds == Spec => []RecordedOnce
<1>1. ASSUME Inv PROVE RecordedOnce
  <2>1. ASSUME NEW c \in Client
        PROVE  Recorded(c, cl[c].n, cl[c].phase, cl[c].mute, At(todo, c), recs) /\ ClientShape(cl[c])
    BY <1>1 DEF Inv, Local, ClientSound
  <2>2. ASSUME NEW r \in Request PROVE recs[r] <= 1
    <3>1. PICK c \in Client, m \in 1..MaxReq : r = <<c, m>>
      BY DEF Request
    <3> QED BY <2>1, <3>1 DEF Recorded
  <2>3. ASSUME Quiet, NEW c \in Client, NEW n \in 1..cl[c].n
        PROVE  recs[<<c, n>>] = IF n = cl[c].n /\ (cl[c].phase # "Idle" \/ cl[c].mute) THEN 0 ELSE 1
    <3>1. At(todo, c) = "none"
      BY <2>3 DEF At, Quiet
    <3>2. cl[c].n \in 0..MaxReq /\ MaxReq \in Nat
      BY <2>1, LifecycleConstants DEF ClientShape
    <3>3. n \in 1..MaxReq /\ (n = cl[c].n \/ n < cl[c].n)
      BY <3>2
    <3> QED BY <2>1, <3>1, <3>2, <3>3 DEF Recorded
  <2> QED BY <2>2, <2>3 DEF RecordedOnce
<1> QED BY <1>1, InvHolds, PTL

\* A request is staged to a venue by dispatch and by retry_upstream alone.
LEMMA Staging ==
  ASSUME [Next]_vars
  PROVE  \/ asks' = asks
         \/ \E c \in Client : Dispatch(c)
         \/ \E u \in Up : /\ UpstreamLost(u) /\ Runs("lost", u) /\ MayRetry(u)
                          /\ asks' = [asks EXCEPT ![us[u].ask] = @ + 1]
<1>1. CASE UNCHANGED vars
  BY <1>1 DEF vars
<1>2. ASSUME NEW c \in Client,
             \/ Gate(c) \/ FrameNothing(c) \/ FrameContinue(c) \/ Frame(c)
             \/ DispatchRefused(c) \/ DispatchNoConn(c) \/ Failed(c) \/ Error(c)
      PROVE  asks' = asks
  BY <1>2 DEF Gate, FrameNothing, FrameContinue, Frame, DispatchRefused, DispatchNoConn, Failed,
              Error, CloseClient, hist
<1>3. ASSUME NEW c \in Client, Respond(c) \/ StreamFlush(c) PROVE asks' = asks
  BY <1>3 DEF Respond, Finish, StreamFlush, CloseClient
<1>4. ASSUME NEW u \in Up,
             SendUpstream(u) \/ UpstreamBytes(u) \/ UpstreamEof(u) \/ StreamPump(u) \/ StreamEof(u)
      PROVE  asks' = asks
  BY <1>4 DEF SendUpstream, UpstreamBytes, OnResponse, BeginStream, UpstreamEof, StreamPump,
              StreamEof, CloseClient, hist
<1>5. ASSUME NEW u \in Up, UpstreamLost(u)
      PROVE  \/ asks' = asks
             \/ /\ UpstreamLost(u) /\ Runs("lost", u) /\ MayRetry(u)
                /\ asks' = [asks EXCEPT ![us[u].ask] = @ + 1]
  BY <1>5 DEF UpstreamLost, hist
<1>6. ASSUME NEW c \in Client,
             Accept(c) \/ ClientSends(c) \/ ClientGone(c) \/ ClientWritable(c) \/ Sweep(c)
      PROVE  asks' = asks
  BY <1>6 DEF Accept, ClientSends, ClientGone, ClientWritable, Sweep, SweepClose, SweepConnect,
              SweepSilent, CloseClient, hist
<1>7. ASSUME NEW u \in Up, UpstreamWritable(u) \/ ConnectError(u) \/ VenueSends(u) \/ IdleDrop(u)
      PROVE  asks' = asks
  BY <1>7 DEF UpstreamWritable, ConnectError, VenueSends, IdleDrop, hist
<1> QED BY <1>1, <1>2, <1>3, <1>4, <1>5, <1>6, <1>7 DEF Next, Internal, Event

AsksOf == DOMAIN asks = Request

LEMMA AsksOfHolds == Spec => []AsksOf
<1>1. Init => AsksOf
  BY DEF Init, AsksOf
<1>2. ASSUME AsksOf, [Next]_vars PROVE AsksOf'
  <2>1. CASE \E c \in Client : Dispatch(c)
    BY <1>2, <2>1 DEF AsksOf, Dispatch
  <2> QED BY <1>2, <2>1, Staging DEF AsksOf
<1> QED BY <1>1, <1>2, PTL DEF Spec

\* The request a client in dispatch takes is the one in hand.
LEMMA DispatchTakes ==
  ASSUME Inv, NEW c \in Client, Runs("dispatch", c)
  PROVE  /\ Head(cl[c].rbuf) = cl[c].n
         /\ Local(c, cl[c], "dispatch", Gated(todo, c), recs, answered)
<1>1. Local(c, cl[c], "dispatch", Gated(todo, c), recs, answered)
  BY RunsClient DEF ClientOps
<1>2. /\ cl[c].st = "open" /\ cl[c].sent \in Nat /\ cl[c].n \in Nat /\ cl[c].n <= cl[c].sent
  BY <1>1 DEF Local, ClientSound, Mode, ClientShape, Pipe
<1>3. UpTo(cl[c].rbuf, cl[c].sent) /\ Len(cl[c].rbuf) = cl[c].sent - cl[c].n + 1
  BY <1>1, <1>2 DEF Local, ClientSound, Pipe
<1>4. cl[c].rbuf # <<>>
  BY <1>2, <1>3
<1>5. Head(cl[c].rbuf) = cl[c].sent - Len(cl[c].rbuf) + 1
  BY <1>2, <1>3, <1>4, UpToTail
<1> QED BY <1>1, <1>2, <1>3, <1>5

\* A request some venue has begun to answer is never sent again, by dispatch,
\* by a failover or by the retry of a stale connection.
THEOREM NeverResendAnsweredHolds == Spec => NeverResendAnswered
<1>1. ASSUME Inv, AsksOf, [Next]_vars, NEW r \in Request, asks'[r] # asks[r]
      PROVE  r \notin answered
  <2>1. CASE \E c \in Client : Dispatch(c)
    <3>1. PICK c \in Client : Dispatch(c)
      BY <2>1
    <3>2. Runs("dispatch", c) /\ asks' = [asks EXCEPT ![<<c, Head(cl[c].rbuf)>>] = @ + 1]
      BY <3>1 DEF Dispatch
    <3>3. /\ Head(cl[c].rbuf) = cl[c].n
          /\ Local(c, cl[c], "dispatch", Gated(todo, c), recs, answered)
      BY <1>1, <3>2, DispatchTakes
    <3>4. r = <<c, cl[c].n>>
      BY <1>1, <3>2, <3>3 DEF AsksOf
    <3>5. cl[c].n \in 1..MaxReq
      BY <1>1, <3>4 DEF Request
    <3> QED BY <3>3, <3>4, <3>5 DEF Local, Unanswered
  <2>2. ASSUME NEW u \in Up, Runs("lost", u), MayRetry(u),
               asks' = [asks EXCEPT ![us[u].ask] = @ + 1]
        PROVE  r \notin answered
    <3> DEFINE c == us[u].c
    <3>1. /\ c \in Client /\ Pair(c, cl[c].n, cl[c].phase, cl[c].out, us[u])
      BY <1>1, <2>2, RunsPaired DEF UpOps
    <3>2. Unanswered(c, cl[c].n, cl[c].phase, At(todo, c), answered)
      BY <1>1, <3>1 DEF Inv, Local
    <3>3. r = <<c, cl[c].n>>
      BY <1>1, <2>2, <3>1 DEF AsksOf, Pair
    <3>4. cl[c].n \in 1..MaxReq /\ cl[c].phase = "Dispatched"
      BY <2>2, <3>3 DEF Request, MayRetry, CanRedispatch
    <3> QED BY <3>2, <3>3, <3>4 DEF Unanswered
  <2> QED BY <1>1, <2>1, <2>2, Staging
<1>2. ASSUME Inv, AsksOf, [Next]_vars
      PROVE  [\A r \in Request : asks'[r] # asks[r] => r \notin answered]_vars
  BY <1>1, <1>2
<1> QED BY <1>2, InvHolds, AsksOfHolds, PTL DEF Spec, NeverResendAnswered

-----------------------------------------------------------------------------
(* How often a request is staged: its attempts.                            *)

\* A client keeps its request and its attempts, and does not begin one.
Steady(y, x) ==
  y.n = x.n /\ y.attempts = x.attempts /\ (y.phase = "Dispatched" => x.phase = "Dispatched")

\* What a step does about the attempts of client c.
Tried(c) ==
  \/ Steady(cl'[c], cl[c])
  \/ cl'[c] = Closed(c)
  \/ Frame(c)
  \/ MayFailOver(c) /\ \E v \in Venue : cl'[c] = FailedOver(cl[c], v)
  \/ Runs("dispatch", c) /\ cl'[c].n = cl[c].n /\ cl'[c].attempts = cl[c].attempts

LEMMA ShapeOf ==
  ASSUME Inv, NEW c \in Client
  PROVE  ClientShape(cl[c]) /\ DOMAIN cl = Client /\ DOMAIN us = Up
BY DEF Inv, Local, ClientSound

LEMMA OthersTried ==
  ASSUME NEW c \in Client, NEW d \in Client, ButClient(cl', cl, c), d # c
  PROVE  Tried(d)
BY DEF ButClient, Tried, Steady

LEMMA TriedClient ==
  ASSUME Inv, NEW c \in Client,
         \/ Gate(c) \/ FrameNothing(c) \/ FrameContinue(c) \/ Frame(c)
         \/ DispatchRefused(c) \/ DispatchNoConn(c) \/ Dispatch(c)
         \/ Failed(c) \/ Error(c) \/ Respond(c) \/ StreamFlush(c)
  PROVE  ButClient(cl', cl, c) /\ Tried(c)
<1>1. ClientShape(cl[c]) /\ DOMAIN cl = Client
  BY ShapeOf
<1>2. CASE Gate(c)
  <2> PICK b : b = Over(c)
    OBVIOUS
  <2>1. cl' = cl \/ cl' = [cl EXCEPT ![c].paused = b]
    BY <1>2 DEF Gate
  <2> QED BY <1>1, <2>1 DEF ClientShape, ButClient, Tried, Steady
<1>3. CASE FrameNothing(c) \/ DispatchRefused(c)
  BY <1>3 DEF FrameNothing, DispatchRefused, ButClient, Tried, Steady
<1>4. CASE cl' = [cl EXCEPT ![c] = Closed(c)]
  BY <1>1, <1>4 DEF ButClient, Tried
<1>5. CASE FrameContinue(c)
  <2>1. CASE ~CloseClient(c)
    <3>1. PICK o : cl' = [cl EXCEPT ![c].out = o, ![c].told = TRUE]
      BY <1>5, <2>1 DEF FrameContinue
    <3> QED BY <1>1, <3>1 DEF ClientShape, ButClient, Tried, Steady
  <2> QED BY <1>4, <2>1 DEF CloseClient
<1>6. CASE Frame(c)
  BY <1>1, <1>6 DEF Frame, ButClient, Tried
<1>7. CASE DispatchNoConn(c) \/ Dispatch(c)
  <2>1. PICK y : cl' = [cl EXCEPT ![c] = y] /\ Runs("dispatch", c)
                 /\ \/ \E q : y = [cl[c] EXCEPT !.phase = "Dispatched", !.rbuf = q]
                    \/ y = [TakeRequest(cl[c]) EXCEPT !.phase = "Dispatched"]
                    \/ \E u : y = [TakeRequest(cl[c]) EXCEPT !.phase = "Dispatched", !.up = u,
                                                             !.framed = TRUE]
    <3>1. CASE DispatchNoConn(c)
      <4> PICK q : q = IF cl[c].saved # 0 THEN Tail(cl[c].rbuf) ELSE cl[c].rbuf
        OBVIOUS
      <4>1. \/ cl' = [cl EXCEPT ![c] = [cl[c] EXCEPT !.phase = "Dispatched", !.rbuf = q]]
            \/ cl' = [cl EXCEPT ![c] = [TakeRequest(cl[c]) EXCEPT !.phase = "Dispatched"]]
        BY <1>1, <3>1 DEF DispatchNoConn
      <4> HIDE DEF TakeRequest
      <4> QED BY <3>1, <4>1 DEF DispatchNoConn
    <3>2. CASE Dispatch(c)
      BY <1>1, <3>2 DEF Dispatch
    <3> QED BY <1>7, <3>1, <3>2
  <2>2. y.n = cl[c].n /\ y.attempts = cl[c].attempts
    BY <1>1, <2>1 DEF ClientShape, TakeRequest
  <2> QED BY <1>1, <2>1, <2>2 DEF ButClient, Tried
<1>8. CASE Failed(c)
  <2>1. CASE cl' = cl
    BY <2>1 DEF ButClient, Tried, Steady
  <2>2. ASSUME NEW v \in Venue, MayFailOver(c),
               cl' = [cl EXCEPT ![c].up = NoUp, ![c].attempts = @ + 1, ![c].slot = v,
                                ![c].rbuf = <<cl[c].saved>> \o @]
        PROVE  ButClient(cl', cl, c) /\ Tried(c)
    BY <1>1, <2>2 DEF ButClient, Tried, FailedOver
  <2> QED BY <1>8, <2>1, <2>2 DEF Failed
<1>9. CASE Error(c)
  <2>1. CASE cl' = cl
    BY <2>1 DEF ButClient, Tried, Steady
  <2>2. ASSUME NEW o, cl' = [cl EXCEPT ![c].out = o, ![c].phase = "Replying",
                                       ![c].closeAfter = TRUE, ![c].up = NoUp]
        PROVE  ButClient(cl', cl, c) /\ Tried(c)
    BY <1>1, <2>2 DEF ClientShape, ButClient, Tried, Steady
  <2> QED BY <1>4, <1>9, <2>1, <2>2 DEF Error, CloseClient
<1>10. ASSUME NEW o, cl' = [cl EXCEPT ![c].out = o]
       PROVE  ButClient(cl', cl, c) /\ Tried(c)
  BY <1>1, <1>10 DEF ClientShape, ButClient, Tried, Steady
<1>11. CASE Respond(c)
  <2>1. CASE cl' = [cl EXCEPT ![c] = [SinkEmit(cl[c]) EXCEPT !.out = <<>>, !.phase = "Idle"]]
    BY <1>1, <2>1 DEF ClientShape, ButClient, Tried, Steady, SinkEmit
  <2> QED BY <1>4, <1>10, <1>11, <2>1 DEF Respond, Finish, CloseClient
<1>12. CASE StreamFlush(c)
  <2>1. ASSUME NEW o, NEW b, cl' = [cl EXCEPT ![c].out = o, ![c].terminated = b]
        PROVE  ButClient(cl', cl, c) /\ Tried(c)
    BY <1>1, <2>1 DEF ClientShape, ButClient, Tried, Steady
  <2>2. CASE cl' = [cl EXCEPT ![c] = [SinkEmit(cl[c]) EXCEPT !.up = NoUp, !.out = <<>>, !.phase = "Idle",
                                                           !.streaming = FALSE]]
    BY <1>1, <2>2 DEF ClientShape, ButClient, Tried, Steady, SinkEmit
  <2>3. CASE FinalizeStream(c)
    <3>1. cl' = [cl EXCEPT ![c] = Closed(c)]
          \/ cl' = [cl EXCEPT ![c] = [SinkEmit(cl[c]) EXCEPT !.up = NoUp, !.out = <<>>, !.phase = "Idle",
                                                           !.streaming = FALSE]]
      BY <2>3 DEF FinalizeStream
    <3> QED BY <1>4, <2>2, <3>1
  <2>4. \/ CloseClient(c) \/ FinalizeStream(c)
        \/ \E o : cl' = [cl EXCEPT ![c].out = o, ![c].terminated = @ \/ Terminates(c)]
    BY <1>12 DEF StreamFlush
  <2>5. ASSUME NEW o, cl' = [cl EXCEPT ![c].out = o, ![c].terminated = @ \/ Terminates(c)]
        PROVE  ButClient(cl', cl, c) /\ Tried(c)
    <3>1. PICK b : cl' = [cl EXCEPT ![c].out = o, ![c].terminated = b]
      BY <1>1, <2>5
    <3> QED BY <2>1, <3>1
  <2> QED BY <1>4, <2>3, <2>4, <2>5 DEF CloseClient
<1> QED BY <1>2, <1>3, <1>5, <1>6, <1>7, <1>8, <1>9, <1>11, <1>12

LEMMA TriedUp ==
  ASSUME Inv, NEW u \in Up, NEW d \in Client,
         \/ SendUpstream(u) \/ UpstreamLost(u) \/ UpstreamBytes(u) \/ UpstreamEof(u)
         \/ StreamPump(u) \/ StreamEof(u)
  PROVE  Tried(d)
<1> PICK c : c = us[u].c
  OBVIOUS
<1>2. CASE cl' = cl
  BY <1>2 DEF Tried, Steady
<1>3. ASSUME cl' # cl
      PROVE  /\ c \in Client /\ cl[c].phase \in {"Dispatched", "Responding", "Streaming"}
             /\ ClientShape(cl[c]) /\ DOMAIN cl = Client
  <2>1. PICK op \in UpOps \ {"upEof"} : Runs(op, u)
    BY <1>3 DEF SendUpstream, UpstreamLost, UpstreamBytes, UpstreamEof, StreamPump, StreamEof, UpOps
  <2>2. c \in Client /\ cl[c].up # NoUp
    BY <2>1, RunsPaired
  <2>3. Local(c, cl[c], At(todo, c), Gated(todo, c), recs, answered)
    BY <2>2 DEF Inv
  <2>4. cl[c].phase \in Phases /\ cl[c].phase \notin {"Idle", "Replying"}
    BY <2>2, <2>3 DEF Local, ClientSound, Mode, ClientShape
  <2> QED BY <2>2, <2>4, ShapeOf DEF Phases
<1>4. ASSUME NEW y, cl' # cl, cl' = [cl EXCEPT ![c] = y], Steady(y, cl[c]) \/ y = Closed(c)
      PROVE  Tried(d)
  BY <1>3, <1>4 DEF Tried, Steady
<1>5. CASE SendUpstream(u) \/ UpstreamEof(u)
  BY <1>2, <1>5 DEF SendUpstream, UpstreamEof
<1>6. CASE UpstreamLost(u)
  <2>1. ASSUME NEW w, cl' # cl, cl' = [cl EXCEPT ![c].up = w] PROVE Tried(d)
    <3>1. Steady([cl[c] EXCEPT !.up = w], cl[c])
      BY <1>3, <2>1 DEF ClientShape, Steady
    <3> QED BY <1>3, <1>4, <2>1, <3>1
  <2> QED BY <1>2, <1>6, <2>1 DEF UpstreamLost
<1>7. CASE UpstreamBytes(u)
  <2>1. ASSUME NEW o, cl' # cl,
               cl' = [cl EXCEPT ![c].up = NoUp, ![c].phase = "Replying", ![c].out = o]
        PROVE  Tried(d)
    <3>1. Steady([cl[c] EXCEPT !.up = NoUp, !.phase = "Replying", !.out = o], cl[c])
      BY <1>3, <2>1 DEF ClientShape, Steady
    <3> QED BY <1>3, <1>4, <2>1, <3>1
  <2>2. ASSUME cl' # cl, cl' = [cl EXCEPT ![c].up = NoUp] PROVE Tried(d)
    <3>1. Steady([cl[c] EXCEPT !.up = NoUp], cl[c])
      BY <1>3, <2>2 DEF ClientShape, Steady
    <3> QED BY <1>3, <1>4, <2>2, <3>1
  <2>3. ASSUME NEW b, NEW h, NEW k, NEW o, cl' # cl,
               cl' = [cl EXCEPT ![c].streaming = TRUE, ![c].phase = "Streaming", ![c].body = b,
                                ![c].keepUp = k, ![c].chunkedOut = h, ![c].out = o]
        PROVE  Tried(d)
    <3> DEFINE y == [cl[c] EXCEPT !.streaming = TRUE, !.phase = "Streaming", !.body = b,
                                  !.keepUp = k, !.chunkedOut = h, !.out = o]
    <3>1. Steady(y, cl[c])
      BY <1>3, <2>3 DEF ClientShape, Steady
    <3>2. cl' = [cl EXCEPT ![c] = y]
      BY <1>3, <2>3
    <3> HIDE DEF y
    <3> QED BY <1>4, <2>3, <3>1, <3>2
  <2>4. CASE BeginStream(u)
    <3>1. PICK k \in BOOLEAN :
            cl' = [cl EXCEPT ![c].streaming = TRUE, ![c].phase = "Streaming",
                             ![c].body = Head(us[u].rbuf).k, ![c].keepUp = k,
                             ![c].chunkedOut = (cl[c].msg = "keep"),
                             ![c].out = Append(@, [r |-> Head(us[u].rbuf).r, k |-> "head"])]
      BY <2>4 DEF BeginStream
    <3> PICK b, h, o : b = Head(us[u].rbuf).k /\ h = (cl[c].msg = "keep")
                       /\ o = Append(cl[c].out, [r |-> Head(us[u].rbuf).r, k |-> "head"])
      OBVIOUS
    <3>2. cl' # cl => cl' = [cl EXCEPT ![c].streaming = TRUE, ![c].phase = "Streaming",
                                       ![c].body = b, ![c].keepUp = k, ![c].chunkedOut = h,
                                       ![c].out = o]
      BY <1>3, <3>1
    <3>3. CASE cl' # cl
      <4>1. cl' = [cl EXCEPT ![c].streaming = TRUE, ![c].phase = "Streaming",
                             ![c].body = b, ![c].keepUp = k, ![c].chunkedOut = h,
                             ![c].out = o]
        BY <3>2, <3>3
      <4> QED BY ONLY <2>3, <3>3, <4>1
    <3> QED BY <1>2, <3>3
  <2>5. ASSUME NEW len, OnResponse(u, len) PROVE Tried(d)
    <3> PICK o : o = Append(cl[c].out, [r |-> Head(us[u].rbuf).r, k |-> "w"])
      OBVIOUS
    <3>1. \/ cl' = [cl EXCEPT ![c].up = NoUp, ![c].phase = "Replying", ![c].out = o]
          \/ cl' = [cl EXCEPT ![c].up = NoUp]
      BY <2>5 DEF OnResponse
    <3> QED BY <1>2, <2>1, <2>2, <3>1
  <2>6. cl' = cl \/ BeginStream(u) \/ \E len \in {1, 2} : OnResponse(u, len)
    BY <1>7 DEF UpstreamBytes
  <2> QED BY <1>2, <2>4, <2>5, <2>6
<1>8. ASSUME NEW st PROVE ClientShape(cl[c]) => Steady(Stepped(c, st), cl[c])
                          /\ Steady([Stepped(c, st) EXCEPT !.up = NoUp], cl[c])
  <2> PICK o, e, f : o = cl[c].out \o st.items /\ e = (cl[c].ended \/ st.end # "Ok")
                     /\ f = (cl[c].closeAfter \/ st.end = "Failed")
    OBVIOUS
  <2>1. Stepped(c, st) = [cl[c] EXCEPT !.out = o, !.bodyDone = st.done, !.said = st.said,
                                       !.bad = st.bad, !.ended = e, !.closeAfter = f]
    BY DEF Stepped
  <2> QED BY <2>1 DEF ClientShape, Steady
<1>9. CASE StreamPump(u)
  <2> PICK st : st = StreamStep(c, u, FALSE)
    OBVIOUS
  <2>1. CloseClient(c) \/ cl' = [cl EXCEPT ![c] = Stepped(c, st)]
    BY <1>9 DEF StreamPump
  <2> QED BY <1>2, <1>3, <1>4, <1>8, <2>1 DEF CloseClient
<1>10. CASE StreamEof(u)
  <2> PICK st : st = StreamStep(c, u, TRUE)
    OBVIOUS
  <2>1. cl' = [cl EXCEPT ![c] = [Stepped(c, st) EXCEPT !.up = NoUp]]
    BY <1>10 DEF StreamEof
  <2> QED BY <1>2, <1>3, <1>4, <1>8, <2>1
<1> QED BY <1>5, <1>6, <1>7, <1>9, <1>10

LEMMA TriedEvent ==
  ASSUME Inv, NEW d \in Client, Event
  PROVE  Tried(d)
<1>1. DOMAIN cl = Client /\ \A c \in Client : ClientShape(cl[c])
  BY ShapeOf
<1>2. CASE cl' = cl
  BY <1>2 DEF Tried, Steady
<1>3. ASSUME NEW c \in Client, NEW y, cl' = [cl EXCEPT ![c] = y], Steady(y, cl[c]) \/ y = Closed(c)
      PROVE  Tried(d)
  BY <1>1, <1>3 DEF Tried, Steady
<1>4. ASSUME NEW c \in Client, cl' = [cl EXCEPT ![c].up = NoUp] PROVE Tried(d)
  <2>1. Steady(Unpairs(cl[c]), cl[c]) /\ cl' = [cl EXCEPT ![c] = Unpairs(cl[c])]
    BY <1>1, <1>4 DEF ClientShape, Steady, Unpairs
  <2> QED BY <1>3, <2>1
<1>5. ASSUME NEW c \in Client, Accept(c) PROVE Tried(d)
  <2>1. Steady(Accepts(cl[c]), cl[c]) /\ cl' = [cl EXCEPT ![c] = Accepts(cl[c])]
    BY <1>1, <1>5 DEF ClientShape, Steady, Accepts, Accept
  <2> QED BY <1>3, <2>1
<1>6. ASSUME NEW c \in Client, ClientSends(c) PROVE Tried(d)
  <2>1. CASE cl' = [cl EXCEPT ![c].half = FALSE]
    <3>1. Steady(Completes(cl[c]), cl[c]) /\ cl' = [cl EXCEPT ![c] = Completes(cl[c])]
      BY <1>1, <2>1 DEF ClientShape, Steady, Completes
    <3> QED BY <1>3, <3>1
  <2>2. ASSUME NEW h, cl' = [cl EXCEPT ![c].rbuf = Append(@, cl[c].sent + 1), ![c].sent = @ + 1,
                                       ![c].half = h]
        PROVE  Tried(d)
    <3>1. Steady(Received(cl[c], h), cl[c]) /\ cl' = [cl EXCEPT ![c] = Received(cl[c], h)]
      BY <1>1, <2>2 DEF ClientShape, Steady, Received
    <3> QED BY <1>3, <3>1
  <2> QED BY <1>6, <2>1, <2>2 DEF ClientSends
<1>7. ASSUME NEW c \in Client, ClientGone(c) \/ SweepClose(c) PROVE Tried(d)
  <2>1. cl' = [cl EXCEPT ![c] = Closed(c)]
    BY <1>7 DEF ClientGone, SweepClose, CloseClient
  <2> QED BY <1>3, <2>1
<1>8. ASSUME NEW c \in Client, ClientWritable(c) \/ SweepSilent(c) PROVE Tried(d)
  BY <1>2, <1>8 DEF ClientWritable, SweepSilent
<1>9. ASSUME NEW c \in Client, SweepConnect(c) PROVE Tried(d)
  BY <1>4, <1>9 DEF SweepConnect
<1>10. ASSUME NEW u \in Up, UpstreamWritable(u) \/ IdleDrop(u) PROVE Tried(d)
  BY <1>2, <1>10 DEF UpstreamWritable, IdleDrop
<1>11. ASSUME NEW u \in Up, ConnectError(u) PROVE Tried(d)
  <2>1. us[u].c \in Client /\ cl' = [cl EXCEPT ![us[u].c].up = NoUp]
    BY <1>11, UnfitPaired, PairedUp DEF ConnectError, ForgetUp
  <2> QED BY <1>4, <2>1
<1>12. ASSUME NEW u \in Up, VenueSends(u) PROVE Tried(d)
  <2>1. us[u].c \in Client
    BY <1>12, PairedUp DEF VenueSends
  <2>2. cl' = cl \/ cl' = [cl EXCEPT ![us[u].c].phase = "Responding"]
    BY <1>12 DEF VenueSends, Drained
  <2>3. CASE cl' = [cl EXCEPT ![us[u].c].phase = "Responding"]
    <3> PICK c \in Client : c = us[u].c
      BY <2>1
    <3>1. Steady(Hears(cl[c]), cl[c]) /\ cl' = [cl EXCEPT ![c] = Hears(cl[c])]
      BY <1>1, <2>3 DEF ClientShape, Steady, Hears
    <3> QED BY <1>3, <3>1
  <2> QED BY <1>2, <2>2, <2>3
<1> QED BY <1>5, <1>6, <1>7, <1>8, <1>9, <1>10, <1>11, <1>12 DEF Event, Sweep

LEMMA AllTried ==
  ASSUME Inv, [Next]_vars, NEW d \in Client
  PROVE  Tried(d)
<1>1. CASE UNCHANGED vars
  BY <1>1 DEF vars, Tried, Steady
<1>2. CASE Internal
  <2>1. ASSUME NEW c \in Client,
               \/ Gate(c) \/ FrameNothing(c) \/ FrameContinue(c) \/ Frame(c)
               \/ DispatchRefused(c) \/ DispatchNoConn(c) \/ Dispatch(c)
               \/ Failed(c) \/ Error(c) \/ Respond(c) \/ StreamFlush(c)
        PROVE  Tried(d)
    BY <2>1, TriedClient, OthersTried
  <2> QED BY <1>2, <2>1, TriedUp DEF Internal
<1> QED BY <1>1, <1>2, TriedEvent DEF Next

-----------------------------------------------------------------------------
(* Who dispatches.                                                         *)

\* No client is about to dispatch.
Undispatched == \A d \in Client : At(todo', d) # "dispatch"

LEMMA ThenOther ==
  ASSUME Inv, todo # <<>>, NEW q, Then(q),
         \/ q = <<>> \/ \E c \in Client : q = Bytes(c)
         \/ \E op \in (ClientOps \cup UpOps) \ {"dispatch"} : \E x : q = <<<<op, x>>>>
  PROVE  Undispatched
<1>1. StackSound(todo) /\ RestSound(Tail(todo)) /\ Tail(todo) \in Seq(Entries)
  BY TailRest DEF Inv, RestSound
<1> DEFINE r == Tail(todo)
<1>2. todo' = q \o r
  BY DEF Then
<1> HIDE DEF r
<1>3. r \in Seq(Entries) /\ \A i \in 1..Len(r) : r[i][1] \in {"gate", "upEof"}
  BY <1>1 DEF r, RestSound
<1>4. CASE q = <<>>
  <2>1. todo' = r
    BY <1>2, <1>3, <1>4, ConcatEmptySeq
  <2>2. r # <<>> => 1 \in 1..Len(r)
    BY <1>3, EmptySeq
  <2> QED BY <1>3, <2>1, <2>2 DEF Undispatched, At
<1>5. ASSUME NEW op, NEW x, op # "dispatch", todo'[1] = <<op, x>>
      PROVE  Undispatched
  BY <1>5 DEF Undispatched, At
<1>6. ASSUME NEW c \in Client, q = Bytes(c) PROVE Undispatched
  <2>1. q = <<<<"frame", c>>, <<"gate", c>>>> /\ q \in Seq(Entries)
    BY <1>6 DEF Bytes, Entries, ClientOps
  <2>2. Len(q) = 2 /\ q[1] = <<"frame", c>>
    BY <2>1
  <2>3. todo'[1] = <<"frame", c>>
    BY <1>2, <1>3, <2>1, <2>2, ConcatProperties
  <2> QED BY <1>5, <2>3
<1>7. ASSUME NEW op \in (ClientOps \cup UpOps) \ {"dispatch"}, NEW x, q = <<<<op, x>>>>
      PROVE  Undispatched
  <2> DEFINE e == <<op, x>>
             S == Entries \cup {e}
  <2>1. todo' = <<e>> \o r /\ e[1] = op
    BY <1>2, <1>7
  <2> HIDE DEF e
  <2>2. <<e>> \in Seq(S) /\ r \in Seq(S) /\ Len(<<e>>) = 1 /\ <<e>>[1] = e
    BY <1>3, SeqMonotonic
  <2> HIDE DEF S
  <2>3. todo'[1] = e
    BY <2>1, <2>2, ConcatProperties
  <2> QED BY <1>5, <1>7, <2>3 DEF e
<1> QED BY <1>4, <1>6, <1>7

\* Of all a client's handlers only a frame and a failover dispatch, and their
\* own client.
LEMMA OnlyDispatches ==
  ASSUME Inv, NEW c \in Client, NEW d \in Client, NEW op \in ClientOps \ {"gate"}, Runs(op, c),
         Then(<<<<"dispatch", c>>>>), At(todo', d) = "dispatch"
  PROVE  d = c
<1>1. StackSound(todo) /\ todo # <<>> /\ todo[1][1] # "gate"
  BY RunsClient
<1>2. Goes(todo, todo', c, "dispatch")
  BY <1>1, CallsClient DEF Then, ClientOps
<1> QED BY <1>2 DEF Goes

LEMMA DueClient ==
  ASSUME Inv, NEW c \in Client, NEW d \in Client, At(todo', d) = "dispatch",
         \/ Gate(c) \/ FrameNothing(c) \/ FrameContinue(c) \/ Frame(c)
         \/ DispatchRefused(c) \/ DispatchNoConn(c) \/ Dispatch(c)
         \/ Failed(c) \/ Error(c) \/ Respond(c) \/ StreamFlush(c)
  PROVE  Frame(d) \/ (MayFailOver(d) /\ \E v \in Venue : cl'[d] = FailedOver(cl[d], v))
<1>1. ~Undispatched /\ DOMAIN cl = Client
  BY DEF Undispatched, Inv
<1>2. ~(todo # <<>> /\ Return)
  BY <1>1, ThenOther DEF Return
<1>3. ASSUME NEW op \in (ClientOps \cup UpOps) \ {"dispatch"}, NEW x
      PROVE  ~(todo # <<>> /\ Then(<<<<op, x>>>>))
  BY <1>1, <1>3, ThenOther
<1>4. ~(todo # <<>> /\ Then(Bytes(c)))
  BY <1>1, ThenOther
<1>5. \A x : ~(todo # <<>> /\ Then(<<<<"error", x>>>>)) /\ ~(todo # <<>> /\ Then(<<<<"failed", x>>>>))
             /\ ~(todo # <<>> /\ Then(<<<<"respond", x>>>>)) /\ ~(todo # <<>> /\ Then(<<<<"send", x>>>>))
  BY <1>3 DEF ClientOps, UpOps
<1>6. CASE Gate(c) \/ FrameNothing(c) \/ FrameContinue(c) \/ DispatchRefused(c)
  BY <1>2, <1>5, <1>6 DEF Gate, FrameNothing, FrameContinue, DispatchRefused, Runs
<1>7. CASE DispatchNoConn(c) \/ Dispatch(c)
  BY <1>2, <1>5, <1>7 DEF DispatchNoConn, Dispatch, Runs
<1>8. CASE Error(c)
  BY <1>2, <1>5, <1>8 DEF Error, Runs
<1>9. CASE Respond(c)
  BY <1>2, <1>4, <1>9 DEF Respond, Finish, Runs
<1>10. CASE StreamFlush(c)
  <2>1. ~(todo # <<>> /\ Then(<<>>))
    BY <1>2 DEF Return
  <2>2. ~(todo # <<>> /\ FinalizeStream(c))
    <3>1. FinalizeStream(c) => Then(Bytes(c)) \/ Then(<<>>)
      BY DEF FinalizeStream
    <3> QED BY <1>4, <2>1, <3>1
  <2> QED BY <1>2, <1>10, <2>2 DEF StreamFlush, Runs
<1>11. CASE Frame(c)
  <2>1. Runs("frame", c) /\ todo # <<>> /\ (Then(<<<<"error", c>>>>) \/ Then(<<<<"dispatch", c>>>>))
    BY <1>11 DEF Frame, Runs
  <2>2. d = c
    BY <1>5, <2>1, OnlyDispatches DEF ClientOps
  <2> QED BY <1>11, <2>2
<1>12. CASE Failed(c)
  <2>1. Runs("failed", c) /\ todo # <<>>
    BY <1>12 DEF Failed, Runs
  <2>2. PICK v \in Venue : /\ MayFailOver(c) /\ Then(<<<<"dispatch", c>>>>)
                           /\ cl' = [cl EXCEPT ![c].up = NoUp, ![c].attempts = @ + 1, ![c].slot = v,
                                               ![c].rbuf = <<cl[c].saved>> \o @]
    BY <1>5, <1>12, <2>1 DEF Failed
  <2>3. d = c
    BY <2>1, <2>2, OnlyDispatches DEF ClientOps
  <2>4. cl'[d] = FailedOver(cl[d], v)
    BY <1>1, <2>2, <2>3 DEF FailedOver
  <2> QED BY <2>2, <2>3, <2>4
<1> QED BY <1>6, <1>7, <1>8, <1>9, <1>10, <1>11, <1>12

LEMMA DueUp ==
  ASSUME Inv, NEW u \in Up,
         \/ SendUpstream(u) \/ UpstreamLost(u) \/ UpstreamBytes(u) \/ UpstreamEof(u)
         \/ StreamPump(u) \/ StreamEof(u)
  PROVE  Undispatched
<1>1. todo # <<>>
  BY DEF SendUpstream, UpstreamLost, UpstreamBytes, UpstreamEof, StreamPump, StreamEof, Runs
<1>2. Return => Undispatched
  BY <1>1, ThenOther DEF Return
<1>3. ASSUME NEW op \in (ClientOps \cup UpOps) \ {"dispatch"}, NEW x, Then(<<<<op, x>>>>)
      PROVE  Undispatched
  BY <1>1, <1>3, ThenOther
<1>4. \A x : (Then(<<<<"error", x>>>>) \/ Then(<<<<"failed", x>>>>) \/ Then(<<<<"respond", x>>>>)
              \/ Then(<<<<"lost", x>>>>) \/ Then(<<<<"pump", x>>>>) \/ Then(<<<<"pumpEof", x>>>>)
              \/ Then(<<<<"flush", x>>>>)) => Undispatched
  BY <1>3 DEF ClientOps, UpOps
<1>5. CASE SendUpstream(u) \/ UpstreamLost(u)
  BY <1>2, <1>4, <1>5 DEF SendUpstream, UpstreamLost
<1>6. CASE UpstreamBytes(u)
  BY <1>2, <1>4, <1>6 DEF UpstreamBytes, OnResponse, BeginStream
<1>7. CASE UpstreamEof(u)
  BY <1>2, <1>4, <1>7 DEF UpstreamEof
<1>8. CASE StreamPump(u) \/ StreamEof(u)
  BY <1>2, <1>4, <1>8 DEF StreamPump, StreamEof
<1> QED BY <1>5, <1>6, <1>7, <1>8

LEMMA DueEvent ==
  ASSUME Inv, Event
  PROVE  Undispatched
<1>1. ASSUME NEW q, Calls(q), NEW op, op # "dispatch", NEW x, q # <<>> => q[1] = <<op, x>>
      PROVE  Undispatched
  BY <1>1 DEF Calls, Undispatched, At
<1>2. ASSUME Quiet, UNCHANGED todo PROVE Undispatched
  BY <1>2 DEF Quiet, Undispatched, At
<1>3. ASSUME NEW op, NEW x, op # "dispatch", Calls(<<<<op, x>>>>) PROVE Undispatched
  BY <1>1, <1>3
<1>4. ASSUME NEW c \in Client, Accept(c) \/ ClientGone(c) \/ SweepClose(c) PROVE Undispatched
  BY <1>2, <1>4 DEF Accept, ClientGone, SweepClose
<1>5. ASSUME NEW c \in Client, ClientSends(c) PROVE Undispatched
  <2>1. Calls(Bytes(c)) /\ Bytes(c)[1] = <<"frame", c>>
    BY <1>5 DEF ClientSends, Bytes
  <2> QED BY <1>1, <2>1
<1>6. ASSUME NEW c \in Client, ClientWritable(c) \/ SweepConnect(c) \/ SweepSilent(c)
      PROVE  Undispatched
  <2>1. Calls(<<<<"flush", c>>>>) \/ Calls(<<<<"respond", c>>>>) \/ Calls(<<<<"failed", c>>>>)
        \/ Calls(<<<<"error", c>>>>)
    BY <1>6 DEF ClientWritable, SweepConnect, SweepSilent
  <2> QED BY <1>3, <2>1
<1>7. ASSUME NEW u \in Up, UpstreamWritable(u) \/ ConnectError(u) PROVE Undispatched
  BY <1>3, <1>7 DEF UpstreamWritable, ConnectError
<1>8. ASSUME NEW u \in Up, IdleDrop(u) PROVE Undispatched
  BY <1>2, <1>8 DEF IdleDrop
<1>9. ASSUME NEW u \in Up, VenueSends(u) PROVE Undispatched
  <2>1. PICK seg, eof : Drained(u, seg, eof)
    BY <1>9 DEF VenueSends
  <2> DEFINE b == <<"upBytes", u>>
             e == <<"upEof", u>>
  <2>2. \E x \in {<<>>, <<b>>}, y \in {<<>>, <<e>>} : Calls(x \o y)
    BY <2>1 DEF Drained
  <2>3. b[1] = "upBytes" /\ e[1] = "upEof"
    OBVIOUS
  <2> HIDE DEF b, e
  <2>4. <<b>> \o <<>> = <<b>> /\ <<>> \o <<e>> = <<e>> /\ <<b>> \o <<e>> = <<b, e>> /\ <<>> \o <<>> = <<>>
    BY ConcatTwo, ConcatEmptySeq, EmptySeq
  <2>5. \E q \in {<<>>, <<b>>, <<e>>, <<b, e>>} : Calls(q)
    BY <2>2, <2>4
  <2>6. todo' = <<>> \/ todo'[1] = b \/ todo'[1] = e
    BY <2>5 DEF Calls
  <2> QED BY <2>3, <2>6 DEF Undispatched, At
<1> QED BY <1>4, <1>5, <1>6, <1>7, <1>8, <1>9 DEF Event, Sweep

LEMMA AllDue ==
  ASSUME Inv, [Next]_vars, NEW d \in Client, At(todo', d) = "dispatch"
  PROVE  \/ UNCHANGED vars
         \/ Frame(d)
         \/ MayFailOver(d) /\ \E v \in Venue : cl'[d] = FailedOver(cl[d], v)
<1>1. ~Undispatched
  BY DEF Undispatched
<1>2. CASE Internal
  BY <1>1, <1>2, DueClient, DueUp DEF Internal
<1> QED BY <1>1, <1>2, DueEvent DEF Next

-----------------------------------------------------------------------------
(* Retries: a connection that is one stays marked.                         *)

\* An upstream in a client's hands that is not yet a retry was so before.
KeepsRetry(y, x) == y.c = NoClient \/ y.retried \/ (y.c = x.c /\ y.retried = x.retried)
RetriesKept  == \A u \in Up : KeepsRetry(us'[u], us[u])

LEMMA KeptFrees ==
  ASSUME DOMAIN us = Up
  PROVE  /\ us' = us => RetriesKept
         /\ \A u \in Up : us' = FreeUp(u) => RetriesKept
         /\ \A u \in Up : \A y : us' = [us EXCEPT ![u] = y] /\ KeepsRetry(y, us[u]) => RetriesKept
         /\ \A c \in Client : cl[c].up \in Up \cup {NoUp} /\ us' = DropUp(c) => RetriesKept
<1>1. us' = us => RetriesKept
  BY DEF RetriesKept, KeepsRetry
<1>2. \A u \in Up : \A y : us' = [us EXCEPT ![u] = y] /\ KeepsRetry(y, us[u]) => RetriesKept
  BY DEF RetriesKept, KeepsRetry
<1>3. \A u \in Up : us' = FreeUp(u) => RetriesKept
  BY <1>2 DEF FreeUp, NewUp, KeepsRetry
<1>4. \A c \in Client : cl[c].up \in Up \cup {NoUp} /\ us' = DropUp(c) => RetriesKept
  BY <1>1, <1>3 DEF DropUp
<1> QED BY <1>1, <1>2, <1>3, <1>4

LEMMA KeptEdits ==
  ASSUME DOMAIN us = Up, NEW u \in Up, UpShape(us[u]), NEW a, NEW b,
         \/ us' = [us EXCEPT ![u].wire = a] \/ us' = [us EXCEPT ![u].paused = a]
         \/ us' = [us EXCEPT ![u].rbuf = a] \/ us' = [us EXCEPT ![u].eof = a]
         \/ us' = [us EXCEPT ![u].st = a]
         \/ us' = [us EXCEPT ![u].c = NoClient, ![u].rbuf = a, ![u].paused = FALSE]
  PROVE  RetriesKept
<1> DEFINE x == us[u]
<1>1. PICK y : us' = [us EXCEPT ![u] = y]
               /\ y \in {[x EXCEPT !.wire = a], [x EXCEPT !.paused = a], [x EXCEPT !.rbuf = a],
                         [x EXCEPT !.eof = a], [x EXCEPT !.st = a],
                         [x EXCEPT !.c = NoClient, !.rbuf = a, !.paused = FALSE]}
  OBVIOUS
<1>2. KeepsRetry(y, x)
  <2> HIDE DEF x
  <2>1. UpShape(x)
    BY DEF x
  <2> QED BY <1>1, <2>1 DEF UpShape, KeepsRetry
<1> QED BY <1>1, <1>2, KeptFrees

LEMMA KeptReleases ==
  ASSUME Inv, NEW u \in Up, NEW left, NEW k, NEW e, ReleaseUp(u, left, k, e)
  PROVE  RetriesKept
<1>1. DOMAIN us = Up /\ UpShape(us[u])
  BY DEF Inv, Owned, UpSound
<1>2. us' = FreeUp(u) \/ us' = [us EXCEPT ![u].c = NoClient, ![u].rbuf = left, ![u].paused = FALSE]
  BY DEF ReleaseUp
<1> QED BY <1>1, <1>2, KeptFrees, KeptEdits

LEMMA KeptClient ==
  ASSUME Inv, NEW c \in Client,
         \/ Gate(c) \/ FrameNothing(c) \/ FrameContinue(c) \/ Frame(c)
         \/ DispatchRefused(c) \/ DispatchNoConn(c)
         \/ Failed(c) \/ Error(c) \/ Respond(c) \/ StreamFlush(c)
  PROVE  RetriesKept
<1>1. DOMAIN us = Up /\ cl[c].up \in Up \cup {NoUp} /\ \A u \in Up : UpShape(us[u])
  BY DEF Inv, Owned, UpSound, Local, ClientSound, ClientShape
<1>2. us' = us \/ us' = DropUp(c) => RetriesKept
  BY <1>1, KeptFrees
<1>3. CASE Gate(c) \/ FrameNothing(c) \/ FrameContinue(c) \/ Frame(c) \/ DispatchRefused(c) \/ DispatchNoConn(c)
  BY <1>2, <1>3 DEF Gate, FrameNothing, FrameContinue, Frame, DispatchRefused, DispatchNoConn, CloseClient
<1>4. CASE Failed(c) \/ Error(c)
  BY <1>2, <1>4 DEF Failed, Error, CloseClient
<1>5. CASE Respond(c)
  BY <1>2, <1>5 DEF Respond, Finish, CloseClient
<1>6. CASE StreamFlush(c)
  <2>1. ASSUME cl[c].up # NoUp PROVE cl[c].up \in Up
    BY <1>1, <2>1
  <2>2. ASSUME cl[c].up # NoUp, NEW b \in BOOLEAN, us' = [us EXCEPT ![cl[c].up].paused = b]
        PROVE  RetriesKept
    BY <1>1, <2>1, <2>2, KeptEdits
  <2>3. CASE FinalizeStream(c)
    <3>1. us' = us \/ (cl[c].up # NoUp /\ \E left, k, e : ReleaseUp(cl[c].up, left, k, e))
      BY <2>3 DEF FinalizeStream
    <3> QED BY <1>2, <2>1, <3>1, KeptReleases
  <2>4. \/ CloseClient(c) \/ FinalizeStream(c) \/ us' = us
        \/ cl[c].up # NoUp /\ \E b \in BOOLEAN : us' = [us EXCEPT ![cl[c].up].paused = b]
    BY <1>6 DEF StreamFlush
  <2> QED BY <1>2, <2>2, <2>3, <2>4 DEF CloseClient
<1> QED BY <1>3, <1>4, <1>5, <1>6

LEMMA KeptUp ==
  ASSUME Inv, NEW u \in Up,
         \/ SendUpstream(u) \/ UpstreamLost(u) \/ UpstreamBytes(u) \/ UpstreamEof(u)
         \/ StreamPump(u) \/ StreamEof(u)
  PROVE  RetriesKept
<1>1. DOMAIN us = Up /\ UpShape(us[u])
  BY DEF Inv, Owned, UpSound
<1>2. us' = us \/ us' = FreeUp(u) => RetriesKept
  BY <1>1, KeptFrees
<1>3. CASE SendUpstream(u)
  BY <1>1, <1>2, <1>3, KeptEdits DEF SendUpstream
<1>4. CASE UpstreamLost(u)
  <2>1. ASSUME NEW w \in Up,
               us' = [us EXCEPT ![u] = NewUp,
                                ![w] = [NewUp EXCEPT !.st = "connecting", !.venue = us[u].venue,
                                                     !.c = us[u].c, !.retried = TRUE, !.ask = us[u].ask]]
        PROVE  RetriesKept
    <3>1. \A v \in Up : us'[v] = us[v] \/ us'[v].c = NoClient \/ us'[v].retried
      BY <1>1, <2>1 DEF NewUp
    <3> QED BY <3>1 DEF RetriesKept, KeepsRetry
  <2>2. us' = us \/ us' = FreeUp(u)
        \/ us' = [us EXCEPT ![u] = NewUp,
                            ![Fresh] = [NewUp EXCEPT !.st = "connecting", !.venue = us[u].venue,
                                                     !.c = us[u].c, !.retried = TRUE, !.ask = us[u].ask]]
    BY <1>4 DEF UpstreamLost
  <2>3. Fresh \in Up
    <3>1. Runs("lost", u)
      BY <1>4 DEF UpstreamLost
    <3>2. us[u].c # NoClient /\ us[u].st # "free" /\ todo # <<>> /\ todo[1] = <<"lost", u>> /\ StackSound(todo)
      BY <3>1, RunsPaired, TailRest DEF UpOps, Inv, Runs, HeadFit, Pair
    <3> QED BY <3>2, FreshFree DEF Inv
  <2> QED BY <1>2, <2>1, <2>2, <2>3
<1>5. CASE UpstreamBytes(u)
  <2>1. CASE BeginStream(u)
    <3>1. PICK a : us' = [us EXCEPT ![u].rbuf = a]
      BY <1>1, <2>1 DEF BeginStream
    <3> QED BY <1>1, <3>1, KeptEdits
  <2>2. ASSUME NEW len, OnResponse(u, len) PROVE RetriesKept
    BY <2>2, KeptReleases DEF OnResponse
  <2> QED BY <1>2, <1>5, <2>1, <2>2 DEF UpstreamBytes
<1>6. CASE UpstreamEof(u)
  BY <1>1, <1>2, <1>6, KeptEdits DEF UpstreamEof
<1>7. CASE StreamPump(u)
  <2>1. Runs("pump", u)
    BY <1>7 DEF StreamPump
  <2>2. us[u].c \in Client /\ cl[us[u].c].up = u /\ u # NoUp
    BY <2>1, RunsPaired DEF UpOps
  <2>3. CloseClient(us[u].c) => us' = FreeUp(u)
    BY <2>2 DEF CloseClient, DropUp
  <2>4. CloseClient(us[u].c) \/ \E a : us' = [us EXCEPT ![u].rbuf = a]
    BY <1>7 DEF StreamPump
  <2> QED BY <1>1, <1>2, <2>3, <2>4, KeptEdits
<1>8. CASE StreamEof(u)
  BY <1>2, <1>8 DEF StreamEof
<1> QED BY <1>3, <1>4, <1>5, <1>6, <1>7, <1>8

LEMMA KeptEvent ==
  ASSUME Inv, Event
  PROVE  RetriesKept
<1>1. DOMAIN us = Up /\ \A u \in Up : UpShape(us[u])
  BY DEF Inv, Owned, UpSound
<1>2. \A c \in Client : cl[c].up \in Up \cup {NoUp}
  BY DEF Inv, Local, ClientSound, ClientShape
<1>3. us' = us => RetriesKept
  BY <1>1, KeptFrees
<1>4. ASSUME NEW c \in Client, Accept(c) \/ ClientSends(c) \/ ClientWritable(c) \/ SweepSilent(c)
      PROVE  RetriesKept
  BY <1>3, <1>4 DEF Accept, ClientSends, ClientWritable, SweepSilent
<1>5. ASSUME NEW c \in Client, ClientGone(c) \/ SweepClose(c) \/ SweepConnect(c) PROVE RetriesKept
  BY <1>1, <1>2, <1>5, KeptFrees DEF ClientGone, SweepClose, SweepConnect, CloseClient
<1>6. ASSUME NEW u \in Up, UpstreamWritable(u) PROVE RetriesKept
  BY <1>1, <1>6, KeptEdits DEF UpstreamWritable
<1>7. ASSUME NEW u \in Up, ConnectError(u) \/ IdleDrop(u) PROVE RetriesKept
  BY <1>1, <1>7, KeptFrees DEF ConnectError, IdleDrop
<1>8. ASSUME NEW u \in Up, VenueSends(u) PROVE RetriesKept
  <2>1. PICK seg, eof : Drained(u, seg, eof)
    BY <1>8 DEF VenueSends
  <2>2. PICK q, a, t, b, e : us' = [us EXCEPT ![u] = [us[u] EXCEPT !.rbuf = q, !.ans = a, !.toks = t,
                                                                 !.extra = b, !.eof = e]]
    BY <1>1, <2>1 DEF Drained
  <2>3. KeepsRetry([us[u] EXCEPT !.rbuf = q, !.ans = a, !.toks = t, !.extra = b, !.eof = e], us[u])
    BY <1>1 DEF UpShape, KeepsRetry
  <2> QED BY <1>1, <2>2, <2>3, KeptFrees
<1> QED BY <1>4, <1>5, <1>6, <1>7, <1>8 DEF Event, Sweep

LEMMA AllKept ==
  ASSUME Inv, [Next]_vars, ~\E c \in Client : Dispatch(c)
  PROVE  RetriesKept
<1>1. CASE UNCHANGED vars
  BY <1>1 DEF vars, RetriesKept, KeepsRetry
<1>2. CASE Internal
  BY <1>2, KeptClient, KeptUp DEF Internal
<1> QED BY <1>1, <1>2, KeptEvent DEF Next

\* A client's upstream is its first for this attempt: not a retry's.
First(c) == cl[c].up # NoUp /\ ~us[cl[c].up].retried

LEMMA FirstBefore ==
  ASSUME Inv, [Next]_vars, Inv', NEW d \in Client, ~Dispatch(d), First(d)'
  PROVE  First(d)
<1> DEFINE u == cl'[d].up
<1>1. u \in Up /\ us'[u].c = d /\ ~us'[u].retried
  BY DEF First, Inv, Owned, Pairs, Pair
<1>2. DOMAIN us = Up /\ DOMAIN cl = Client /\ NoUp \notin Up /\ NoClient # d
  BY NoUpOut DEF Inv
<1>3. ASSUME us'[u].c = us[u].c, us'[u].retried = us[u].retried PROVE First(d)
  <2>1. us[u].c = d /\ cl[d].up = u
    BY <1>1, <1>2, <1>3 DEF Inv, Owned, Pairs
  <2> QED BY <1>1, <1>2, <1>3, <2>1 DEF First
<1>4. CASE RetriesKept
  BY <1>1, <1>2, <1>3, <1>4 DEF RetriesKept, KeepsRetry
<1>5. ASSUME NEW c \in Client, Dispatch(c) PROVE First(d)
  <2>1. d # c
    BY <1>5
  <2>2. PICK w, y : us' = [us EXCEPT ![w] = y] /\ (w \in Up => y.c = c)
    <3> DEFINE pairs(x, st, v, r, b) ==
                 [x EXCEPT !.st = st, !.venue = v, !.c = c, !.fromPool = b, !.retried = FALSE, !.ask = r,
                           !.wire = "none", !.ans = "none", !.toks = 0, !.extra = FALSE]
    <3>1. PICK w, x, st, v, r, b : us' = [us EXCEPT ![w] = pairs(x, st, v, r, b)]
                                   /\ (x = us[w] \/ x = NewUp)
      BY <1>5 DEF Dispatch
    <3>2. w \in Up => UpShape(us[w])
      BY DEF Inv, Owned, UpSound
    <3>3. w \in Up => "c" \in DOMAIN x
      BY <3>1, <3>2 DEF UpShape, NewUp
    <3>4. w \in Up => pairs(x, st, v, r, b).c = c
      BY <3>3
    <3> HIDE DEF pairs
    <3> QED BY <3>1, <3>4
  <2>3. us'[u] = us[u]
    BY <1>1, <1>2, <2>1, <2>2
  <2> QED BY <1>3, <2>3
<1> QED BY <1>4, <1>5, AllKept

-----------------------------------------------------------------------------
(* The count.                                                              *)

\* The next request in the buffer is the one after the last.
LEMMA NextInLine ==
  ASSUME Inv, NEW c \in Client, At(todo, c) = "frame", CanFrame(c)
  PROVE  Head(cl[c].rbuf) = cl[c].n + 1 /\ cl[c].n \in Nat /\ cl[c].phase = "Idle" /\ cl[c].st = "open"
<1>1. cl[c].phase = "Idle" /\ cl[c].st = "open" /\ cl[c].rbuf # <<>>
  BY DEF CanFrame, Open
<1>2. /\ cl[c].sent \in Nat /\ cl[c].n \in Nat /\ ~cl[c].closeAfter /\ cl[c].n <= cl[c].sent
      /\ UpTo(cl[c].rbuf, cl[c].sent) /\ Len(cl[c].rbuf) = cl[c].sent - cl[c].n
  BY <1>1 DEF Inv, Local, ClientSound, ClientShape, Mode, Pipe
<1>3. Head(cl[c].rbuf) = cl[c].sent - Len(cl[c].rbuf) + 1
  BY <1>1, <1>2, UpToTail
<1> QED BY <1>1, <1>2, <1>3

MostAsks == 2 * (IF Policy THEN MaxAttempts ELSE 1)

\* How often the request in hand has been staged, k, by its attempts, a.
Spent(k, a, phase, at, first) ==
  /\ at = "dispatch" => k <= 2 * a
  /\ phase = "Dispatched" => k <= 2 * a + 2
  /\ phase = "Dispatched" /\ first => k <= 2 * a + 1

AsksInv ==
  /\ AsksOf
  /\ \A c \in Client :
       /\ ~Policy => cl[c].attempts = 0
       /\ \A m \in 1..MaxReq : /\ asks[<<c, m>>] \in 0..MostAsks
                               /\ m > cl[c].n => asks[<<c, m>>] = 0
       /\ Spent(asks[<<c, cl[c].n>>], cl[c].attempts, cl[c].phase, At(todo, c), First(c))

LEMMA Most ==
  ASSUME Inv, AsksInv, NEW c \in Client
  PROVE  /\ MostAsks \in Nat /\ cl[c].attempts \in Nat /\ cl[c].n \in 0..MaxReq /\ MaxReq \in Nat
         /\ 2 * cl[c].attempts + 2 <= MostAsks
         /\ cl[c].phase = "Dispatched" \/ At(todo, c) = "dispatch" =>
              cl[c].n \in 1..MaxReq /\ <<c, cl[c].n>> \in Request
<1>1. /\ ClientShape(cl[c]) /\ MaxAttempts \in Nat \ {0} /\ MaxReq \in Nat
      /\ Mode(cl[c].st, cl[c].phase, cl[c].up, cl[c].n, cl[c].streaming, cl[c].ended,
              cl[c].closeAfter, cl[c].sunk, cl[c].mute, At(todo, c))
  BY LifecycleConstants DEF Inv, Local, ClientSound
<1>2. cl[c].attempts \in 0..(MaxAttempts - 1) /\ cl[c].n \in 0..MaxReq /\ cl[c].phase \in Phases
  BY <1>1 DEF ClientShape
<1>3. ~Policy => cl[c].attempts = 0
  BY DEF AsksInv
<1>4. MostAsks \in Nat /\ cl[c].attempts \in Nat /\ 2 * cl[c].attempts + 2 <= MostAsks
  <2>1. CASE Policy
    <3>1. MostAsks = 2 * MaxAttempts
      BY <2>1 DEF MostAsks
    <3> QED BY <1>1, <1>2, <3>1
  <2>2. CASE ~Policy
    <3>1. MostAsks = 2 /\ cl[c].attempts = 0
      BY <1>3, <2>2 DEF MostAsks
    <3> QED BY <3>1
  <2> QED BY <2>1, <2>2
<1>5. cl[c].phase = "Dispatched" \/ At(todo, c) = "dispatch" => cl[c].n >= 1
  BY <1>1 DEF Mode
<1> QED BY <1>1, <1>2, <1>4, <1>5 DEF Request

\* What AsksInv says of client c after a step.
Remains(c) ==
  /\ ~Policy => cl'[c].attempts = 0
  /\ \A m \in 1..MaxReq : /\ asks'[<<c, m>>] \in 0..MostAsks
                          /\ m > cl'[c].n => asks'[<<c, m>>] = 0
  /\ Spent(asks'[<<c, cl'[c].n>>], cl'[c].attempts, cl'[c].phase, At(todo', c), First(c)')

\* A step that stages none of its requests.
LEMMA NotStaged ==
  ASSUME Inv, AsksInv, [Next]_vars, Inv', NEW d \in Client, ~Dispatch(d),
         \A m \in 1..MaxReq : asks'[<<d, m>>] = asks[<<d, m>>]
  PROVE  Remains(d)
<1> DEFINE x == cl[d]
           y == cl'[d]
           k == asks[<<d, x.n>>]
<1>1. /\ MostAsks \in Nat /\ x.attempts \in Nat /\ x.n \in 0..MaxReq /\ MaxReq \in Nat
      /\ x.phase = "Dispatched" \/ At(todo, d) = "dispatch" => x.n \in 1..MaxReq
  BY Most
<1>2. /\ ~Policy => x.attempts = 0
      /\ \A m \in 1..MaxReq : /\ asks[<<d, m>>] \in 0..MostAsks
                              /\ m > x.n => asks[<<d, m>>] = 0
      /\ Spent(k, x.attempts, x.phase, At(todo, d), First(d))
  BY DEF AsksInv
<1>3. y.n \in 0..MaxReq
  BY DEF Inv, Local, ClientSound, ClientShape
<1>a. First(d)' => First(d)
  BY FirstBefore
<1>4. CASE UNCHANGED vars
  <2>1. cl' = cl /\ us' = us /\ todo' = todo /\ asks' = asks
    BY <1>4 DEF vars
  <2> QED BY <1>2, <2>1 DEF Remains, First
<1>5. CASE Frame(d)
  <2>1. Runs("frame", d) /\ CanFrame(d)
    BY <1>5 DEF Frame
  <2>2. At(todo, d) = "frame"
    BY <2>1, RunsClient DEF ClientOps
  <2>3. Head(x.rbuf) = x.n + 1
    BY <2>1, <2>2, NextInLine
  <2>4. ClientShape(x) /\ DOMAIN cl = Client
    BY ShapeOf
  <2>5. PICK v, w : y = OpenRequest(d, v) \/ y = [OpenRequest(d, v) EXCEPT !.slot = w]
    BY <1>5, <2>4 DEF Frame
  <2>6. y.n = x.n + 1 /\ y.attempts = 0
    <3>1. /\ OpenRequest(d, v).n = Head(x.rbuf) /\ OpenRequest(d, v).attempts = 0
          /\ {"n", "attempts"} \subseteq DOMAIN OpenRequest(d, v)
      BY <2>4 DEF OpenRequest, ClientShape
    <3>2. y.n = OpenRequest(d, v).n /\ y.attempts = OpenRequest(d, v).attempts
      <4> HIDE DEF y
      <4> QED BY <2>5, <3>1
    <3> QED BY <2>3, <3>1, <3>2
  <2>7. y.n \in 1..MaxReq /\ asks'[<<d, y.n>>] = 0
    BY <1>1, <1>2, <1>3, <2>6
  <2>8. Spent(0, 0, y.phase, At(todo', d), First(d)')
    BY DEF Spent
  <2>9. \A m \in 1..MaxReq : m > y.n => m > x.n
    BY <1>1, <1>3, <2>6
  <2> QED BY <1>2, <2>6, <2>7, <2>8, <2>9 DEF Remains
<1>6. ASSUME MayFailOver(d), NEW v \in Venue, y = FailedOver(x, v) PROVE Remains(d)
  <2>1. ClientShape(x) /\ DOMAIN cl = Client
    BY ShapeOf
  <2>2. y.n = x.n /\ y.attempts = x.attempts + 1 /\ x.phase = "Dispatched" /\ Policy
    BY <1>6, <2>1 DEF FailedOver, ClientShape, MayFailOver, CanRedispatch
  <2>3. k <= 2 * x.attempts + 2 /\ k \in 0..MostAsks /\ asks'[<<d, y.n>>] = k
    BY <1>1, <1>2, <2>2 DEF Spent
  <2>4. k <= 2 * y.attempts /\ k <= 2 * y.attempts + 1 /\ k <= 2 * y.attempts + 2
    BY <1>1, <2>2, <2>3
  <2>5. Spent(k, y.attempts, y.phase, At(todo', d), First(d)')
    BY <2>4 DEF Spent
  <2> QED BY <1>2, <2>2, <2>3, <2>5 DEF Remains
<1>7. ASSUME At(todo', d) # "dispatch", y.n = x.n, y.attempts = x.attempts,
             \/ y.phase = "Dispatched" => x.phase = "Dispatched"
             \/ At(todo, d) = "dispatch"
      PROVE  Remains(d)
  <2>1. CASE y.phase # "Dispatched"
    <3>1. Spent(asks'[<<d, y.n>>], y.attempts, y.phase, At(todo', d), First(d)')
      BY <1>7, <2>1 DEF Spent
    <3> QED BY <1>2, <1>7, <3>1 DEF Remains
  <2>2. CASE y.phase = "Dispatched"
    <3>1. asks'[<<d, y.n>>] = k /\ k \in 0..MostAsks
      BY <1>1, <1>2, <1>7, <2>2
    <3>2. k <= 2 * x.attempts + 2 /\ (First(d) => k <= 2 * x.attempts + 1)
      <4>1. CASE x.phase = "Dispatched"
        BY <1>2, <4>1 DEF Spent
      <4>2. CASE At(todo, d) = "dispatch"
        <5>1. k <= 2 * x.attempts
          BY <1>2, <4>2 DEF Spent
        <5> QED BY <1>1, <3>1, <5>1
      <4> QED BY <1>7, <2>2, <4>1, <4>2
    <3>3. Spent(k, y.attempts, y.phase, At(todo', d), First(d)')
      BY <1>a, <1>7, <3>2 DEF Spent
    <3> QED BY <1>2, <1>7, <3>1, <3>3 DEF Remains
  <2> QED BY <2>1, <2>2
<1>8. ASSUME At(todo', d) # "dispatch", y = Closed(d) PROVE Remains(d)
  <2>1. y.n = x.n /\ y.attempts = 0 /\ y.phase = "Idle"
    BY <1>8 DEF Closed, NewClient
  <2>2. Spent(asks'[<<d, y.n>>], y.attempts, y.phase, At(todo', d), First(d)')
    BY <1>8, <2>1 DEF Spent
  <2> QED BY <1>2, <2>1, <2>2 DEF Remains
<1>9. CASE At(todo', d) = "dispatch"
  BY <1>4, <1>5, <1>6, <1>9, AllDue
<1>10. CASE At(todo', d) # "dispatch"
  <2>1. Runs("dispatch", d) => At(todo, d) = "dispatch"
    BY RunsClient DEF ClientOps
  <2>2. Tried(d)
    BY AllTried
  <2> QED BY <1>5, <1>6, <1>7, <1>8, <1>10, <2>1, <2>2 DEF Tried, Steady
<1> QED BY <1>9, <1>10

\* A dispatch stages the request in hand once more.
LEMMA DispatchStaged ==
  ASSUME Inv, AsksInv, [Next]_vars, Inv', NEW c \in Client, Dispatch(c)
  PROVE  /\ Remains(c) /\ AsksOf'
         /\ \A d \in Client : d # c => \A m \in 1..MaxReq : asks'[<<d, m>>] = asks[<<d, m>>]
<1> DEFINE x == cl[c]
           y == cl'[c]
           k == asks[<<c, x.n>>]
<1>1. /\ Runs("dispatch", c) /\ asks' = [asks EXCEPT ![<<c, Head(x.rbuf)>>] = @ + 1]
  BY DEF Dispatch
<1>2. Head(x.rbuf) = x.n /\ At(todo, c) = "dispatch"
  BY <1>1, DispatchTakes, RunsClient DEF ClientOps
<1>3. /\ MostAsks \in Nat /\ x.attempts \in Nat /\ x.n \in 1..MaxReq /\ MaxReq \in Nat
      /\ <<c, x.n>> \in Request /\ 2 * x.attempts + 2 <= MostAsks
  BY <1>2, Most
<1>4. /\ ~Policy => x.attempts = 0
      /\ \A m \in 1..MaxReq : /\ asks[<<c, m>>] \in 0..MostAsks
                              /\ m > x.n => asks[<<c, m>>] = 0
      /\ Spent(k, x.attempts, x.phase, At(todo, c), First(c))
      /\ AsksOf
  BY DEF AsksInv
<1>5. k \in 0..MostAsks /\ k <= 2 * x.attempts
  BY <1>2, <1>3, <1>4 DEF Spent
<1>6. ClientShape(x) /\ DOMAIN cl = Client
  BY ShapeOf
<1>7. y.n = x.n /\ y.attempts = x.attempts
  <2>1. PICK u : cl' = [cl EXCEPT ![c] = [TakeRequest(cl[c]) EXCEPT !.phase = "Dispatched", !.up = u,
                                                                    !.framed = TRUE]]
    BY <1>6 DEF Dispatch
  <2>2. y = [TakeRequest(x) EXCEPT !.phase = "Dispatched", !.up = u, !.framed = TRUE]
    BY <1>6, <2>1
  <2>3. TakeRequest(x).n = x.n /\ TakeRequest(x).attempts = x.attempts
    BY <1>6 DEF TakeRequest, ClientShape
  <2> HIDE DEF y
  <2> QED BY <2>2, <2>3
<1>8. At(todo', c) # "dispatch"
  <2> SUFFICES ASSUME At(todo', c) = "dispatch" PROVE FALSE
    OBVIOUS
  <2>1. CASE Frame(c)
    BY <1>1, <2>1 DEF Frame, Runs
  <2>2. ASSUME NEW v \in Venue, y = FailedOver(x, v) PROVE FALSE
    <3>1. y.attempts = x.attempts + 1
      BY <1>6, <2>2 DEF FailedOver, ClientShape
    <3> QED BY <1>3, <1>7, <3>1
  <2> QED BY <2>1, <2>2, DueClient
<1>9. asks'[<<c, x.n>>] = k + 1 /\ DOMAIN asks' = Request
      /\ \A r \in Request : r # <<c, x.n>> => asks'[r] = asks[r]
  BY <1>1, <1>2, <1>3, <1>4 DEF AsksOf
<1>10. ASSUME NEW d \in Client, NEW m \in 1..MaxReq, d # c \/ m # x.n
       PROVE  asks'[<<d, m>>] = asks[<<d, m>>]
  BY <1>9, <1>10 DEF Request
<1>11. k + 1 <= 2 * x.attempts + 1 /\ k + 1 <= 2 * x.attempts + 2 /\ k + 1 \in 0..MostAsks
  BY <1>3, <1>5
<1>12. Spent(k + 1, y.attempts, y.phase, At(todo', c), First(c)')
  BY <1>7, <1>8, <1>11 DEF Spent
<1>13. \A m \in 1..MaxReq : /\ asks'[<<c, m>>] \in 0..MostAsks
                            /\ m > y.n => asks'[<<c, m>>] = 0
  <2> TAKE m \in 1..MaxReq
  <2>1. CASE m = x.n
    BY <1>3, <1>7, <1>9, <1>11, <2>1
  <2>2. CASE m # x.n
    BY <1>4, <1>7, <1>10, <2>2
  <2> QED BY <2>1, <2>2
<1>14. Remains(c)
  BY <1>4, <1>7, <1>9, <1>12, <1>13 DEF Remains
<1> QED BY <1>9, <1>10, <1>14 DEF AsksOf

\* A retry stages it again, once per attempt: its connection is a retry's now.
LEMMA RetryStaged ==
  ASSUME Inv, AsksInv, [Next]_vars, Inv', NEW u \in Up, UpstreamLost(u), asks' # asks,
         NEW c \in Client, c = us[u].c
  PROVE  /\ Remains(c) /\ AsksOf'
         /\ \A d \in Client : d # c => \A m \in 1..MaxReq : asks'[<<d, m>>] = asks[<<d, m>>]
<1> DEFINE x == cl[c]
           y == cl'[c]
           k == asks[<<c, x.n>>]
<1>1. /\ Runs("lost", u) /\ MayRetry(u) /\ asks' = [asks EXCEPT ![us[u].ask] = @ + 1]
      /\ cl' = [cl EXCEPT ![c].up = Fresh] /\ Return
      /\ us' = [us EXCEPT ![u] = NewUp,
                          ![Fresh] = [NewUp EXCEPT !.st = "connecting", !.venue = us[u].venue,
                                                   !.c = c, !.retried = TRUE, !.ask = us[u].ask]]
  BY DEF UpstreamLost, hist
<1>2. /\ x.up = u /\ u # NoUp /\ us[u].ask = <<c, x.n>> /\ us[u].st # "free"
  BY <1>1, RunsPaired DEF UpOps, Pair
<1>3. x.phase = "Dispatched" /\ First(c)
  BY <1>1, <1>2 DEF MayRetry, CanRedispatch, First
<1>4. /\ MostAsks \in Nat /\ x.attempts \in Nat /\ x.n \in 1..MaxReq /\ MaxReq \in Nat
      /\ <<c, x.n>> \in Request /\ 2 * x.attempts + 2 <= MostAsks
  BY <1>2, <1>3, Most
<1>5. /\ ~Policy => x.attempts = 0
      /\ \A m \in 1..MaxReq : /\ asks[<<c, m>>] \in 0..MostAsks
                              /\ m > x.n => asks[<<c, m>>] = 0
      /\ Spent(k, x.attempts, x.phase, At(todo, c), First(c))
      /\ AsksOf
  BY <1>2 DEF AsksInv
<1>6. k \in 0..MostAsks /\ k <= 2 * x.attempts + 1
  BY <1>3, <1>4, <1>5 DEF Spent
<1>7. y.n = x.n /\ y.attempts = x.attempts /\ y.up = Fresh
  <2>1. ClientShape(x) /\ DOMAIN cl = Client
    BY <1>2, ShapeOf
  <2> QED BY <1>1, <1>2, <2>1 DEF ClientShape
<1>8. At(todo', c) # "dispatch"
  BY <1>2, DueUp DEF Undispatched
<1>9. ~First(c)'
  <2>1. todo # <<>> /\ todo[1] = <<"lost", u>> /\ StackSound(todo)
    BY <1>1, TailRest DEF Inv, Runs
  <2>2. Fresh \in Up
    BY <1>2, <2>1, FreshFree DEF Inv
  <2>3. us'[Fresh].retried
    BY <1>1, <2>2 DEF Inv, NewUp
  <2> QED BY <1>7, <2>3 DEF First
<1>10. asks'[<<c, x.n>>] = k + 1 /\ DOMAIN asks' = Request
       /\ \A r \in Request : r # <<c, x.n>> => asks'[r] = asks[r]
  BY <1>1, <1>2, <1>4, <1>5 DEF AsksOf
<1>11. ASSUME NEW d \in Client, NEW m \in 1..MaxReq, d # c \/ m # x.n
       PROVE  asks'[<<d, m>>] = asks[<<d, m>>]
  BY <1>10, <1>11 DEF Request
<1>12. k + 1 <= 2 * x.attempts + 2 /\ k + 1 \in 0..MostAsks
  BY <1>4, <1>6
<1>13. Spent(k + 1, y.attempts, y.phase, At(todo', c), First(c)')
  BY <1>7, <1>8, <1>9, <1>12 DEF Spent
<1>14. \A m \in 1..MaxReq : /\ asks'[<<c, m>>] \in 0..MostAsks
                            /\ m > y.n => asks'[<<c, m>>] = 0
  <2> TAKE m \in 1..MaxReq
  <2>1. CASE m = x.n
    BY <1>4, <1>7, <1>10, <1>12, <2>1
  <2>2. CASE m # x.n
    BY <1>2, <1>5, <1>7, <1>11, <2>2
  <2> QED BY <2>1, <2>2
<1>15. Remains(c)
  BY <1>5, <1>7, <1>10, <1>13, <1>14 DEF Remains
<1> QED BY <1>2, <1>10, <1>11, <1>15 DEF AsksOf

LEMMA AsksKept ==
  ASSUME Inv, AsksInv, [Next]_vars
  PROVE  AsksInv'
<1>1. Inv'
  BY NextKeeps
<1>2. ASSUME AsksOf', \A d \in Client : Remains(d) PROVE AsksInv'
  BY <1>2 DEF AsksInv, Remains
<1>3. CASE asks' = asks /\ ~\E c \in Client : Dispatch(c)
  BY <1>1, <1>2, <1>3, NotStaged DEF AsksInv, AsksOf
<1>4. ASSUME NEW c \in Client, Dispatch(c) PROVE AsksInv'
  <2>1. /\ Remains(c) /\ AsksOf'
        /\ \A d \in Client : d # c => \A m \in 1..MaxReq : asks'[<<d, m>>] = asks[<<d, m>>]
    BY <1>1, <1>4, DispatchStaged
  <2>2. \A d \in Client : Remains(d)
    BY <1>1, <2>1, NotStaged, DispatchStaged
  <2> QED BY <1>2, <2>1, <2>2
<1>5. ASSUME NEW u \in Up, UpstreamLost(u), asks' # asks, ~\E c \in Client : Dispatch(c) PROVE AsksInv'
  <2>a. Runs("lost", u) /\ us[u].c \in Client
    BY <1>5, RunsPaired DEF UpstreamLost, UpOps
  <2> PICK c \in Client : c = us[u].c
    BY <2>a
  <2>1. /\ Remains(c) /\ AsksOf'
        /\ \A d \in Client : d # c => \A m \in 1..MaxReq : asks'[<<d, m>>] = asks[<<d, m>>]
    BY <1>1, <1>5, RetryStaged
  <2>2. \A d \in Client : Remains(d)
    BY <1>1, <1>5, <2>1, NotStaged
  <2> QED BY <1>2, <2>1, <2>2
<1> QED BY <1>3, <1>4, <1>5, Staging

\* However a request is retried on stale connections and failed over, it is
\* staged at most twice per attempt: the retry's connection is marked, and the
\* attempts are counted before the next dispatch.
THEOREM AsksBoundedHolds == Spec => []AsksBounded
<1>1. Init => AsksInv
  <2> SUFFICES ASSUME Init PROVE AsksInv
    OBVIOUS
  <2>1. MostAsks \in Nat
    BY LifecycleConstants DEF MostAsks
  <2>2. /\ asks = [r \in Request |-> 0] /\ todo = <<>> /\ cl = [c \in Client |-> NewClient]
    BY DEF Init
  <2>3. ASSUME NEW c \in Client
        PROVE  /\ cl[c].attempts = 0 /\ cl[c].phase = "Idle" /\ At(todo, c) = "none"
               /\ \A m \in 1..MaxReq : asks[<<c, m>>] = 0
    BY <2>2 DEF NewClient, At, Request
  <2> QED BY <2>1, <2>2, <2>3 DEF AsksInv, AsksOf, Spent
<1>2. AsksInv => AsksBounded
  <2> SUFFICES ASSUME AsksInv, NEW r \in Request PROVE asks[r] <= MostAsks
    BY DEF AsksBounded, MostAsks
  <2>1. PICK c \in Client, m \in 1..MaxReq : r = <<c, m>>
    BY DEF Request
  <2>2. asks[r] \in 0..MostAsks
    BY <2>1 DEF AsksInv
  <2>3. MostAsks \in Nat
    BY LifecycleConstants DEF MostAsks
  <2> QED BY <2>2, <2>3
<1> QED BY <1>1, <1>2, AsksKept, InvHolds, PTL DEF Spec
=============================================================================
