-------------------------- MODULE EpollLoop_proofs --------------------------
(***************************************************************************)
(* Proofs about EpollLoop, for any connections, batch size and bounds.     *)
(***************************************************************************)
EXTENDS EpollLoop, FiniteSetTheorems, TLAPS

\* The numbers after b, in order.
Numbered(s, b) == \A i \in 1 .. Len(s) : s[i] = b + i

Connections ==
  [st : {"free", "live", "doomed"}, slot : Nat, paused : BOOLEAN, armed : BOOLEAN, connected : BOOLEAN,
   hs : {"none", "begun", "done"}, out : Nat, staged : Nat, made : Nat, post : Nat,
   staging : Seq(Nat), tlsOut : Seq(Nat), data : SUBSET Nat, wire : Seq(Nat)]
EntryType == [conn : Conns \union {Listener}, r : BOOLEAN, w : BOOLEAN]

TypeOK ==
  /\ conn \in [Conns -> Connections]
  /\ items \in Seq(Clients)
  /\ pc \in {"wait", "batch", "reap", "sweep", "free"}
  /\ engine \in BOOLEAN
  /\ batch \in Seq(EntryType)
  /\ at \in Nat
  /\ looked \in SUBSET Clients
  /\ accepting \in BOOLEAN

\* A batch is handled before the worker does anything else, and the engine returns before
\* it waits or frees.
ControlSound ==
  /\ pc # "batch" => batch = <<>>
  /\ pc \in {"wait", "free"} => ~ engine

\* The registry's slots and places agree, and name live connections.
RegistrySound == \A i \in 1 .. Len(items) : conn[items[i]].st = "live" /\ conn[items[i]].slot = i

\* An event names no freed connection.
BatchSound == \A i \in 1 .. Len(batch) : batch[i].conn # Listener => conn[batch[i].conn].st # "free"

\* The clients above the sweep's index have been looked at.
SweepSound ==
  /\ pc \in {"sweep", "free"} => \A i \in 1 .. Len(items) : i > at => items[i] \in looked
  /\ pc = "free" => at = 0

\* Wherever a session's records are, they are in the order it made them, and every piece of
\* plaintext is in one of them or still in `out`.
Records(wire, tlsOut, staging, made, data, out, staged) ==
  /\ Numbered(wire, 0)
  /\ Numbered(tlsOut, Len(wire))
  /\ Numbered(staging, Len(wire) + Len(tlsOut))
  /\ made = Len(wire) + Len(tlsOut) + Len(staging)
  /\ data \subseteq 1 .. made
  /\ Cardinality(data) + out = staged
RecordsOf(c) == Records(c.wire, c.tlsOut, c.staging, c.made, c.data, c.out, c.staged)
Session(c) == c \in Connections /\ RecordsOf(c)

\* Without TLS there are no records; a client's session is sent to once it is up, and
\* nothing waits for a session that is up.
Plain(k, c) ==
  /\ k \notin Tls => c.tlsOut = <<>> /\ c.staging = <<>>
  /\ k \in Tls /\ (k \in Clients \/ Handshook(c)) => c.out = 0

\* What a handler leaves behind: nothing inside the session, and EPOLLOUT for what is owed.
Settled(k, c) ==
  /\ c.staging = <<>>
  /\ k \in Ups /\ ~ c.connected => c.armed /\ ~ Handshook(c)
  /\ c.tlsOut # <<>> \/ (c.out > 0 /\ (k \notin Tls \/ Handshook(c))) => c.armed

ConnSound(k, c) == Session(c) /\ Plain(k, c) /\ (c.st = "live" => Settled(k, c))
ConnsSound == \A k \in Conns : ConnSound(k, conn[k])

IInv == TypeOK /\ ControlSound /\ RegistrySound /\ BatchSound /\ SweepSound /\ ConnsSound

-----------------------------------------------------------------------------
(* Sequences and sets of records. *)

LEMMA NumberedJoin ==
  ASSUME NEW s \in Seq(Nat), NEW t \in Seq(Nat), NEW b \in Nat, Numbered(s, b), Numbered(t, b + Len(s))
  PROVE  s \o t \in Seq(Nat) /\ Len(s \o t) = Len(s) + Len(t) /\ Numbered(s \o t, b)
<1>1. s \o t \in Seq(Nat) /\ Len(s \o t) = Len(s) + Len(t)
  OBVIOUS
<1>2. ASSUME NEW i \in 1 .. Len(s \o t) PROVE (s \o t)[i] = b + i
  <2>1. CASE i <= Len(s)
    <3>1. i \in 1 .. Len(s)
      BY <1>1, <2>1
    <3>2. QED
      BY <3>1 DEF Numbered
  <2>2. CASE i > Len(s)
    <3>1. i - Len(s) \in 1 .. Len(t) /\ (s \o t)[i] = t[i - Len(s)]
      BY <1>1, <2>2
    <3>2. QED
      BY <3>1, <2>2 DEF Numbered
  <2>3. QED
    BY <1>1, <2>1, <2>2
<1>3. QED
  BY <1>1, <1>2 DEF Numbered

LEMMA NumberedSplit ==
  ASSUME NEW s \in Seq(Nat), NEW b \in Nat, Numbered(s, b), NEW n \in 0 .. Len(s)
  PROVE  /\ SubSeq(s, 1, n) \in Seq(Nat) /\ Len(SubSeq(s, 1, n)) = n /\ Numbered(SubSeq(s, 1, n), b)
         /\ SubSeq(s, n + 1, Len(s)) \in Seq(Nat) /\ Len(SubSeq(s, n + 1, Len(s))) = Len(s) - n
         /\ Numbered(SubSeq(s, n + 1, Len(s)), b + n)
  BY SMTT(60) DEF Numbered

LEMMA NumberedFresh ==
  ASSUME NEW m \in Nat, NEW n \in Nat
  PROVE  /\ [i \in 1 .. n |-> m + i] \in Seq(Nat) /\ Len([i \in 1 .. n |-> m + i]) = n
         /\ Numbered([i \in 1 .. n |-> m + i], m)
  BY DEF Numbered

LEMMA FreshData ==
  ASSUME NEW m \in Nat, NEW n \in Nat, NEW D \in SUBSET (1 .. m)
  PROVE  /\ D \union {m + i : i \in 1 .. n} \in SUBSET (1 .. m + n)
         /\ Cardinality(D) \in Nat
         /\ Cardinality(D \union {m + i : i \in 1 .. n}) = Cardinality(D) + n
<1> DEFINE F == {m + i : i \in 1 .. n}
<1>1. F = m + 1 .. m + n
  <2>1. ASSUME NEW x \in m + 1 .. m + n PROVE x \in F
    <3>1. x - m \in 1 .. n /\ x = m + (x - m)
      OBVIOUS
    <3>2. QED
      BY <3>1
  <2>2. QED
    BY <2>1
<1>2. IsFiniteSet(F) /\ Cardinality(F) = n
  <2>1. IsFiniteSet(m + 1 .. m + n) /\ Cardinality(m + 1 .. m + n) = IF m + 1 > m + n THEN 0 ELSE m + n - (m + 1) + 1
    BY FS_Interval
  <2> HIDE DEF F
  <2>2. QED
    BY <1>1, <2>1
<1>3. IsFiniteSet(1 .. m)
  BY FS_Interval
<1>4. IsFiniteSet(D) /\ Cardinality(D) \in Nat
  BY <1>3, FS_Subset, FS_CardinalityType
<1>5. D \cap F = {}
  BY <1>1
<1>6. Cardinality(D \union F) = Cardinality(D) + n
  <2>1. Cardinality(D \union F) = Cardinality(D) + Cardinality(F) - Cardinality(D \cap F)
    BY <1>2, <1>4, FS_Union
  <2>2. Cardinality(D \cap F) = 0
    BY <1>5, FS_EmptySet
  <2>3. QED
    BY <1>2, <1>4, <2>1, <2>2
<1>7. D \union F \in SUBSET (1 .. m + n)
  <2> HIDE DEF F
  <2> QED
    BY <1>1
<1>8. QED
  BY <1>4, <1>6, <1>7

-----------------------------------------------------------------------------
(* The session's operations. *)

LEMMA RecordsNone == Records(<<>>, <<>>, <<>>, 0, {}, 0, 0)
  BY FS_EmptySet DEF Records, Numbered

LEMMA RecordsEmit ==
  ASSUME NEW wire \in Seq(Nat), NEW tlsOut \in Seq(Nat), NEW staging \in Seq(Nat), NEW made \in Nat, NEW data, NEW out, NEW staged,
         Records(wire, tlsOut, staging, made, data, out, staged)
  PROVE  /\ Append(staging, made + 1) \in Seq(Nat)
         /\ Records(wire, tlsOut, Append(staging, made + 1), made + 1, data, out, staged)
<1>1. Append(staging, made + 1) \in Seq(Nat) /\ Len(Append(staging, made + 1)) = Len(staging) + 1
  OBVIOUS
<1>2. Numbered(Append(staging, made + 1), Len(wire) + Len(tlsOut))
  BY <1>1 DEF Records, Numbered
<1>3. data \subseteq 1 .. made + 1
  BY DEF Records
<1>4. QED
  BY <1>1, <1>2, <1>3 DEF Records

LEMMA RecordsPump ==
  ASSUME NEW wire \in Seq(Nat), NEW tlsOut \in Seq(Nat), NEW staging \in Seq(Nat), NEW made, NEW data, NEW out, NEW staged,
         Records(wire, tlsOut, staging, made, data, out, staged)
  PROVE  /\ tlsOut \o staging \in Seq(Nat) /\ Len(tlsOut \o staging) = Len(staging \o tlsOut)
         /\ Records(wire, tlsOut \o staging, <<>>, made, data, out, staged)
<1>1. Numbered(tlsOut, Len(wire)) /\ Numbered(staging, Len(wire) + Len(tlsOut))
  BY DEF Records
<1>2. /\ tlsOut \o staging \in Seq(Nat) /\ Len(tlsOut \o staging) = Len(tlsOut) + Len(staging)
      /\ Numbered(tlsOut \o staging, Len(wire))
  BY <1>1, NumberedJoin
<1>3. Len(<<>>) = 0 /\ \A n : Numbered(<<>>, n)
  BY DEF Numbered
<1>4. Len(staging \o tlsOut) = Len(tlsOut) + Len(staging)
  OBVIOUS
<1>5. QED
  BY <1>2, <1>3, <1>4 DEF Records

LEMMA RecordsPush ==
  ASSUME NEW wire \in Seq(Nat), NEW tlsOut \in Seq(Nat), NEW made \in Nat, NEW data, NEW out \in Nat, NEW staged \in Nat,
         Records(wire, tlsOut, <<>>, made, data, out, staged)
  PROVE  /\ tlsOut \o [i \in 1 .. out |-> made + i] \in Seq(Nat) /\ data \union {made + i : i \in 1 .. out} \in SUBSET Nat
         /\ Records(wire, tlsOut \o [i \in 1 .. out |-> made + i], <<>>, made + out,
                    data \union {made + i : i \in 1 .. out}, 0, staged)
<1> DEFINE f == [i \in 1 .. out |-> made + i]
           D == data \union {made + i : i \in 1 .. out}
<1>1. Numbered(tlsOut, Len(wire)) /\ made = Len(wire) + Len(tlsOut) /\ data \in SUBSET (1 .. made)
  <2>1. Len(<<>>) = 0
    OBVIOUS
  <2>2. made = Len(wire) + Len(tlsOut) + 0
    BY <2>1 DEF Records
  <2>3. QED
    BY <2>2 DEF Records
<1>2. f \in Seq(Nat) /\ Len(f) = out /\ Numbered(f, made)
  BY NumberedFresh
<1>3. D \in SUBSET (1 .. made + out) /\ Cardinality(data) \in Nat /\ Cardinality(D) = Cardinality(data) + out
  BY <1>1, FreshData
<1> HIDE DEF f, D
<1>4. Numbered(f, Len(wire) + Len(tlsOut))
  BY <1>1, <1>2
<1>5. tlsOut \o f \in Seq(Nat) /\ Len(tlsOut \o f) = Len(tlsOut) + Len(f) /\ Numbered(tlsOut \o f, Len(wire))
  <2>1. Len(wire) \in Nat
    OBVIOUS
  <2>2. QED
    BY <1>1, <1>2, <1>4, <2>1, NumberedJoin, Zenon
<1>6. Len(<<>>) = 0 /\ \A n : Numbered(<<>>, n)
  BY DEF Numbered
<1>7. Cardinality(D) + 0 = staged
  BY <1>3 DEF Records
<1>8. made + out = Len(wire) + Len(tlsOut \o f) + 0
  BY <1>1, <1>2, <1>5
<1>9. Records(wire, tlsOut \o f, <<>>, made + out, D, 0, staged)
  BY <1>1, <1>3, <1>5, <1>6, <1>7, <1>8 DEF Records
<1>10. D \in SUBSET Nat
  BY <1>3
<1>11. QED
  BY <1>5, <1>9, <1>10 DEF f, D

LEMMA RecordsWrote ==
  ASSUME NEW wire \in Seq(Nat), NEW tlsOut \in Seq(Nat), NEW staging \in Seq(Nat), NEW made, NEW data, NEW out, NEW staged,
         Records(wire, tlsOut, staging, made, data, out, staged), NEW n \in 0 .. Len(tlsOut)
  PROVE  /\ wire \o SubSeq(tlsOut, 1, n) \in Seq(Nat) /\ SubSeq(tlsOut, n + 1, Len(tlsOut)) \in Seq(Nat)
         /\ Len(SubSeq(tlsOut, n + 1, Len(tlsOut))) = Len(tlsOut) - n
         /\ Records(wire \o SubSeq(tlsOut, 1, n), SubSeq(tlsOut, n + 1, Len(tlsOut)), staging, made, data, out, staged)
<1> DEFINE s == SubSeq(tlsOut, 1, n)
           t == SubSeq(tlsOut, n + 1, Len(tlsOut))
<1>1. Numbered(wire, 0) /\ Numbered(tlsOut, Len(wire))
  BY DEF Records
<1>2. /\ s \in Seq(Nat) /\ Len(s) = n /\ Numbered(s, Len(wire))
      /\ t \in Seq(Nat) /\ Len(t) = Len(tlsOut) - n /\ Numbered(t, Len(wire) + n)
  BY <1>1, NumberedSplit
<1> HIDE DEF s, t
<1>3. Numbered(s, 0 + Len(wire))
  BY <1>2
<1>4. wire \o s \in Seq(Nat) /\ Len(wire \o s) = Len(wire) + n /\ Numbered(wire \o s, 0)
  BY <1>1, <1>2, <1>3, NumberedJoin
<1>5. Records(wire \o s, t, staging, made, data, out, staged)
  BY <1>2, <1>4 DEF Records
<1>6. QED
  BY <1>2, <1>4, <1>5 DEF s, t

LEMMA RecordsPlain ==
  ASSUME NEW wire \in Seq(Nat), NEW made \in Nat, NEW data, NEW out \in Nat, NEW staged \in Nat,
         Records(wire, <<>>, <<>>, made, data, out, staged), NEW n \in 0 .. out
  PROVE  /\ wire \o [i \in 1 .. n |-> made + i] \in Seq(Nat) /\ data \union {made + i : i \in 1 .. n} \in SUBSET Nat
         /\ Records(wire \o [i \in 1 .. n |-> made + i], <<>>, <<>>, made + n,
                    data \union {made + i : i \in 1 .. n}, out - n, staged)
<1> DEFINE f == [i \in 1 .. n |-> made + i]
           D == data \union {made + i : i \in 1 .. n}
<1>1. Numbered(wire, 0) /\ made = 0 + Len(wire) /\ data \in SUBSET (1 .. made)
  <2>1. Len(<<>>) = 0
    OBVIOUS
  <2>2. made = Len(wire) + 0 + 0
    BY <2>1 DEF Records
  <2>3. QED
    BY <2>2 DEF Records
<1>2. f \in Seq(Nat) /\ Len(f) = n /\ Numbered(f, made)
  BY NumberedFresh
<1>3. D \in SUBSET (1 .. made + n) /\ Cardinality(data) \in Nat /\ Cardinality(D) = Cardinality(data) + n
  <2>1. n \in Nat
    OBVIOUS
  <2>2. QED
    BY <1>1, <2>1, FreshData
<1> HIDE DEF f, D
<1>4. Numbered(f, 0 + Len(wire))
  BY <1>1, <1>2
<1>5. wire \o f \in Seq(Nat) /\ Len(wire \o f) = Len(wire) + Len(f) /\ Numbered(wire \o f, 0)
  BY <1>1, <1>2, <1>4, NumberedJoin
<1>6. Len(<<>>) = 0 /\ \A m : Numbered(<<>>, m)
  BY DEF Numbered
<1>7. Cardinality(D) + (out - n) = staged
  BY <1>3 DEF Records
<1>8. made + n = Len(wire \o f) + 0 + 0
  BY <1>1, <1>2, <1>5
<1>9. Records(wire \o f, <<>>, <<>>, made + n, D, out - n, staged)
  BY <1>3, <1>5, <1>6, <1>7, <1>8 DEF Records
<1>10. D \in SUBSET Nat
  BY <1>3
<1>11. QED
  BY <1>5, <1>9, <1>10 DEF f, D

LEMMA RecordsStaged ==
  ASSUME NEW wire, NEW tlsOut, NEW staging, NEW made \in Nat, NEW data, NEW out \in Nat, NEW staged \in Nat,
         Records(wire, tlsOut, staging, made, data, out, staged)
  PROVE  Records(wire, tlsOut, staging, made, data, out + 1, staged + 1)
<1>1. data \in SUBSET (1 .. made)
  BY DEF Records
<1>2. Cardinality(data) \in Nat
  BY <1>1, FreshData
<1>3. QED
  BY <1>2 DEF Records

LEMMA RecordsSent ==
  ASSUME NEW wire \in Seq(Nat), NEW made \in Nat, NEW data, NEW out \in Nat, out = 0, NEW staged \in Nat,
         Records(wire, <<>>, <<>>, made, data, out, staged)
  PROVE  Cardinality({i \in DOMAIN wire : i \in data}) = staged
<1>1. Len(<<>>) = 0
  OBVIOUS
<1>2. made = Len(wire) + 0 + 0
  BY <1>1 DEF Records
<1>3. data \in SUBSET (1 .. made) /\ Cardinality(data) + out = staged
  BY DEF Records
<1>4. {i \in DOMAIN wire : i \in data} = data
  <2>1. DOMAIN wire = 1 .. made
    BY <1>2
  <2>2. QED
    BY <1>3, <2>1
<1>5. Cardinality(data) \in Nat
  BY <1>3, FreshData
<1>6. Cardinality(data) = staged
  BY <1>3, <1>5
<1>7. QED
  BY <1>4, <1>6

-----------------------------------------------------------------------------
(* The session's operations on a connection. *)

\* What no operation on a session touches.
SameRest(c, d) == d.st = c.st /\ d.slot = c.slot /\ d.connected = c.connected /\ d.staged = c.staged

LEMMA Fields ==
  ASSUME NEW c \in Connections
  PROVE  /\ c.wire \in Seq(Nat) /\ c.tlsOut \in Seq(Nat) /\ c.staging \in Seq(Nat)
         /\ c.made \in Nat /\ c.out \in Nat /\ c.staged \in Nat /\ c.post \in Nat
  BY DEF Connections

LEMMA EmitSession ==
  ASSUME NEW c, Session(c)
  PROVE  /\ Session(Emit(c)) /\ SameRest(c, Emit(c))
         /\ Emit(c).out = c.out /\ Emit(c).hs = c.hs /\ Emit(c).tlsOut = c.tlsOut /\ Emit(c).armed = c.armed
<1>1. /\ c \in Connections
      /\ Records(c.wire, c.tlsOut, c.staging, c.made, c.data, c.out, c.staged)
  BY DEF Session, RecordsOf
<1>2. /\ c.wire \in Seq(Nat) /\ c.tlsOut \in Seq(Nat) /\ c.staging \in Seq(Nat) /\ c.made \in Nat
  BY <1>1, Fields
<1> DEFINE m == c.made + 1
           s == Append(c.staging, c.made + 1)
           d == Emit(c)
<1>3. m \in Nat /\ s \in Seq(Nat) /\ Records(c.wire, c.tlsOut, s, m, c.data, c.out, c.staged)
  BY <1>1, <1>2, RecordsEmit
<1>4. d = [c EXCEPT !.made = m, !.staging = s]
  BY DEF Emit
<1> HIDE DEF m, s, d
<1>5. /\ d \in Connections /\ SameRest(c, d) /\ d.made = m /\ d.staging = s
      /\ d.out = c.out /\ d.hs = c.hs /\ d.tlsOut = c.tlsOut /\ d.armed = c.armed /\ d.wire = c.wire /\ d.data = c.data
  BY <1>1, <1>3, <1>4 DEF Connections, SameRest
<1>6. RecordsOf(d)
  BY <1>3, <1>5 DEF SameRest, RecordsOf
<1>7. QED
  BY <1>5, <1>6 DEF Session, d

LEMMA PumpOutSession ==
  ASSUME NEW c, Session(c)
  PROVE  /\ Session(PumpOut(c)) /\ SameRest(c, PumpOut(c)) /\ PumpOut(c).staging = <<>>
         /\ PumpOut(c).out = c.out /\ PumpOut(c).hs = c.hs /\ PumpOut(c).armed = c.armed /\ PumpOut(c).made = c.made
         /\ Len(PumpOut(c).tlsOut) = Len(c.staging \o c.tlsOut)
<1>1. /\ c \in Connections
      /\ Records(c.wire, c.tlsOut, c.staging, c.made, c.data, c.out, c.staged)
  BY DEF Session, RecordsOf
<1>2. /\ c.wire \in Seq(Nat) /\ c.tlsOut \in Seq(Nat) /\ c.staging \in Seq(Nat)
  BY <1>1, Fields
<1> DEFINE t == c.tlsOut \o c.staging
           e == <<>>
           d == PumpOut(c)
<1>3. t \in Seq(Nat) /\ Len(t) = Len(c.staging \o c.tlsOut) /\ Records(c.wire, t, e, c.made, c.data, c.out, c.staged)
  BY <1>1, <1>2, RecordsPump
<1>4. d = [c EXCEPT !.tlsOut = t, !.staging = e] /\ e \in Seq(Nat)
  BY DEF PumpOut
<1> HIDE DEF t, e, d
<1>5. /\ d \in Connections /\ SameRest(c, d) /\ d.tlsOut = t /\ d.staging = e /\ d.made = c.made
      /\ d.out = c.out /\ d.hs = c.hs /\ d.armed = c.armed /\ d.wire = c.wire /\ d.data = c.data
  BY <1>1, <1>3, <1>4 DEF Connections, SameRest
<1>6. RecordsOf(d)
  BY <1>3, <1>5 DEF SameRest, RecordsOf
<1>7. QED
  BY <1>3, <1>5, <1>6 DEF Session, d, e

LEMMA PushOutSession ==
  ASSUME NEW c, Session(c)
  PROVE  /\ Session(PushOut(c)) /\ SameRest(c, PushOut(c)) /\ PushOut(c).staging = <<>>
         /\ PushOut(c).out = 0 /\ PushOut(c).hs = c.hs /\ PushOut(c).armed = c.armed
<1> DEFINE p == PumpOut(c)
<1>1. /\ Session(p) /\ SameRest(c, p) /\ p.staging = <<>> /\ p.out = c.out /\ p.hs = c.hs /\ p.armed = c.armed
      /\ p.made = c.made
  BY PumpOutSession
<1> DEFINE t == p.tlsOut \o [i \in 1 .. p.out |-> p.made + i]
           D == p.data \union {p.made + i : i \in 1 .. p.out}
           m == p.made + p.out
           d == PushOut(c)
<1>2. d = [p EXCEPT !.tlsOut = t, !.data = D, !.made = m, !.out = 0]
  <2> HIDE DEF p
  <2>1. PushOut(c) = [p EXCEPT !.tlsOut = p.tlsOut \o [i \in 1 .. c.out |-> c.made + i],
                               !.data = p.data \union {c.made + i : i \in 1 .. c.out}, !.made = p.made + c.out, !.out = 0]
    BY Zenon DEF PushOut, p
  <2>2. QED
    BY <1>1, <2>1
<1> HIDE DEF p
<1>3. p \in Connections /\ Records(p.wire, p.tlsOut, <<>>, p.made, p.data, p.out, p.staged)
  BY <1>1 DEF Session, RecordsOf
<1>4. /\ p.wire \in Seq(Nat) /\ p.tlsOut \in Seq(Nat) /\ p.made \in Nat /\ p.out \in Nat /\ p.staged \in Nat
  BY <1>3, Fields
<1>5. m \in Nat /\ t \in Seq(Nat) /\ D \in SUBSET Nat /\ Records(p.wire, t, <<>>, m, D, 0, p.staged)
  <2>1. m \in Nat
    BY <1>4
  <2>2. t \in Seq(Nat) /\ D \in SUBSET Nat /\ Records(p.wire, t, <<>>, m, D, 0, p.staged)
    BY <1>3, <1>4, RecordsPush, Zenon
  <2>3. QED
    BY <2>1, <2>2
<1> HIDE DEF t, D, m, d
<1>6. /\ d \in Connections /\ SameRest(p, d) /\ d.tlsOut = t /\ d.data = D /\ d.made = m /\ d.out = 0
      /\ d.staging = p.staging /\ d.hs = p.hs /\ d.armed = p.armed /\ d.wire = p.wire
  BY <1>2, <1>3, <1>5 DEF Connections, SameRest
<1>7. RecordsOf(d)
  BY <1>1, <1>5, <1>6 DEF SameRest, RecordsOf
<1>8. QED
  BY <1>1, <1>6, <1>7 DEF Session, SameRest, d

LEMMA WroteSession ==
  ASSUME NEW c, Session(c), NEW n \in 0 .. Len(c.tlsOut)
  PROVE  /\ Session(Wrote(c, n)) /\ SameRest(c, Wrote(c, n)) /\ Wrote(c, n).staging = c.staging
         /\ Wrote(c, n).out = c.out /\ Wrote(c, n).hs = c.hs /\ Wrote(c, n).armed = c.armed
         /\ Len(Wrote(c, n).tlsOut) = Len(c.tlsOut) - n
<1>1. /\ c \in Connections
      /\ Records(c.wire, c.tlsOut, c.staging, c.made, c.data, c.out, c.staged)
  BY DEF Session, RecordsOf
<1>2. /\ c.wire \in Seq(Nat) /\ c.tlsOut \in Seq(Nat) /\ c.staging \in Seq(Nat)
  BY <1>1, Fields
<1> DEFINE w == c.wire \o SubSeq(c.tlsOut, 1, n)
           t == SubSeq(c.tlsOut, n + 1, Len(c.tlsOut))
           d == Wrote(c, n)
<1>3. /\ w \in Seq(Nat) /\ t \in Seq(Nat) /\ Len(t) = Len(c.tlsOut) - n
      /\ Records(w, t, c.staging, c.made, c.data, c.out, c.staged)
  <2>1. n \in 0 .. Len(c.tlsOut)
    OBVIOUS
  <2>2. w \in Seq(Nat) /\ t \in Seq(Nat) /\ Len(t) = Len(c.tlsOut) - n
    BY <1>1, <1>2, <2>1, RecordsWrote
  <2>3. Records(w, t, c.staging, c.made, c.data, c.out, c.staged)
    BY <1>1, <1>2, <2>1, RecordsWrote
  <2>4. QED
    BY <2>2, <2>3
<1>4. d = [c EXCEPT !.wire = w, !.tlsOut = t]
  BY DEF Wrote
<1> HIDE DEF w, t, d
<1>5. /\ d \in Connections /\ SameRest(c, d) /\ d.wire = w /\ d.tlsOut = t /\ d.made = c.made
      /\ d.out = c.out /\ d.hs = c.hs /\ d.armed = c.armed /\ d.staging = c.staging /\ d.data = c.data
  BY <1>1, <1>3, <1>4 DEF Connections, SameRest
<1>6. RecordsOf(d)
  BY <1>3, <1>5 DEF SameRest, RecordsOf
<1>7. QED
  BY <1>3, <1>5, <1>6 DEF Session, d

LEMMA WrotePlainSession ==
  ASSUME NEW c, Session(c), c.tlsOut = <<>>, c.staging = <<>>, NEW n \in 0 .. c.out
  PROVE  /\ Session(WrotePlain(c, n)) /\ SameRest(c, WrotePlain(c, n))
         /\ WrotePlain(c, n).staging = <<>> /\ WrotePlain(c, n).tlsOut = <<>>
         /\ WrotePlain(c, n).hs = c.hs /\ WrotePlain(c, n).armed = c.armed
<1>1. c \in Connections /\ Records(c.wire, <<>>, <<>>, c.made, c.data, c.out, c.staged)
  BY DEF Session, RecordsOf
<1>2. c.wire \in Seq(Nat) /\ c.made \in Nat /\ c.out \in Nat /\ c.staged \in Nat
  BY <1>1, Fields
<1> DEFINE w == c.wire \o [i \in 1 .. n |-> c.made + i]
           D == c.data \union {c.made + i : i \in 1 .. n}
           m == c.made + n
           o == c.out - n
           d == WrotePlain(c, n)
<1>3. w \in Seq(Nat) /\ D \in SUBSET Nat /\ Records(w, <<>>, <<>>, m, D, o, c.staged)
  BY <1>1, <1>2, RecordsPlain
<1>4. m \in Nat /\ o \in Nat
  BY <1>2
<1>5. d = [c EXCEPT !.wire = w, !.data = D, !.made = m, !.out = o]
  BY DEF WrotePlain
<1> HIDE DEF w, D, m, o, d
<1>6. /\ d \in Connections /\ SameRest(c, d) /\ d.wire = w /\ d.data = D /\ d.made = m /\ d.out = o
      /\ d.hs = c.hs /\ d.armed = c.armed /\ d.staging = c.staging /\ d.tlsOut = c.tlsOut
  BY <1>1, <1>3, <1>4, <1>5 DEF Connections, SameRest
<1>7. RecordsOf(d)
  BY <1>3, <1>6 DEF SameRest, RecordsOf
<1>8. QED
  BY <1>6, <1>7 DEF Session, d

\* Arming and disarming change nothing else.
LEMMA ArmSession ==
  ASSUME NEW c, Session(c), NEW d \in {ArmWrite(c), DisarmWrite(c)}
  PROVE  /\ Session(d) /\ SameRest(c, d) /\ d.staging = c.staging /\ d.tlsOut = c.tlsOut /\ d.out = c.out /\ d.hs = c.hs
         /\ (d = ArmWrite(c) => d.armed)
<1>1. c \in Connections /\ RecordsOf(c)
  BY DEF Session
<1>2. /\ d \in Connections /\ SameRest(c, d) /\ d.wire = c.wire /\ d.data = c.data /\ d.made = c.made /\ d.out = c.out
      /\ d.hs = c.hs /\ d.staging = c.staging /\ d.tlsOut = c.tlsOut
  BY <1>1 DEF Connections, SameRest, ArmWrite, DisarmWrite
<1>3. RecordsOf(d)
  BY <1>1, <1>2 DEF SameRest, RecordsOf
<1>4. ArmWrite(c).armed
  BY <1>1 DEF Connections, ArmWrite
<1>5. QED
  BY <1>2, <1>3, <1>4 DEF Session

LEMMA FlushSession ==
  ASSUME NEW c, Session(c), NEW d \in TlsFlush(c)
  PROVE  /\ Session(d) /\ SameRest(c, d) /\ d.staging = <<>> /\ d.out = c.out /\ d.hs = c.hs
         /\ (d.tlsOut # <<>> => d.armed)
<1> DEFINE p == PumpOut(c)
           m == Len(c.staging \o c.tlsOut)
<1>1. Session(p) /\ SameRest(c, p) /\ p.staging = <<>> /\ p.out = c.out /\ p.hs = c.hs /\ Len(p.tlsOut) = m
  BY PumpOutSession
<1>2. PICK n \in 0 .. m : d = IF n < m THEN ArmWrite(Wrote(p, n)) ELSE Wrote(p, n)
  BY DEF TlsFlush
<1> HIDE DEF p, m
<1> DEFINE w == Wrote(p, n)
<1>3. p.tlsOut \in Seq(Nat) /\ m \in Nat
  <2>1. p \in Connections
    BY <1>1 DEF Session
  <2>2. p.tlsOut \in Seq(Nat)
    BY <2>1, Fields
  <2>3. QED
    BY <1>1, <2>2
<1>4. /\ Session(w) /\ SameRest(p, w) /\ w.staging = <<>> /\ w.out = c.out /\ w.hs = c.hs
      /\ Len(w.tlsOut) = m - n
  BY <1>1, <1>2, WroteSession
<1> HIDE DEF w
<1>5. CASE n < m
  <2>1. d = ArmWrite(w)
    BY <1>2, <1>5 DEF w
  <2>2. /\ Session(d) /\ SameRest(w, d) /\ d.staging = w.staging /\ d.out = w.out /\ d.hs = w.hs /\ d.armed
    BY <1>4, <2>1, ArmSession
  <2>3. QED
    BY <1>1, <1>4, <2>2 DEF SameRest
<1>6. CASE ~ (n < m)
  <2>1. d = w /\ n = m
    BY <1>2, <1>3, <1>6 DEF w
  <2>2. w \in Connections
    BY <1>4 DEF Session
  <2>3. w.tlsOut \in Seq(Nat)
    BY <2>2, Fields
  <2>4. Len(w.tlsOut) = 0
    BY <1>3, <1>4, <2>1
  <2>5. w.tlsOut = <<>>
    BY <2>3, <2>4
  <2>6. QED
    BY <1>1, <1>4, <2>1, <2>5 DEF SameRest
<1>7. QED
  BY <1>5, <1>6

\* pump_write, on a connection that may be written to.
LEMMA PumpWriteSession ==
  ASSUME NEW k, NEW c, Session(c), k \notin Tls => c.tlsOut = <<>> /\ c.staging = <<>>, NEW d \in PumpWrite(k, c)
  PROVE  /\ Session(d) /\ SameRest(c, d) /\ d.staging = <<>> /\ d.hs = c.hs
         /\ (k \notin Tls => d.tlsOut = <<>>)
         /\ (k \in Tls => d.out = IF Handshook(c) THEN 0 ELSE c.out)
<1>1. CASE k \in Tls /\ Handshook(c)
  <2> DEFINE p == PushOut(c)
  <2>1. Session(p) /\ SameRest(c, p) /\ p.out = 0 /\ p.hs = c.hs
    BY PushOutSession
  <2>2. d \in TlsFlush(p)
    BY <1>1 DEF PumpWrite
  <2> HIDE DEF p
  <2>3. Session(d) /\ SameRest(p, d) /\ d.staging = <<>> /\ d.out = p.out /\ d.hs = p.hs
    BY <2>1, <2>2, FlushSession
  <2>4. QED
    BY <1>1, <2>1, <2>3 DEF SameRest
<1>2. CASE k \in Tls /\ ~ Handshook(c)
  <2>1. d \in TlsFlush(c)
    BY <1>2 DEF PumpWrite
  <2>2. Session(d) /\ SameRest(c, d) /\ d.staging = <<>> /\ d.out = c.out /\ d.hs = c.hs
    BY <2>1, FlushSession
  <2>3. QED
    BY <1>2, <2>2
<1>3. CASE k \notin Tls
  <2>1. PICK n \in 0 .. c.out : d = WrotePlain(c, n)
    BY <1>3 DEF PumpWrite
  <2>2. QED
    BY <1>3, <2>1, WrotePlainSession
<1>4. QED
  BY <1>1, <1>2, <1>3

\* send: what it leaves is owed and armed, or sent.
LEMMA SendSound ==
  ASSUME NEW k \in Conns, NEW c, Session(c), k \notin Tls => c.tlsOut = <<>> /\ c.staging = <<>>,
         k \in Tls /\ k \in Clients /\ ~ Handshook(c) => c.out = 0, k \in Ups => c.connected,
         NEW d \in Send(k, c)
  PROVE  ConnSound(k, d) /\ SameRest(c, d)
<1>1. PICK e \in PumpWrite(k, c) : d = IF RequestSent(e) THEN DisarmWrite(e) ELSE ArmWrite(e)
  BY DEF Send
<1>2. /\ Session(e) /\ SameRest(c, e) /\ e.staging = <<>> /\ e.hs = c.hs
      /\ (k \notin Tls => e.tlsOut = <<>>)
      /\ (k \in Tls => e.out = IF Handshook(c) THEN 0 ELSE c.out)
  BY PumpWriteSession
<1>3. d \in {ArmWrite(e), DisarmWrite(e)}
  BY <1>1
<1>4. /\ Session(d) /\ SameRest(e, d) /\ d.staging = e.staging /\ d.tlsOut = e.tlsOut /\ d.out = e.out /\ d.hs = e.hs
      /\ (d = ArmWrite(e) => d.armed)
  BY <1>2, <1>3, ArmSession
<1>5. Plain(k, d)
  BY <1>2, <1>4 DEF Plain, Handshook
<1>6. Settled(k, d)
  <2>1. CASE RequestSent(e)
    <3>1. d.out = 0 /\ d.tlsOut = <<>>
      BY <1>4, <2>1 DEF RequestSent
    <3>2. QED
      BY <1>2, <1>4, <3>1 DEF Settled, SameRest
  <2>2. CASE ~ RequestSent(e)
    <3>1. d.armed
      BY <1>1, <1>4, <2>2
    <3>2. QED
      BY <1>2, <1>4, <3>1 DEF Settled, SameRest
  <2>3. QED
    BY <2>1, <2>2
<1>7. QED
  BY <1>2, <1>4, <1>5, <1>6 DEF ConnSound, SameRest

\* A read: ciphertext fed to the session, and its answer flushed.
LEMMA HandshakeStepSession ==
  ASSUME NEW k, NEW c, Session(c), NEW d \in HandshakeStep(k, c)
  PROVE  /\ Session(d) /\ SameRest(c, d) /\ d.out = c.out /\ d.tlsOut = c.tlsOut
         /\ (Handshook(c) => Handshook(d))
<1> DEFINE e == Emit(c)
<1>1. Session(e) /\ SameRest(c, e) /\ e.out = c.out /\ e.hs = c.hs /\ e.tlsOut = c.tlsOut
  BY EmitSession
<1>2. e \in Connections /\ RecordsOf(e) /\ c \in Connections
  BY <1>1 DEF Session
<1>3. \/ d = c
      \/ Handshook(c) /\ d = [e EXCEPT !.post = e.post + 1]
      \/ ~ Handshook(c) /\ d = [e EXCEPT !.hs = IF e.hs = "none" THEN "begun" ELSE "done"]
  BY DEF HandshakeStep, Handshook
<1> HIDE DEF e
<1>4. CASE d = c
  BY <1>4 DEF SameRest
<1>5. CASE Handshook(c) /\ d = [e EXCEPT !.post = e.post + 1]
  <2>1. e.post + 1 \in Nat
    BY <1>2, Fields
  <2>2. /\ d \in Connections /\ SameRest(e, d) /\ d.wire = e.wire /\ d.data = e.data /\ d.made = e.made /\ d.out = e.out
        /\ d.hs = e.hs /\ d.staging = e.staging /\ d.tlsOut = e.tlsOut
    BY <1>2, <1>5, <2>1 DEF Connections, SameRest
  <2>3. RecordsOf(d)
    BY <1>2, <2>2 DEF SameRest, RecordsOf
  <2>4. QED
    BY <1>1, <2>2, <2>3 DEF SameRest, Session, Handshook
<1>6. CASE ~ Handshook(c) /\ d = [e EXCEPT !.hs = IF e.hs = "none" THEN "begun" ELSE "done"]
  <2> DEFINE h == IF e.hs = "none" THEN "begun" ELSE "done"
  <2>1. h \in {"none", "begun", "done"} /\ d = [e EXCEPT !.hs = h]
    BY <1>6
  <2> HIDE DEF h
  <2>2. /\ d \in Connections /\ SameRest(e, d) /\ d.wire = e.wire /\ d.data = e.data /\ d.made = e.made /\ d.out = e.out
        /\ d.staging = e.staging /\ d.tlsOut = e.tlsOut
    BY <1>2, <2>1 DEF Connections, SameRest
  <2>3. RecordsOf(d)
    BY <1>2, <2>2 DEF SameRest, RecordsOf
  <2>4. QED
    BY <1>1, <1>6, <2>2, <2>3 DEF SameRest, Session
<1>7. QED
  BY <1>3, <1>4, <1>5, <1>6

LEMMA DrainSound ==
  ASSUME NEW k \in Conns, NEW c, ConnSound(k, c), c.st = "live", c.connected, NEW d \in DrainRead(k, c)
  PROVE  ConnSound(k, d) /\ SameRest(c, d)
<1>1. CASE k \notin Tls
  <2>1. d = c
    BY <1>1 DEF DrainRead
  <2>2. QED
    BY <2>1 DEF SameRest
<1>2. CASE k \in Tls
  <2>1. PICK f \in Fed(k, c) : d \in TlsFlush(f)
    BY <1>2 DEF DrainRead
  <2>2. PICK e \in HandshakeStep(k, c) :
          f = IF k \in Ups /\ ~ Handshook(c) /\ Handshook(e) /\ e.out > 0 THEN PushOut(e) ELSE e
    BY <2>1 DEF Fed
  <2>3. Session(c) /\ Plain(k, c)
    BY DEF ConnSound
  <2>4. Session(e) /\ SameRest(c, e) /\ e.out = c.out /\ (Handshook(c) => Handshook(e))
    BY <2>2, <2>3, HandshakeStepSession
  <2>5. Session(f) /\ SameRest(c, f) /\ f.hs = e.hs /\ (k \in Clients \/ Handshook(f) => f.out = 0)
    <3>1. CASE k \in Ups /\ ~ Handshook(c) /\ Handshook(e) /\ e.out > 0
      <4>1. f = PushOut(e)
        BY <2>2, <3>1
      <4>2. Session(f) /\ SameRest(e, f) /\ f.out = 0 /\ f.hs = e.hs
        BY <2>4, <4>1, PushOutSession
      <4>3. QED
        BY <2>4, <4>2 DEF SameRest
    <3>2. CASE ~ (k \in Ups /\ ~ Handshook(c) /\ Handshook(e) /\ e.out > 0)
      <4>1. f = e
        BY <2>2, <3>2
      <4>2. e.out \in Nat
        <5>1. e \in Connections
          BY <2>4 DEF Session
        <5>2. QED
          BY <5>1, Fields
      <4>3. k \in Clients \/ Handshook(c) => e.out = 0
        BY <1>2, <2>3, <2>4 DEF Plain
      <4>4. Handshook(e) => e.out = 0
        <5>1. CASE Handshook(c)
          BY <4>3, <5>1
        <5>2. CASE k \in Clients
          BY <4>3, <5>2
        <5>3. CASE ~ Handshook(c) /\ k \in Ups
          BY <3>2, <4>2, <5>3
        <5>4. QED
          BY <5>1, <5>2, <5>3 DEF Conns
      <4>5. QED
        BY <2>4, <4>1, <4>3, <4>4
    <3>3. QED
      BY <3>1, <3>2
  <2>6. Session(d) /\ SameRest(f, d) /\ d.staging = <<>> /\ d.out = f.out /\ d.hs = f.hs /\ (d.tlsOut # <<>> => d.armed)
    BY <2>1, <2>5, FlushSession
  <2>7. Plain(k, d)
    BY <1>2, <2>5, <2>6 DEF Plain, Handshook
  <2>8. Settled(k, d)
    <3>1. Handshook(d) => ~ (d.out > 0)
      BY <2>5, <2>6 DEF Handshook
    <3>2. d.connected
      BY <2>5, <2>6 DEF SameRest
    <3>3. QED
      BY <1>2, <2>6, <3>1, <3>2 DEF Settled
  <2>9. QED
    BY <2>5, <2>6, <2>7, <2>8 DEF ConnSound, SameRest
<1>3. QED
  BY <1>1, <1>2

\* A venue's connection is up, and its session begun.
LEMMA ConnectedSession ==
  ASSUME NEW k, NEW c, Session(c), NEW d, d = Connected(k, c)
  PROVE  /\ Session(d) /\ d.st = c.st /\ d.slot = c.slot /\ d.connected /\ d.out = c.out /\ d.tlsOut = c.tlsOut
         /\ (Handshook(d) <=> Handshook(c))
         /\ (k \notin Tls => d.staging = c.staging)
<1>1. c \in Connections /\ RecordsOf(c)
  BY DEF Session
<1>2. CASE c.connected
  <2>1. d = c
    BY <1>2 DEF Connected
  <2>2. QED
    BY <1>2, <2>1
<1>3. CASE ~ c.connected
  <2> DEFINE b == [c EXCEPT !.connected = TRUE]
  <2>1. /\ b \in Connections /\ b.st = c.st /\ b.slot = c.slot /\ b.connected = TRUE /\ b.out = c.out /\ b.tlsOut = c.tlsOut
        /\ b.hs = c.hs /\ b.staging = c.staging /\ b.wire = c.wire /\ b.made = c.made /\ b.data = c.data /\ b.staged = c.staged
    BY <1>1 DEF Connections
  <2>2. d = StartHandshake(k, b)
    BY <1>3 DEF Connected
  <2> HIDE DEF b
  <2>3. Session(b)
    BY <1>1, <2>1 DEF Session, RecordsOf
  <2>4. CASE ~ (k \in Tls /\ b.hs = "none")
    <3>1. d = b
      BY <2>2, <2>4 DEF StartHandshake
    <3>2. QED
      BY <2>1, <2>3, <3>1 DEF Handshook
  <2>5. CASE k \in Tls /\ b.hs = "none"
    <3> DEFINE e == Emit(b)
    <3>1. Session(e) /\ SameRest(b, e) /\ e.out = b.out /\ e.hs = b.hs /\ e.tlsOut = b.tlsOut
      BY <2>3, EmitSession
    <3>2. d = [e EXCEPT !.hs = "begun"]
      BY <2>2, <2>5 DEF StartHandshake
    <3> HIDE DEF e
    <3>3. e \in Connections /\ RecordsOf(e)
      BY <3>1 DEF Session
    <3>4. /\ d \in Connections /\ SameRest(e, d) /\ d.wire = e.wire /\ d.data = e.data /\ d.made = e.made /\ d.out = e.out
          /\ d.staging = e.staging /\ d.tlsOut = e.tlsOut /\ d.hs = "begun"
      BY <3>2, <3>3 DEF Connections, SameRest
    <3>5. RecordsOf(d)
      BY <3>3, <3>4 DEF SameRest, RecordsOf
    <3>6. d.connected = TRUE /\ d.st = c.st /\ d.slot = c.slot
      BY <2>1, <3>1, <3>4 DEF SameRest
    <3>7. QED
      BY <2>1, <2>5, <3>1, <3>4, <3>5, <3>6 DEF Session, Handshook
  <2>6. QED
    BY <2>4, <2>5
<1>4. QED
  BY <1>2, <1>3

LEMMA UpWritableSound ==
  ASSUME NEW k \in Ups, NEW c, ConnSound(k, c), c.st = "live", NEW d \in UpWritable(k, Connected(k, c))
  PROVE  ConnSound(k, d) /\ d.st = c.st /\ d.slot = c.slot
<1> DEFINE b == Connected(k, c)
<1>1. Session(c) /\ Plain(k, c) /\ Settled(k, c)
  BY DEF ConnSound
<1>2. /\ Session(b) /\ b.st = c.st /\ b.slot = c.slot /\ b.connected /\ b.out = c.out /\ b.tlsOut = c.tlsOut
      /\ (Handshook(b) <=> Handshook(c)) /\ (k \notin Tls => b.staging = c.staging)
  BY <1>1, ConnectedSession
<1>3. d \in UpWritable(k, b)
  OBVIOUS
<1> HIDE DEF b
<1>4. k \notin Clients /\ k \in Conns
  BY EpollAssumption DEF Conns
<1>5. CASE k \in Tls
  <2>1. PICK e \in TlsFlush(b) : d = IF e.tlsOut = <<>> THEN DisarmWrite(e) ELSE e
    BY <1>3, <1>5 DEF UpWritable
  <2>2. Session(e) /\ SameRest(b, e) /\ e.staging = <<>> /\ e.out = b.out /\ e.hs = b.hs /\ (e.tlsOut # <<>> => e.armed)
    BY <1>2, <2>1, FlushSession
  <2>3. /\ Session(d) /\ SameRest(e, d) /\ d.staging = <<>> /\ d.out = e.out /\ d.hs = e.hs /\ (d.tlsOut # <<>> => d.armed)
    <3>1. CASE e.tlsOut = <<>>
      <4>1. d = DisarmWrite(e)
        BY <2>1, <3>1
      <4>2. QED
        BY <2>2, <3>1, <4>1, ArmSession
    <3>2. CASE e.tlsOut # <<>>
      <4>1. d = e
        BY <2>1, <3>2
      <4>2. QED
        BY <2>2, <4>1 DEF SameRest
    <3>3. QED
      BY <3>1, <3>2
  <2>4. Handshook(d) => d.out = 0
    BY <1>1, <1>2, <1>5, <2>2, <2>3 DEF Plain, Handshook
  <2>5. Plain(k, d)
    BY <1>4, <1>5, <2>4 DEF Plain
  <2>6. d.connected /\ d.st = c.st /\ d.slot = c.slot
    BY <1>2, <2>2, <2>3 DEF SameRest
  <2>7. Settled(k, d)
    <3>1. Handshook(d) => ~ (d.out > 0)
      BY <2>4
    <3>2. QED
      BY <1>5, <2>3, <2>6, <3>1 DEF Settled
  <2>8. QED
    BY <2>3, <2>5, <2>6, <2>7 DEF ConnSound
<1>6. CASE k \notin Tls
  <2>1. PICK e \in PumpWrite(k, b) : d = IF e.out = 0 THEN DisarmWrite(e) ELSE ArmWrite(e)
    BY <1>3, <1>6 DEF UpWritable
  <2>2. b.tlsOut = <<>> /\ b.staging = <<>>
    BY <1>1, <1>2, <1>6 DEF Plain
  <2>3. Session(e) /\ SameRest(b, e) /\ e.staging = <<>> /\ e.tlsOut = <<>>
    BY <1>2, <1>6, <2>1, <2>2, PumpWriteSession
  <2>4. d \in {ArmWrite(e), DisarmWrite(e)}
    BY <2>1
  <2>5. /\ Session(d) /\ SameRest(e, d) /\ d.staging = <<>> /\ d.tlsOut = <<>> /\ d.out = e.out
        /\ (d = ArmWrite(e) => d.armed)
    BY <2>3, <2>4, ArmSession
  <2>6. d.out > 0 => d.armed
    BY <2>1, <2>5
  <2>7. d.connected /\ d.st = c.st /\ d.slot = c.slot
    BY <1>2, <2>3, <2>5 DEF SameRest
  <2>8. QED
    BY <1>6, <2>5, <2>6, <2>7 DEF ConnSound, Plain, Settled
<1>7. QED
  BY <1>5, <1>6

LEMMA StageSound ==
  ASSUME NEW k \in Conns, NEW c, ConnSound(k, c), c.st = "live", MayStage(k, c), NEW d \in StageAndSend(k, c)
  PROVE  ConnSound(k, d) /\ d.st = c.st /\ d.slot = c.slot
<1> DEFINE e == Staged(c)
<1>1. c \in Connections /\ RecordsOf(c) /\ Plain(k, c) /\ Settled(k, c)
  BY DEF ConnSound, Session
<1> DEFINE o == c.out + 1
           g == c.staged + 1
<1>2. o \in Nat /\ g \in Nat /\ Records(c.wire, c.tlsOut, c.staging, c.made, c.data, o, g)
  <2>1. c.made \in Nat /\ c.out \in Nat /\ c.staged \in Nat
    BY <1>1, Fields
  <2>2. QED
    BY <1>1, <2>1, RecordsStaged DEF RecordsOf
<1>3. e = [c EXCEPT !.out = o, !.staged = g]
  BY DEF Staged
<1> HIDE DEF o, g, e
<1>4. /\ e \in Connections /\ e.st = c.st /\ e.slot = c.slot /\ e.connected = c.connected /\ e.hs = c.hs /\ e.armed = c.armed
      /\ e.wire = c.wire /\ e.tlsOut = c.tlsOut /\ e.staging = c.staging /\ e.made = c.made /\ e.data = c.data
      /\ e.out = o /\ e.staged = g
  BY <1>1, <1>2, <1>3 DEF Connections
<1>5. Session(e)
  BY <1>2, <1>4 DEF Session, RecordsOf
<1>6. CASE k \in Ups /\ ~ c.connected
  <2>1. d = e
    BY <1>6 DEF StageAndSend, e
  <2>2. d.armed /\ ~ Handshook(d) /\ d.staging = <<>>
    BY <1>1, <1>4, <1>6, <2>1 DEF Settled, Handshook
  <2>3. k \notin Clients
    BY <1>6, EpollAssumption
  <2>4. Plain(k, d)
    BY <1>1, <1>4, <2>1, <2>2, <2>3 DEF Plain
  <2>5. QED
    BY <1>4, <1>5, <2>1, <2>2, <2>4 DEF ConnSound, Settled
<1>7. CASE ~ (k \in Ups /\ ~ c.connected)
  <2>1. d \in Send(k, e)
    BY <1>7 DEF StageAndSend, e
  <2>2. k \notin Tls => e.tlsOut = <<>> /\ e.staging = <<>>
    BY <1>1, <1>4 DEF Plain
  <2>3. ~ (k \in Tls /\ k \in Clients /\ ~ Handshook(e))
    BY <1>4 DEF MayStage, Handshook
  <2>4. k \in Ups => e.connected
    BY <1>4, <1>7
  <2>5. ConnSound(k, d) /\ SameRest(e, d)
    BY <1>5, <2>1, <2>2, <2>3, <2>4, SendSound
  <2>6. QED
    BY <1>4, <2>5 DEF SameRest
<1>8. QED
  BY <1>6, <1>7

-----------------------------------------------------------------------------
(* Changes to the connections. *)

LEMMA FreeSound ==
  /\ Free \in Connections /\ Free.st = "free" /\ Free.slot = 0
  /\ \A k \in Conns : ConnSound(k, Free)
<1>1. Free \in Connections
  BY DEF Free, Connections, NoSlot
<1>2. RecordsOf(Free)
  BY RecordsNone DEF Free, RecordsOf
<1>3. Free.st = "free" /\ Free.slot = 0 /\ Free.tlsOut = <<>> /\ Free.staging = <<>> /\ Free.out = 0
  BY DEF Free, NoSlot
<1>4. QED
  BY <1>1, <1>2, <1>3 DEF ConnSound, Session, Plain

\* A fresh connection: doomed, dialled, joined.
LEMMA FreshSound ==
  /\ LET d == [Free EXCEPT !.st = "doomed"] IN
       d \in Connections /\ d.st = "doomed" /\ d.slot = 0 /\ \A k \in Conns : ConnSound(k, d)
  /\ Dialled \in Connections /\ Dialled.st = "live" /\ \A k \in Ups : ConnSound(k, Dialled)
  /\ \A n \in Nat, b \in BOOLEAN : LET d == [Free EXCEPT !.st = "live", !.slot = n, !.connected = b] IN
       d \in Connections /\ d.st = "live" /\ d.slot = n /\ \A k \in Clients : ConnSound(k, d)
<1>1. RecordsOf(Free) /\ Free \in Connections
  BY FreeSound, RecordsNone DEF Free, RecordsOf
<1>2. Free.tlsOut = <<>> /\ Free.staging = <<>> /\ Free.out = 0 /\ Free.hs = "none" /\ Free.slot = 0
  BY DEF Free, NoSlot
<1>3. ASSUME NEW k \in Conns, NEW d, d \in Connections, d.wire = Free.wire, d.tlsOut = Free.tlsOut, d.staging = Free.staging,
             d.made = Free.made, d.data = Free.data, d.out = Free.out, d.staged = Free.staged, d.hs = Free.hs,
             d.st = "live" /\ k \in Ups => d.armed
      PROVE  ConnSound(k, d)
  <2>1. Session(d)
    BY <1>1, <1>3 DEF Session, RecordsOf
  <2>2. Plain(k, d)
    BY <1>2, <1>3 DEF Plain
  <2>3. ~ Handshook(d) /\ d.staging = <<>> /\ d.tlsOut = <<>> /\ ~ (d.out > 0)
    BY <1>2, <1>3 DEF Handshook
  <2>4. d.st = "live" => Settled(k, d)
    BY <1>3, <2>3 DEF Settled
  <2>5. QED
    BY <2>1, <2>2, <2>4 DEF ConnSound
<1>4. LET d == [Free EXCEPT !.st = "doomed"] IN
        d \in Connections /\ d.st = "doomed" /\ d.slot = 0 /\ \A k \in Conns : ConnSound(k, d)
  <2> DEFINE d == [Free EXCEPT !.st = "doomed"]
  <2>1. /\ d \in Connections /\ d.st = "doomed" /\ d.slot = Free.slot /\ d.wire = Free.wire /\ d.tlsOut = Free.tlsOut
        /\ d.staging = Free.staging /\ d.made = Free.made /\ d.data = Free.data /\ d.out = Free.out /\ d.staged = Free.staged
        /\ d.hs = Free.hs
    BY <1>1 DEF Connections
  <2> HIDE DEF d
  <2>2. \A k \in Conns : ConnSound(k, d)
    BY <1>3, <2>1
  <2>3. QED
    BY <1>2, <2>1, <2>2 DEF d
<1>5. Dialled \in Connections /\ Dialled.st = "live" /\ \A k \in Ups : ConnSound(k, Dialled)
  <2> DEFINE d == Dialled
  <2>1. /\ d \in Connections /\ d.st = "live" /\ d.wire = Free.wire /\ d.tlsOut = Free.tlsOut /\ d.armed = TRUE
        /\ d.staging = Free.staging /\ d.made = Free.made /\ d.data = Free.data /\ d.out = Free.out /\ d.staged = Free.staged
        /\ d.hs = Free.hs
    BY <1>1 DEF Connections, Dialled
  <2> HIDE DEF d
  <2>2. \A k \in Conns : ConnSound(k, d)
    BY <1>3, <2>1
  <2>3. QED
    BY <2>1, <2>2 DEF d, Conns
<1>6. ASSUME NEW n \in Nat, NEW b \in BOOLEAN
      PROVE  LET d == [Free EXCEPT !.st = "live", !.slot = n, !.connected = b] IN
               d \in Connections /\ d.st = "live" /\ d.slot = n /\ \A k \in Clients : ConnSound(k, d)
  <2> DEFINE d == [Free EXCEPT !.st = "live", !.slot = n, !.connected = b]
  <2>1. /\ d \in Connections /\ d.st = "live" /\ d.slot = n /\ d.wire = Free.wire /\ d.tlsOut = Free.tlsOut
        /\ d.staging = Free.staging /\ d.made = Free.made /\ d.data = Free.data /\ d.out = Free.out /\ d.staged = Free.staged
        /\ d.hs = Free.hs
    BY <1>1 DEF Connections
  <2> HIDE DEF d
  <2>2. \A k \in Clients : k \in Conns /\ k \notin Ups
    BY EpollAssumption DEF Conns
  <2>3. \A k \in Clients : ConnSound(k, d)
    BY <1>3, <2>1, <2>2
  <2>4. QED
    BY <2>1, <2>3 DEF d
<1>7. QED
  BY <1>4, <1>5, <1>6

\* A handler's change to one connection.
LEMMA ChangeSound ==
  ASSUME TypeOK, RegistrySound, ConnsSound, NEW k \in Conns, NEW c, ConnSound(k, c),
         c.st = conn[k].st, c.slot = conn[k].slot, conn' = [conn EXCEPT ![k] = c], items' = items
  PROVE  /\ conn' \in [Conns -> Connections] /\ ConnsSound' /\ RegistrySound'
         /\ \A j \in Conns : conn[j].st # "free" => conn'[j].st # "free"
<1>1. c \in Connections /\ conn \in [Conns -> Connections] /\ items \in Seq(Clients)
  BY DEF ConnSound, Session, TypeOK
<1>2. conn' \in [Conns -> Connections]
  BY <1>1
<1>3. \A j \in Conns : conn'[j].st = conn[j].st /\ conn'[j].slot = conn[j].slot
  BY <1>1
<1>4. ConnsSound'
  BY <1>1 DEF ConnsSound
<1>5. \A i \in 1 .. Len(items) : items[i] \in Conns
  BY <1>1 DEF Conns
<1>6. RegistrySound'
  BY <1>3, <1>5 DEF RegistrySound
<1>7. QED
  BY <1>2, <1>3, <1>4, <1>6

\* A close: the registry stays dense and its slots right, nothing is freed, and nobody is
\* moved to a higher place.
LEMMA CloseSound ==
  ASSUME TypeOK, RegistrySound, ConnsSound, NEW k \in Conns, conn[k].st = "live", Close(k)
  PROVE  /\ conn' \in [Conns -> Connections] /\ items' \in Seq(Clients) /\ ConnsSound' /\ RegistrySound'
         /\ \A j \in Conns : conn[j].st # "free" => conn'[j].st # "free"
         /\ \A i \in 1 .. Len(items') : \E j \in 1 .. Len(items) : j >= i /\ items[j] = items'[i]
<1> DEFINE d == [Free EXCEPT !.st = "doomed"]
<1>1. conn \in [Conns -> Connections] /\ items \in Seq(Clients)
  BY DEF TypeOK
<1>2. d \in Connections /\ d.st = "doomed" /\ d.slot = 0 /\ \A j \in Conns : ConnSound(j, d)
  BY FreshSound
<1> HIDE DEF d
<1>3. \A i \in 1 .. Len(items) : items[i] \in Conns /\ items[i] \in Clients
  BY <1>1 DEF Conns
<1>4. CASE ~ Holds(items, conn, k)
  <2>1. conn' = [conn EXCEPT ![k] = d] /\ items' = items
    BY <1>4 DEF Close, CloseOne, d
  <2>2. conn' \in [Conns -> Connections] /\ ConnsSound' /\ \A j \in Conns : conn[j].st # "free" => conn'[j].st # "free"
    BY <1>1, <1>2, <2>1 DEF ConnsSound
  <2>3. \A i \in 1 .. Len(items) : items[i] # k
    <3>1. ASSUME NEW i \in 1 .. Len(items), items[i] = k PROVE FALSE
      <4>1. conn[k].slot = i
        BY <3>1 DEF RegistrySound
      <4>2. QED
        BY <1>4, <3>1, <4>1 DEF Holds
    <3>2. QED
      BY <3>1
  <2>4. RegistrySound'
    BY <1>1, <1>3, <2>1, <2>3 DEF RegistrySound
  <2>5. \A i \in 1 .. Len(items') : i \in 1 .. Len(items) /\ i >= i /\ items[i] = items'[i]
    BY <1>1, <2>1
  <2>6. QED
    BY <1>1, <2>1, <2>2, <2>4, <2>5
<1>5. CASE Holds(items, conn, k)
  <2> DEFINE n == Len(items)
             p == conn[k].slot
             z == items[n]
             m == [conn EXCEPT ![z].slot = p]
  <2>1. p \in 1 .. n /\ items[p] = k /\ n \in Nat
    BY <1>1, <1>5 DEF Holds
  <2>2. n \in 1 .. n /\ z \in Conns /\ z \in Clients /\ conn[z].slot = n /\ conn[z].st = "live"
    BY <1>3, <2>1 DEF RegistrySound
  <2>3. conn' = [m EXCEPT ![k] = d]
    BY <1>5 DEF Close, CloseOne, Reslot, d
  <2>4. items' = SubSeq([items EXCEPT ![p] = z], 1, n - 1)
    BY <1>5 DEF Close, RemoveFrom
  <2> HIDE DEF n, p, z, m
  <2>5. [items EXCEPT ![p] = z] \in Seq(Clients) /\ Len([items EXCEPT ![p] = z]) = n
    BY <1>1, <2>1, <2>2 DEF n
  <2>6. /\ items' \in Seq(Clients) /\ Len(items') = n - 1
        /\ \A i \in 1 .. n - 1 : items'[i] = IF i = p THEN z ELSE items[i]
    BY <1>1, <2>1, <2>4, <2>5 DEF n
  <2>7. /\ m \in [Conns -> Connections]
        /\ \A j \in Conns : m[j].st = conn[j].st /\ m[j].slot = IF j = z THEN p ELSE conn[j].slot
    <3>1. p \in Nat
      BY <2>1
    <3>2. conn[z] \in Connections
      BY <1>1, <2>2
    <3> DEFINE y == [conn[z] EXCEPT !.slot = p]
    <3>3. y \in Connections /\ y.st = conn[z].st /\ y.slot = p
      BY <3>1, <3>2 DEF Connections
    <3>4. m = [conn EXCEPT ![z] = y]
      BY DEF m
    <3> HIDE DEF y
    <3>5. QED
      BY <1>1, <2>2, <3>3, <3>4
  <2>8. \A j \in Conns : ConnSound(j, m[j])
    <3>1. ASSUME NEW j \in Conns PROVE ConnSound(j, m[j])
      <4>1. ConnSound(j, conn[j]) /\ conn[j] \in Connections
        BY <1>1 DEF ConnsSound
      <4>2. CASE j # z
        <5>1. m[j] = conn[j]
          BY <1>1, <2>2, <4>2 DEF m
        <5>2. QED
          BY <4>1, <5>1
      <4>3. CASE j = z
        <5> DEFINE b == conn[j]
                   y == [b EXCEPT !.slot = p]
        <5>1. m[j] = y
          BY <1>1, <2>2, <4>3 DEF m
        <5>2. p \in Nat
          BY <2>1
        <5> HIDE DEF b
        <5>3. /\ y \in Connections /\ y.st = b.st /\ y.connected = b.connected /\ y.hs = b.hs /\ y.armed = b.armed
              /\ y.wire = b.wire /\ y.tlsOut = b.tlsOut /\ y.staging = b.staging /\ y.made = b.made /\ y.data = b.data
              /\ y.out = b.out /\ y.staged = b.staged
          BY <4>1, <5>2 DEF Connections, b
        <5> HIDE DEF y
        <5>4. ConnSound(j, b)
          BY <4>1 DEF b
        <5>5. ConnSound(j, y)
          BY <5>3, <5>4 DEF ConnSound, Session, RecordsOf, Plain, Settled, Handshook
        <5>6. QED
          BY <5>1, <5>5
      <4>4. QED
        BY <4>2, <4>3
    <3>2. QED
      BY <3>1
  <2>9. conn' \in [Conns -> Connections] /\ ConnsSound' /\ \A j \in Conns : conn[j].st # "free" => conn'[j].st # "free"
    BY <1>2, <2>3, <2>7, <2>8 DEF ConnsSound
  <2>10. ASSUME NEW i \in 1 .. n - 1
         PROVE  conn'[items'[i]].st = "live" /\ conn'[items'[i]].slot = i
    <3>1. i \in 1 .. n /\ items[i] \in Conns /\ conn[items[i]].st = "live" /\ conn[items[i]].slot = i
      BY <1>3, <2>1 DEF RegistrySound, n
    <3>2. CASE i = p
      <4>1. items'[i] = z
        BY <2>6, <3>2
      <4>2. z # k
        BY <2>1, <2>2, <3>1, <3>2
      <4>3. conn'[z] = m[z]
        BY <2>2, <2>3, <2>7, <4>2
      <4>4. QED
        BY <2>2, <2>7, <3>2, <4>1, <4>3
    <3>3. CASE i # p
      <4>1. items'[i] = items[i]
        BY <2>6, <3>3
      <4>2. items[i] # k /\ items[i] # z
        BY <2>1, <2>2, <3>1, <3>3 DEF p
      <4>3. conn'[items[i]] = m[items[i]]
        BY <2>3, <2>7, <3>1, <4>2
      <4>4. QED
        BY <2>7, <3>1, <4>1, <4>2, <4>3
    <3>4. QED
      BY <3>2, <3>3
  <2>11. RegistrySound'
    BY <2>6, <2>10 DEF RegistrySound
  <2>12. ASSUME NEW i \in 1 .. n - 1
         PROVE  \E j \in 1 .. n : j >= i /\ items[j] = items'[i]
    <3>1. CASE i = p
      <4>1. n \in 1 .. n /\ n >= i /\ items[n] = items'[i]
        BY <2>1, <2>6, <3>1 DEF z
      <4>2. QED
        BY <4>1
    <3>2. CASE i # p
      <4>1. i \in 1 .. n /\ i >= i /\ items[i] = items'[i]
        BY <2>1, <2>6, <3>2
      <4>2. QED
        BY <4>1
    <3>3. QED
      BY <3>1, <3>2
  <2>13. QED
    BY <2>6, <2>9, <2>11, <2>12 DEF n
<1>6. QED
  BY <1>4, <1>5

-----------------------------------------------------------------------------
(* The loop's steps. *)

\* What a step inside a handler keeps, given what it does to connections and registry.
LEMMA HandlerSound ==
  ASSUME IInv, conn' \in [Conns -> Connections], items' \in Seq(Clients), ConnsSound', RegistrySound',
         \A j \in Conns : conn[j].st # "free" => conn'[j].st # "free",
         \A i \in 1 .. Len(items') : \E j \in 1 .. Len(items) : j >= i /\ items[j] = items'[i],
         batch' \in Seq(EntryType), Len(batch') = Len(batch), \A i \in 1 .. Len(batch) : batch'[i].conn = batch[i].conn,
         pc' = pc, at' = at, looked' = looked, accepting' = accepting,
         engine' \in BOOLEAN, pc \notin {"wait", "free"}
  PROVE  IInv'
<1>1. TypeOK'
  BY DEF IInv, TypeOK
<1>2. ControlSound'
  <2>1. ASSUME pc # "batch" PROVE batch' = <<>>
    <3>1. batch = <<>>
      BY <2>1 DEF IInv, ControlSound
    <3>2. Len(batch') = 0
      BY <3>1
    <3>3. QED
      BY <3>2
  <2>2. QED
    BY <2>1 DEF ControlSound
<1>3. BatchSound'
  <2>1. \A i \in 1 .. Len(batch) : batch[i].conn # Listener => batch[i].conn \in Conns
    <3>1. \A i \in 1 .. Len(batch) : batch[i] \in EntryType
      BY DEF IInv, TypeOK
    <3>2. QED
      BY <3>1 DEF EntryType
  <2>2. QED
    BY <2>1 DEF IInv, BatchSound
<1>4. SweepSound'
  <2>1. ASSUME pc = "sweep", NEW i \in 1 .. Len(items'), i > at PROVE items'[i] \in looked
    <3>1. PICK j \in 1 .. Len(items) : j >= i /\ items[j] = items'[i]
      OBVIOUS
    <3>2. at \in Nat
      BY DEF IInv, TypeOK
    <3>3. j > at
      BY <2>1, <3>1, <3>2
    <3>4. QED
      BY <2>1, <3>1, <3>3 DEF IInv, SweepSound
  <2>2. QED
    BY <2>1 DEF SweepSound
<1>5. QED
  BY <1>1, <1>2, <1>3, <1>4 DEF IInv

LEMMA InitSound == Init => IInv
<1> SUFFICES ASSUME Init PROVE IInv
  OBVIOUS
<1>1. \A k \in Conns : conn[k] = Free
  BY DEF Init
<1>2. TypeOK
  <2>1. conn \in [Conns -> Connections]
    BY FreeSound DEF Init
  <2>2. items \in Seq(Clients) /\ batch \in Seq(EntryType)
    BY DEF Init
  <2>3. engine \in BOOLEAN /\ accepting \in BOOLEAN
    BY DEF Init
  <2>4. pc = "wait" /\ at = 0 /\ looked = {}
    BY DEF Init
  <2>5. QED
    BY <2>1, <2>2, <2>3, <2>4 DEF TypeOK
<1>3. ConnsSound
  BY <1>1, FreeSound DEF ConnsSound
<1>4. items = <<>> /\ batch = <<>> /\ pc = "wait" /\ ~ engine
  BY DEF Init
<1>5. RegistrySound /\ BatchSound /\ SweepSound /\ ControlSound
  BY <1>4 DEF RegistrySound, BatchSound, SweepSound, ControlSound
<1>6. QED
  BY <1>2, <1>3, <1>5 DEF IInv

\* A step of the engine, or the part of a handler before it.
LEMMA ChangeStep ==
  ASSUME IInv, NEW k \in Conns, NEW c, ConnSound(k, c), c.st = conn[k].st, c.slot = conn[k].slot,
         conn' = [conn EXCEPT ![k] = c], items' = items,
         batch' \in Seq(EntryType), Len(batch') = Len(batch), \A i \in 1 .. Len(batch) : batch'[i].conn = batch[i].conn,
         pc' = pc, at' = at, looked' = looked, accepting' = accepting,
         engine' \in BOOLEAN, pc \notin {"wait", "free"}
  PROVE  IInv'
<1>1. TypeOK /\ RegistrySound /\ ConnsSound
  BY DEF IInv
<1>2. /\ conn' \in [Conns -> Connections] /\ ConnsSound' /\ RegistrySound'
      /\ \A j \in Conns : conn[j].st # "free" => conn'[j].st # "free"
  BY <1>1, ChangeSound
<1>3. items' \in Seq(Clients)
  BY <1>1 DEF TypeOK
<1>4. \A i \in 1 .. Len(items') : i \in 1 .. Len(items) /\ i >= i /\ items[i] = items'[i]
  BY <1>3
<1>5. \A i \in 1 .. Len(items') : \E j \in 1 .. Len(items) : j >= i /\ items[j] = items'[i]
  BY <1>4
<1>6. QED
  BY <1>2, <1>3, <1>5, HandlerSound

LEMMA CloseStep ==
  ASSUME IInv, NEW k \in Conns, conn[k].st = "live", Close(k),
         batch' \in Seq(EntryType), Len(batch') = Len(batch), \A i \in 1 .. Len(batch) : batch'[i].conn = batch[i].conn,
         pc' = pc, at' = at, looked' = looked, accepting' = accepting,
         engine' \in BOOLEAN, pc \notin {"wait", "free"}
  PROVE  IInv'
<1>1. TypeOK /\ RegistrySound /\ ConnsSound
  BY DEF IInv
<1>2. /\ conn' \in [Conns -> Connections] /\ items' \in Seq(Clients) /\ ConnsSound' /\ RegistrySound'
      /\ \A j \in Conns : conn[j].st # "free" => conn'[j].st # "free"
      /\ \A i \in 1 .. Len(items') : \E j \in 1 .. Len(items) : j >= i /\ items[j] = items'[i]
  BY <1>1, CloseSound
<1>3. QED
  BY <1>2, HandlerSound

LEMMA EngineStep ==
  ASSUME IInv, Stage \/ Dial \/ PauseOrResume \/ Drop \/ Return
  PROVE  IInv'
<1>1. /\ TypeOK /\ batch \in Seq(EntryType) /\ \A k \in Conns : ConnSound(k, conn[k]) /\ conn[k] \in Connections
  BY DEF IInv, TypeOK, ConnsSound
<1>2. pc \notin {"wait", "free"} /\ pc' = pc /\ at' = at /\ looked' = looked /\ accepting' = accepting /\ batch' = batch
  BY DEF IInv, ControlSound, Stage, Dial, PauseOrResume, Drop, Return
<1>3. engine' \in BOOLEAN /\ batch' \in Seq(EntryType) /\ Len(batch') = Len(batch) /\ \A i \in 1 .. Len(batch) : batch'[i].conn = batch[i].conn
  <2>1. engine' = engine \/ engine' = FALSE
    BY DEF Stage, Dial, PauseOrResume, Drop, Return
  <2>2. engine' \in BOOLEAN
    BY <2>1 DEF IInv, TypeOK
  <2>3. QED
    BY <1>1, <1>2, <2>2
<1>4. CASE Stage
  <2>1. PICK k \in Live(conn) : MayStage(k, conn[k]) /\ Becomes(k, StageAndSend(k, conn[k]))
    BY <1>4 DEF Stage
  <2>2. PICK c \in StageAndSend(k, conn[k]) : conn' = [conn EXCEPT ![k] = c]
    BY <2>1 DEF Becomes
  <2>3. k \in Conns /\ conn[k].st = "live" /\ ConnSound(k, conn[k])
    BY <1>1 DEF Live
  <2>4. ConnSound(k, c) /\ c.st = conn[k].st /\ c.slot = conn[k].slot
    BY <2>1, <2>2, <2>3, StageSound
  <2>5. items' = items
    BY <1>4 DEF Stage
  <2>6. QED
    BY <1>2, <1>3, <2>2, <2>3, <2>4, <2>5, ChangeStep
<1>5. CASE Dial
  <2>1. PICK u \in Ups : conn[u].st = "free" /\ conn' = [conn EXCEPT ![u] = Dialled]
    BY <1>5 DEF Dial, Becomes
  <2>2. items' = items /\ u \in Conns /\ conn \in [Conns -> Connections] /\ items \in Seq(Clients)
    BY <1>1, <1>5 DEF Dial, Conns, TypeOK
  <2>3. Dialled \in Connections /\ Dialled.st = "live" /\ ConnSound(u, Dialled)
    BY FreshSound
  <2>4. conn' \in [Conns -> Connections] /\ ConnsSound' /\ \A j \in Conns : conn[j].st # "free" => conn'[j].st # "free"
    BY <1>1, <2>1, <2>2, <2>3 DEF ConnsSound
  <2>5. \A i \in 1 .. Len(items) : items[i] \in Conns /\ items[i] # u
    BY <2>1, <2>2, EpollAssumption DEF Conns
  <2>6. RegistrySound'
    BY <2>1, <2>2, <2>5 DEF IInv, RegistrySound
  <2>7. \A i \in 1 .. Len(items') : \E j \in 1 .. Len(items) : j >= i /\ items[j] = items'[i]
    <3>1. \A i \in 1 .. Len(items') : i \in 1 .. Len(items) /\ i >= i /\ items[i] = items'[i]
      BY <2>2
    <3>2. QED
      BY <3>1
  <2>8. items' \in Seq(Clients)
    BY <2>2
  <2>9. QED
    BY <1>2, <1>3, <2>4, <2>6, <2>7, <2>8, HandlerSound
<1>6. CASE PauseOrResume
  <2>1. PICK u \in Ups : conn[u].st = "live" /\ conn' = [conn EXCEPT ![u] = SetRead(conn[u])]
    BY <1>6 DEF PauseOrResume, Becomes
  <2> DEFINE b == conn[u]
             c == SetRead(b)
  <2>2. u \in Conns /\ ConnSound(u, b) /\ b \in Connections
    BY <1>1 DEF Conns
  <2> HIDE DEF b
  <2>3. /\ c \in Connections /\ c.st = b.st /\ c.slot = b.slot /\ c.connected = b.connected /\ c.hs = b.hs /\ c.armed = b.armed
        /\ c.wire = b.wire /\ c.tlsOut = b.tlsOut /\ c.staging = b.staging /\ c.made = b.made /\ c.data = b.data
        /\ c.out = b.out /\ c.staged = b.staged
    BY <2>2 DEF Connections, SetRead
  <2> HIDE DEF c
  <2>4. ConnSound(u, c)
    BY <2>2, <2>3 DEF ConnSound, Session, RecordsOf, Plain, Settled, Handshook
  <2>5. items' = items
    BY <1>6 DEF PauseOrResume
  <2>6. conn' = [conn EXCEPT ![u] = c] /\ c.st = conn[u].st /\ c.slot = conn[u].slot
    BY <2>1, <2>3 DEF b, c
  <2>7. QED
    BY <1>2, <1>3, <2>2, <2>4, <2>5, <2>6, ChangeStep
<1>7. CASE Drop
  <2>1. PICK k \in Live(conn) : Close(k)
    BY <1>7 DEF Drop
  <2>2. k \in Conns /\ conn[k].st = "live"
    BY DEF Live
  <2>3. QED
    BY <1>2, <1>3, <2>1, <2>2, CloseStep
<1>8. CASE Return
  <2>1. UNCHANGED <<conn, items, pc, batch, at, looked, accepting>> /\ engine' = FALSE
    BY <1>8 DEF Return
  <2>2. QED
    BY <1>3, <2>1 DEF IInv, TypeOK, ControlSound, RegistrySound, BatchSound, SweepSound, ConnsSound
<1>9. QED
  BY <1>4, <1>5, <1>6, <1>7, <1>8

LEMMA EventStep ==
  ASSUME IInv, ReadHalf \/ WriteHalf
  PROVE  IInv'
<1> DEFINE k == Entry.conn
<1>1. /\ pc = "batch" /\ batch # <<>> /\ k \in Conns /\ conn[k].st = "live" /\ engine' = TRUE
      /\ pc' = pc /\ at' = at /\ looked' = looked /\ accepting' = accepting
  BY DEF ReadHalf, WriteHalf, Handling, HeadLive, Live
<1>2. batch' \in Seq(EntryType) /\ Len(batch') = Len(batch) /\ \A i \in 1 .. Len(batch) : batch'[i].conn = batch[i].conn
  <2>1. batch \in Seq(EntryType) /\ 1 \in 1 .. Len(batch)
    BY <1>1 DEF IInv, TypeOK
  <2>2. batch[1] \in EntryType
    BY <2>1
  <2> DEFINE e == batch[1]
  <2>3. PICK f : /\ f \in EntryType /\ f.conn = e.conn
                 /\ batch' = [batch EXCEPT ![1] = f]
    <3>1. CASE ReadHalf
      <4> DEFINE f == [e EXCEPT !.r = FALSE]
      <4>1. batch' = [batch EXCEPT ![1] = f]
        BY <3>1 DEF ReadHalf
      <4>2. f \in EntryType /\ f.conn = e.conn
        BY <2>2 DEF EntryType
      <4>3. QED
        BY <4>1, <4>2
    <3>2. CASE WriteHalf
      <4> DEFINE f == [e EXCEPT !.w = FALSE]
      <4>1. batch' = [batch EXCEPT ![1] = f]
        BY <3>2 DEF WriteHalf
      <4>2. f \in EntryType /\ f.conn = e.conn
        BY <2>2 DEF EntryType
      <4>3. QED
        BY <4>1, <4>2
    <3>3. QED
      BY <3>1, <3>2
  <2>4. batch' \in Seq(EntryType) /\ Len(batch') = Len(batch)
    BY <2>1, <2>3
  <2>5. ASSUME NEW i \in 1 .. Len(batch) PROVE batch'[i].conn = batch[i].conn
    BY <2>1, <2>3
  <2>6. QED
    BY <2>4, <2>5
<1>3. ConnSound(k, conn[k])
  BY <1>1 DEF IInv, ConnsSound
<1>4. CASE Close(k)
  BY <1>1, <1>2, <1>4, CloseStep
<1>5. CASE ~ Close(k) /\ ReadHalf
  <2>1. conn[k].connected /\ items' = items /\ Becomes(k, DrainRead(k, conn[k]))
    BY <1>5 DEF ReadHalf, Readable
  <2>2. PICK c \in DrainRead(k, conn[k]) : conn' = [conn EXCEPT ![k] = c]
    BY <2>1 DEF Becomes
  <2>3. ConnSound(k, c) /\ c.st = conn[k].st /\ c.slot = conn[k].slot
    BY <1>1, <1>3, <2>1, <2>2, DrainSound DEF SameRest
  <2>4. QED
    BY <1>1, <1>2, <2>1, <2>2, <2>3, ChangeStep
<1>6. CASE ~ Close(k) /\ WriteHalf /\ k \in Clients
  <2>1. items' = items /\ Becomes(k, Send(k, conn[k]))
    BY <1>6, EpollAssumption DEF WriteHalf, Writable
  <2>2. PICK c \in Send(k, conn[k]) : conn' = [conn EXCEPT ![k] = c]
    BY <2>1 DEF Becomes
  <2>3. k \notin Ups
    BY <1>6, EpollAssumption
  <2>4. Session(conn[k]) /\ Plain(k, conn[k])
    BY <1>3 DEF ConnSound
  <2>5. ConnSound(k, c) /\ c.st = conn[k].st /\ c.slot = conn[k].slot
    BY <1>1, <2>2, <2>3, <2>4, SendSound DEF Plain, SameRest
  <2>6. QED
    BY <1>1, <1>2, <2>1, <2>2, <2>5, ChangeStep
<1>7. CASE ~ Close(k) /\ WriteHalf /\ k \in Ups
  <2>1. items' = items /\ Becomes(k, UpWritable(k, Connected(k, conn[k])))
    BY <1>7, EpollAssumption DEF WriteHalf, Writable
  <2>2. PICK c \in UpWritable(k, Connected(k, conn[k])) : conn' = [conn EXCEPT ![k] = c]
    BY <2>1 DEF Becomes
  <2>3. ConnSound(k, c) /\ c.st = conn[k].st /\ c.slot = conn[k].slot
    BY <1>1, <1>3, <1>7, <2>2, UpWritableSound
  <2>4. QED
    BY <1>1, <1>2, <2>1, <2>2, <2>3, ChangeStep
<1>8. QED
  BY <1>1, <1>4, <1>5, <1>6, <1>7 DEF Conns

LEMMA TailSound ==
  ASSUME NEW b \in Seq(EntryType), b # <<>>
  PROVE  Tail(b) \in Seq(EntryType) /\ \A i \in 1 .. Len(Tail(b)) : i + 1 \in 1 .. Len(b) /\ Tail(b)[i] = b[i + 1]
  OBVIOUS

LEMMA WaitStep == ASSUME IInv, Wait PROVE IInv'
<1>1. /\ pc = "wait" /\ batch' \in Batches /\ pc' = "batch" /\ UNCHANGED <<conn, items, engine, at, looked, accepting>>
  BY DEF Wait
<1>2. ASSUME NEW e \in Entries PROVE e \in EntryType /\ (e.conn # Listener => conn[e.conn].st # "free")
  <2>1. CASE \E k \in Live(conn) : e = [conn |-> k, r |-> TRUE, w |-> FALSE]
    BY <2>1 DEF Live, EntryType
  <2>2. CASE \E k \in Live(conn), r \in BOOLEAN : e = [conn |-> k, r |-> r, w |-> TRUE]
    BY <2>2 DEF Live, EntryType
  <2>3. CASE e = [conn |-> Listener, r |-> TRUE, w |-> FALSE]
    BY <2>3 DEF EntryType
  <2>4. QED
    BY <2>1, <2>2, <2>3 DEF Entries
<1>3. PICK n \in 0 .. MaxBatch : batch' \in [1 .. n -> Entries]
  BY <1>1 DEF Batches
<1>4. n \in Nat
  BY EpollAssumption
<1>5. batch' \in [1 .. n -> EntryType]
  BY <1>2, <1>3
<1>6. batch' \in Seq(EntryType) /\ Len(batch') = n
  BY <1>4, <1>5
<1>7. BatchSound'
  BY <1>1, <1>2, <1>3, <1>6 DEF BatchSound
<1>8. TypeOK'
  BY <1>1, <1>6 DEF IInv, TypeOK
<1>9. QED
  BY <1>1, <1>7, <1>8 DEF IInv, ControlSound, RegistrySound, SweepSound, ConnsSound

LEMMA BatchStep == ASSUME IInv, NextEntry \/ AcceptEnd PROVE IInv'
<1>1. /\ pc = "batch" /\ batch # <<>> /\ batch' = Tail(batch) /\ accepting' \in {accepting, FALSE}
      /\ UNCHANGED <<conn, items, pc, engine, at, looked>>
  BY DEF NextEntry, AcceptEnd, Handling
<1>2. batch \in Seq(EntryType)
  BY DEF IInv, TypeOK
<1>3. batch' \in Seq(EntryType) /\ \A i \in 1 .. Len(batch') : i + 1 \in 1 .. Len(batch) /\ batch'[i] = batch[i + 1]
  BY <1>1, <1>2, TailSound
<1>4. BatchSound'
  BY <1>1, <1>3 DEF IInv, BatchSound
<1>5. accepting' \in BOOLEAN
  BY <1>1 DEF IInv, TypeOK
<1>6. TypeOK'
  BY <1>1, <1>3, <1>5 DEF IInv, TypeOK
<1>7. QED
  BY <1>1, <1>4, <1>6 DEF IInv, ControlSound, RegistrySound, SweepSound, ConnsSound

LEMMA JoinStep == ASSUME IInv, Accept \/ AddLeg PROVE IInv'
<1>1. UNCHANGED <<pc, engine, batch, at, accepting>> /\ pc # "wait" /\ pc # "free"
  BY DEF Accept, AddLeg, Handling, IInv, ControlSound
<1>a. PICK k \in Clients, b \in BOOLEAN :
        Join(k, b) /\ looked' = IF pc = "sweep" THEN looked \union {k} ELSE looked
  BY DEF Accept, AddLeg, Handling
<1> DEFINE d == [Free EXCEPT !.st = "live", !.slot = Len(items) + 1, !.connected = b]
<1>2. conn[k].st = "free" /\ items' = Append(items, k) /\ conn' = [conn EXCEPT ![k] = d]
  BY <1>a DEF Join, Joined
<1>3. conn \in [Conns -> Connections] /\ items \in Seq(Clients) /\ Len(items) + 1 \in Nat /\ k \in Conns
  BY DEF IInv, TypeOK, Conns
<1>4. d \in Connections /\ d.st = "live" /\ d.slot = Len(items) + 1 /\ ConnSound(k, d)
  BY <1>3, FreshSound
<1> HIDE DEF d
<1>5. conn' \in [Conns -> Connections] /\ ConnsSound' /\ \A j \in Conns : conn[j].st # "free" => conn'[j].st # "free"
  BY <1>2, <1>3, <1>4 DEF IInv, ConnsSound
<1>6. items' \in Seq(Clients) /\ Len(items') = Len(items) + 1 /\ items'[Len(items) + 1] = k
      /\ \A i \in 1 .. Len(items) : items'[i] = items[i]
  BY <1>2, <1>3
<1>7. RegistrySound'
  <2>1. ASSUME NEW i \in 1 .. Len(items') PROVE conn'[items'[i]].st = "live" /\ conn'[items'[i]].slot = i
    <3>1. CASE i = Len(items) + 1
      BY <1>2, <1>3, <1>4, <1>6, <3>1
    <3>2. CASE i # Len(items) + 1
      <4>1. i \in 1 .. Len(items)
        BY <1>3, <1>6, <3>2
      <4>2. items[i] \in Conns /\ conn[items[i]].st = "live" /\ conn[items[i]].slot = i
        BY <1>3, <4>1 DEF IInv, RegistrySound, Conns
      <4>3. items[i] # k
        BY <1>2, <4>2
      <4>4. conn'[items[i]] = conn[items[i]]
        BY <1>2, <1>3, <4>2, <4>3
      <4>5. QED
        BY <1>6, <4>1, <4>2, <4>4
    <3>3. QED
      BY <3>1, <3>2
  <2>2. QED
    BY <2>1 DEF RegistrySound
<1>8. BatchSound'
  <2>1. \A i \in 1 .. Len(batch) : batch[i] \in EntryType
    BY DEF IInv, TypeOK
  <2>2. \A i \in 1 .. Len(batch) : batch[i].conn # Listener => batch[i].conn \in Conns
    BY <2>1 DEF EntryType
  <2>3. QED
    BY <1>1, <1>5, <2>2 DEF IInv, BatchSound
<1>9. TypeOK' /\ looked \subseteq looked' /\ (pc = "sweep" => k \in looked')
  BY <1>a, <1>1, <1>5, <1>6 DEF IInv, TypeOK
<1>b. SweepSound'
  <2>1. ASSUME pc = "sweep", NEW i \in 1 .. Len(items'), i > at PROVE items'[i] \in looked'
    <3>1. CASE i = Len(items) + 1
      BY <1>6, <1>9, <2>1, <3>1
    <3>2. CASE i # Len(items) + 1
      <4>1. i \in 1 .. Len(items)
        BY <1>3, <1>6, <3>2
      <4>2. QED
        BY <1>6, <1>9, <2>1, <4>1 DEF IInv, SweepSound
    <3>3. QED
      BY <3>1, <3>2
  <2>2. QED
    BY <1>1, <2>1 DEF IInv, SweepSound
<1>10. QED
  BY <1>1, <1>5, <1>7, <1>8, <1>9, <1>b DEF IInv, ControlSound

LEMMA SweepStep == ASSUME IInv, SweepBegin \/ WalkBegin \/ SweepOne \/ SweepEnd PROVE IInv'
<1>1. UNCHANGED <<conn, items, batch, accepting>>
  BY DEF SweepBegin, WalkBegin, SweepOne, SweepEnd
<1>2. RegistrySound' /\ BatchSound' /\ ConnsSound'
  BY <1>1 DEF IInv, RegistrySound, BatchSound, ConnsSound
<1>3. items \in Seq(Clients) /\ Len(items) \in Nat /\ at \in Nat /\ looked \in SUBSET Clients /\ engine \in BOOLEAN
  BY DEF IInv, TypeOK
<1>4. CASE SweepBegin
  <2>1. pc' = "reap" /\ engine' = TRUE /\ at' = at /\ looked' = looked /\ batch = <<>>
    BY <1>4 DEF SweepBegin, BatchOver
  <2>2. TypeOK'
    BY <1>1, <2>1 DEF IInv, TypeOK
  <2>3. ControlSound' /\ SweepSound'
    BY <1>1, <2>1 DEF ControlSound, SweepSound
  <2>4. QED
    BY <1>2, <2>2, <2>3 DEF IInv
<1>5. CASE WalkBegin
  <2>1. pc' = "sweep" /\ engine' = engine /\ at' = Len(items) /\ looked' = {} /\ pc = "reap"
    BY <1>5 DEF WalkBegin
  <2>2. TypeOK'
    BY <1>1, <1>3, <2>1 DEF IInv, TypeOK
  <2>3. ControlSound' /\ SweepSound'
    BY <1>1, <1>3, <2>1 DEF IInv, ControlSound, SweepSound
  <2>4. QED
    BY <1>2, <2>2, <2>3 DEF IInv
<1>6. CASE SweepOne
  <2>1. pc = "sweep" /\ pc' = pc /\ at > 0 /\ at' = at - 1 /\ at' \in Nat
    BY <1>3, <1>6 DEF SweepOne
  <2>2. ControlSound'
    BY <1>1, <2>1 DEF IInv, ControlSound
  <2>3. CASE at > Len(items)
    <3>1. looked' = looked /\ engine' = engine
      BY <1>6, <2>3 DEF SweepOne
    <3>2. TypeOK'
      BY <1>1, <2>1, <3>1 DEF IInv, TypeOK
    <3>3. \A i \in 1 .. Len(items) : ~ (i > at - 1)
      BY <1>3, <2>1, <2>3
    <3>4. SweepSound'
      BY <1>1, <2>1, <3>3 DEF SweepSound
    <3>5. QED
      BY <1>2, <2>2, <3>2, <3>4 DEF IInv
  <2>4. CASE ~ (at > Len(items))
    <3>1. at \in 1 .. Len(items)
      BY <1>3, <2>1, <2>4
    <3>2. looked' = looked \union {items[at]} /\ engine' = TRUE /\ items[at] \in Clients
      BY <1>3, <1>6, <2>4, <3>1 DEF SweepOne, LookAt
    <3>3. TypeOK'
      BY <1>1, <1>3, <2>1, <3>2 DEF IInv, TypeOK
    <3>4. ASSUME NEW i \in 1 .. Len(items), i > at - 1 PROVE items[i] \in looked'
      <4>1. i = at \/ i > at
        BY <1>3, <3>4
      <4>2. i > at => items[i] \in looked
        BY <2>1 DEF IInv, SweepSound
      <4>3. QED
        BY <3>2, <4>1, <4>2
    <3>5. SweepSound'
      BY <1>1, <2>1, <3>4 DEF SweepSound
    <3>6. QED
      BY <1>2, <2>2, <3>3, <3>5 DEF IInv
  <2>5. QED
    BY <2>3, <2>4
<1>7. CASE SweepEnd
  <2>1. pc = "sweep" /\ pc' = "free" /\ engine' = engine /\ ~ engine /\ at' = at /\ at = 0 /\ looked' = looked
    BY <1>7 DEF SweepEnd
  <2>2. TypeOK'
    BY <1>1, <2>1 DEF IInv, TypeOK
  <2>3. ControlSound' /\ SweepSound'
    BY <1>1, <2>1 DEF IInv, ControlSound, SweepSound
  <2>4. QED
    BY <1>2, <2>2, <2>3 DEF IInv
<1>8. QED
  BY <1>4, <1>5, <1>6, <1>7

LEMMA FreeStep == ASSUME IInv, FreeDoomed PROVE IInv'
<1>1. /\ pc' = "wait" /\ looked' = {} /\ accepting' \in {accepting, TRUE} /\ UNCHANGED <<items, engine, batch, at>>
      /\ conn' = [k \in Conns |-> IF conn[k].st = "doomed" THEN Free ELSE conn[k]]
  BY DEF FreeDoomed
<1>2. batch = <<>> /\ ~ engine
  BY DEF IInv, ControlSound, FreeDoomed, BatchOver
<1>3. conn \in [Conns -> Connections] /\ items \in Seq(Clients)
  BY DEF IInv, TypeOK
<1>4. conn' \in [Conns -> Connections] /\ ConnsSound'
  BY <1>1, <1>3, FreeSound DEF IInv, ConnsSound
<1>5. \A i \in 1 .. Len(items) : items[i] \in Conns
  BY <1>3 DEF Conns
<1>6. RegistrySound'
  BY <1>1, <1>5 DEF IInv, RegistrySound
<1>7. accepting' \in BOOLEAN
  BY <1>1 DEF IInv, TypeOK
<1>8. TypeOK'
  BY <1>1, <1>4, <1>7 DEF IInv, TypeOK
<1>9. ControlSound' /\ BatchSound' /\ SweepSound'
  BY <1>1, <1>2 DEF ControlSound, BatchSound, SweepSound
<1>10. QED
  BY <1>4, <1>6, <1>8, <1>9 DEF IInv

\* The inductive invariant: types, the loop's control, registry, batch, sweep, and every
\* connection's records and interest, kept by each half of an event, by every call the
\* engine may make, by accept, sweep and free.
THEOREM LoopInvariant == Spec => []IInv
<1>1. Init => IInv
  BY InitSound
<1>2. IInv /\ [Next]_vars => IInv'
  <2> SUFFICES ASSUME IInv, [Next]_vars PROVE IInv'
    OBVIOUS
  <2>1. CASE Stage \/ Dial \/ PauseOrResume \/ Drop \/ Return
    BY <2>1, EngineStep
  <2>2. CASE Wait
    BY <2>2, WaitStep
  <2>3. CASE ReadHalf \/ WriteHalf
    BY <2>3, EventStep
  <2>4. CASE NextEntry \/ AcceptEnd
    BY <2>4, BatchStep
  <2>5. CASE Accept \/ AddLeg
    BY <2>5, JoinStep
  <2>6. CASE SweepBegin \/ WalkBegin \/ SweepOne \/ SweepEnd
    BY <2>6, SweepStep
  <2>7. CASE FreeDoomed
    BY <2>7, FreeStep
  <2>8. CASE UNCHANGED vars
    BY <2>8 DEF vars, IInv, TypeOK, ControlSound, RegistrySound, BatchSound, SweepSound, ConnsSound
  <2>9. QED
    BY <2>1, <2>2, <2>3, <2>4, <2>5, <2>6, <2>7, <2>8 DEF Next
<1>3. QED
  BY <1>1, <1>2, PTL DEF Spec

\* Every variable keeps its type: no count of a connection goes below zero, and the registry
\* holds clients only.
THEOREM LoopTypeCorrect == Spec => []TypeOK
<1>1. IInv => TypeOK
  BY DEF IInv
<1>2. QED
  BY <1>1, LoopInvariant, PTL

\* No event still to be handled, and no place of the registry, names a connection whose
\* memory free_conn has released.
THEOREM EntriesStayLive == Spec => []EntriesLive
<1>1. IInv => EntriesLive
  <2> SUFFICES ASSUME IInv PROVE EntriesLive
    OBVIOUS
  <2>1. DOMAIN batch = 1 .. Len(batch) /\ DOMAIN items = 1 .. Len(items)
    BY DEF IInv, TypeOK
  <2>2. QED
    BY <2>1 DEF IInv, BatchSound, RegistrySound, EntriesLive
<1>2. QED
  BY <1>1, LoopInvariant, PTL

\* sweep_idle's backwards walk looks at every client that is still there when it ends,
\* whatever each look closed.
THEOREM SweepVisitsAll == Spec => []SweepLooksAtAll
<1>1. IInv => SweepLooksAtAll
  <2> SUFFICES ASSUME IInv, pc = "free" PROVE {items[i] : i \in DOMAIN items} \subseteq looked
    BY DEF SweepLooksAtAll
  <2>1. DOMAIN items = 1 .. Len(items) /\ Len(items) \in Nat
    BY DEF IInv, TypeOK
  <2>2. at = 0 /\ \A i \in 1 .. Len(items) : i > at => items[i] \in looked
    BY DEF IInv, SweepSound
  <2>3. QED
    BY <2>1, <2>2
<1>2. QED
  BY <1>1, LoopInvariant, PTL

\* Records reach the socket in the order the session made them, and a request that
\* upstream_request_sent calls sent is on the socket to its last piece.
THEOREM WireStaysWhole == Spec => []WireWhole
<1>1. IInv => WireWhole
  <2> SUFFICES ASSUME IInv, NEW k \in Live(conn)
               PROVE  /\ \A i \in DOMAIN conn[k].wire : conn[k].wire[i] = i
                      /\ RequestSent(conn[k]) =>
                           Cardinality({i \in DOMAIN conn[k].wire : i \in conn[k].data}) = conn[k].staged
    BY DEF WireWhole
  <2> DEFINE c == conn[k]
  <2>1. c \in Connections /\ RecordsOf(c)
    BY DEF Live, IInv, ConnsSound, ConnSound, Session
  <2> HIDE DEF c
  <2>2. c.wire \in Seq(Nat) /\ c.made \in Nat /\ c.staged \in Nat /\ c.out \in Nat
    BY <2>1, Fields
  <2>3. Records(c.wire, c.tlsOut, c.staging, c.made, c.data, c.out, c.staged)
    BY <2>1 DEF RecordsOf
  <2>4. DOMAIN c.wire = 1 .. Len(c.wire) /\ Len(c.wire) \in Nat
    BY <2>2
  <2>5. \A i \in 1 .. Len(c.wire) : c.wire[i] = i
    <3>1. \A i \in 1 .. Len(c.wire) : c.wire[i] = 0 + i
      BY <2>3 DEF Records, Numbered
    <3>2. QED
      BY <2>4, <3>1
  <2>6. ASSUME RequestSent(c) PROVE Cardinality({i \in DOMAIN c.wire : i \in c.data}) = c.staged
    <3>1. c.out = 0 /\ c.tlsOut = <<>> /\ c.staging = <<>>
      BY <2>6 DEF RequestSent
    <3>2. Records(c.wire, <<>>, <<>>, c.made, c.data, c.out, c.staged)
      BY <2>3, <3>1
    <3>3. QED
      BY <2>2, <3>1, <3>2, RecordsSent
  <2>7. QED
    BY <2>4, <2>5, <2>6 DEF c
<1>2. QED
  BY <1>1, LoopInvariant, PTL

\* Whatever is owed to a socket is armed for the writable event that sends it.
THEOREM OwedStaysArmed == Spec => []OwedArmed
<1>1. IInv => OwedArmed
  BY DEF IInv, ConnsSound, ConnSound, Settled, OwedArmed, Live
<1>2. QED
  BY <1>1, LoopInvariant, PTL
=============================================================================
