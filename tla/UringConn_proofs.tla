--------------------------- MODULE UringConn_proofs ---------------------------
(***************************************************************************)
(* What holds of the io_uring backend for any connections, ring depth,     *)
(* bytes, pauses and generations, whether or not the kernel refuses.       *)
(***************************************************************************)
EXTENDS UringConn, FiniteSetTheorems, SequenceTheorems, TLAPS

(* The rings as the invariant sees them: the operations out (queued or with *)
(* the kernel) and the completions unread.                                 *)

Work(q) == q.ker \cup Taken(q)

\* No operation of a kind is out twice on a connection, nor out and completed;
\* a receive with more to come is still out, or its end is behind.
Orderly(W, cq) ==
  /\ \A o, p \in W : o.c = p.c /\ o.op = p.op => o = p
  /\ \A i \in DOMAIN cq : ~Continues(cq[i]) =>
       \A o \in W : ~(o.c = cq[i].c /\ o.op = cq[i].op)
  /\ \A i, j \in DOMAIN cq : ~Continues(cq[i]) /\ ~Continues(cq[j])
                              /\ cq[i].c = cq[j].c /\ cq[i].op = cq[j].op => i = j
  /\ \A i \in DOMAIN cq : Continues(cq[i]) =>
       \/ \E o \in W : o.c = cq[i].c /\ o.op = "recv"
       \/ \E j \in DOMAIN cq : j > i /\ ~Continues(cq[j]) /\ cq[j].c = cq[i].c /\ cq[j].op = "recv"

\* An operation of this kind is out on c, or its end is unread.
OutIn(W, cq, c, op) ==
  \/ \E o \in W : o.c = c /\ o.op = op
  \/ \E i \in DOMAIN cq : ~Continues(cq[i]) /\ cq[i].c = c /\ cq[i].op = op

\* Whatever refers to c refers to generation g of it.
OfGenIn(W, cq, c, g) ==
  /\ \A o \in W : o.c = c => o.g = g
  /\ \A i \in DOMAIN cq : cq[i].c = c => cq[i].g = g

\* A send of c covers u bytes, a of which the kernel has read.
SendingIn(W, cq, c, u, a) ==
  /\ \A o \in W : o.c = c /\ o.op = "send" => o.n = u /\ a = 0
  /\ \A i \in DOMAIN cq : cq[i].c = c /\ cq[i].op = "send" => cq[i].n = a /\ a <= u

Out(q, c, op)       == OutIn(Work(q), q.cq, c, op)
OfGen(q, c, g)      == OfGenIn(Work(q), q.cq, c, g)
Sending(q, c, u, a) == SendingIn(Work(q), q.cq, c, u, a)

RingSound(q) ==
  /\ q \in Rings /\ Len(q.sq) <= Depth /\ IsFiniteSet(q.ker)
  /\ q.ker \cap Taken(q) = {}
  /\ Orderly(Work(q), q.cq)

-----------------------------------------------------------------------------
(* A connection against the rings and what its peer has heard.             *)

B(b) == IF b THEN 1 ELSE 0

\* Flags and count say what is out.
Booked(x, c, q) ==
  /\ OfGen(q, c, x.g)
  /\ x.armed <=> Out(q, c, "recv")
  /\ x.pinned <=> Out(q, c, "send")
  /\ x.inflight = B(x.armed) + B(x.pinned) + B(Out(q, c, "connect"))
  /\ x.armed \/ x.pinned => x.connected
  /\ Out(q, c, "connect") => ~x.connected
  /\ x.st = "none" => x = Vacant(x.g)

\* Bytes are numbered as they were staged: the two halves hold the last ones.
Numbered(staged, front, off, back, pinned) ==
  /\ off <= Len(front)
  /\ Len(front) + Len(back) <= staged
  /\ \A i \in 1..Len(front) : front[i] = staged - Len(front) - Len(back) + i
  /\ \A i \in 1..Len(back) : back[i] = staged - Len(back) + i
  /\ ~pinned => back = <<>>

\* The bytes the peer has heard beyond those booked as sent.
AheadOf(staged, front, off, back, h) == Len(h) + Len(front) + Len(back) - staged - off
Ahead(x, h) == AheadOf(x.staged, x.front, x.off, x.back, h)

Counts(h) == \A i \in 1..Len(h) : h[i] = i

InStep(x, c, q, h, run) ==
  /\ Counts(h)
  /\ Numbered(x.staged, x.front, x.off, x.back, x.pinned)
  /\ Sending(q, c, Unsent(x), Ahead(x, h))
  /\ run /\ x.st = "live" /\ ~x.pinned => Ahead(x, h) = 0

ConnSound(x, c, q, h, run) == Booked(x, c, q) /\ InStep(x, c, q, h, run)

\* A client and its upstream name each other, and are open.
Paired(m) ==
  \A c \in Conn : m[c].mate # None =>
    /\ m[c].st = "live"
    /\ m[m[c].mate].mate = c
    /\ c \in Client <=> m[c].mate \in Upstream

\* A connection that wants to read has its receive; those of E aside.
Reading(m, E) ==
  \A c \in Conn \ E : m[c].st = "live" /\ m[c].connected /\ ~m[c].paused => m[c].armed

Sound(m, q, h, run) ==
  /\ m \in [Conn -> Connections]
  /\ RingSound(q)
  /\ \A c \in Conn : ConnSound(m[c], c, q, h[c], run)
  /\ Paired(m)

IInv ==
  /\ TypeOK
  /\ Sound(k, r, heard, mode = "run")
  /\ mode = "run" => Reading(k, {})
  /\ mode = "ended" => \A c \in Conn : k[c].inflight = 0

-----------------------------------------------------------------------------
(* The rings: operations added, completed, and completions read.           *)

LEMMA ConnTypes ==
  ASSUME NEW x \in Connections
  PROVE  /\ x.front \in Seq(Nat) /\ x.back \in Seq(Nat) /\ x.off \in Nat /\ x.staged \in Nat
         /\ x.g \in Nat /\ x.inflight \in Nat /\ x.armed \in BOOLEAN /\ x.pinned \in BOOLEAN
         /\ x.connected \in BOOLEAN /\ x.paused \in BOOLEAN /\ x.st \in {"none", "live", "doomed"}
         /\ x.reads \in Nat /\ x.pauses \in Nat /\ x.mate \in Conn \cup {None}
BY DEF Connections

LEMMA AddOne ==
  ASSUME NEW W \in SUBSET Operations, NEW cq \in Seq(Completions), NEW e \in Operations,
         Orderly(W, cq), ~OutIn(W, cq, e.c, e.op)
  PROVE  /\ Orderly(W \cup {e}, cq)
         /\ \A c, op : OutIn(W \cup {e}, cq, c, op) <=> OutIn(W, cq, c, op) \/ (c = e.c /\ op = e.op)
         /\ \A c, g : OfGenIn(W, cq, c, g) /\ (c = e.c => g = e.g) => OfGenIn(W \cup {e}, cq, c, g)
         /\ \A c, u, a : SendingIn(W, cq, c, u, a) /\ (c = e.c /\ e.op = "send" => e.n = u /\ a = 0)
                           => SendingIn(W \cup {e}, cq, c, u, a)
<1>1. \A o, p \in W \cup {e} : o.c = p.c /\ o.op = p.op => o = p
  BY DEF Orderly, OutIn
<1>2. \A i \in DOMAIN cq : ~Continues(cq[i]) =>
        \A o \in W \cup {e} : ~(o.c = cq[i].c /\ o.op = cq[i].op)
  BY DEF Orderly, OutIn
<1>3. Orderly(W \cup {e}, cq)
  BY <1>1, <1>2 DEF Orderly
<1>4. \A c, op : OutIn(W \cup {e}, cq, c, op) <=> OutIn(W, cq, c, op) \/ (c = e.c /\ op = e.op)
  BY Zenon DEF OutIn
<1>5. \A c, g : OfGenIn(W, cq, c, g) /\ (c = e.c => g = e.g) => OfGenIn(W \cup {e}, cq, c, g)
  BY DEF OfGenIn
<1>6. \A c, u, a : SendingIn(W, cq, c, u, a) /\ (c = e.c /\ e.op = "send" => e.n = u /\ a = 0)
                     => SendingIn(W \cup {e}, cq, c, u, a)
  BY DEF SendingIn
<1> QED BY <1>3, <1>4, <1>5, <1>6

\* The completions cq2 are those of cq and, behind them, one for each of H.
Completes(W, cq, H, cq2) ==
  /\ Len(cq) <= Len(cq2)
  /\ \A i \in 1..Len(cq) : cq2[i] = cq[i]
  /\ \A i \in (Len(cq) + 1)..Len(cq2) :
       ~Continues(cq2[i]) /\ \E o \in H : cq2[i].c = o.c /\ cq2[i].op = o.op /\ cq2[i].g = o.g
  /\ \A o \in H : \E i \in (Len(cq) + 1)..Len(cq2) : cq2[i].c = o.c /\ cq2[i].op = o.op
  /\ \A i, j \in (Len(cq) + 1)..Len(cq2) : cq2[i].c = cq2[j].c /\ cq2[i].op = cq2[j].op => i = j

LEMMA Completed ==
  ASSUME NEW W \in SUBSET Operations, NEW cq \in Seq(Completions), NEW H \in SUBSET W,
         NEW cq2 \in Seq(Completions), Completes(W, cq, H, cq2), Orderly(W, cq)
  PROVE  /\ Orderly(W \ H, cq2)
         /\ \A c, op : OutIn(W \ H, cq2, c, op) <=> OutIn(W, cq, c, op)
         /\ \A c, g : OfGenIn(W, cq, c, g) => OfGenIn(W \ H, cq2, c, g)
<1> DEFINE A == 1..Len(cq)
           N == (Len(cq) + 1)..Len(cq2)
<1>d. /\ Len(cq) \in Nat /\ Len(cq2) \in Nat
      /\ DOMAIN cq = A /\ DOMAIN cq2 = A \cup N /\ A \cap N = {}
      /\ \A i \in A, j \in N : j > i
  <2>1. Len(cq) \in Nat /\ Len(cq2) \in Nat /\ Len(cq) <= Len(cq2)
    BY DEF Completes
  <2>2. DOMAIN cq = A /\ DOMAIN cq2 = 1..Len(cq2)
    OBVIOUS
  <2>3. 1..Len(cq2) = A \cup N /\ A \cap N = {} /\ \A i \in A, j \in N : j > i
    BY <2>1
  <2> QED BY <2>1, <2>2, <2>3
<1>o. /\ \A i \in A : cq2[i] = cq[i]
      /\ \A i \in N : ~Continues(cq2[i]) /\ \E o \in H : cq2[i].c = o.c /\ cq2[i].op = o.op /\ cq2[i].g = o.g
      /\ \A o \in H : \E i \in N : cq2[i].c = o.c /\ cq2[i].op = o.op
      /\ \A i, j \in N : cq2[i].c = cq2[j].c /\ cq2[i].op = cq2[j].op => i = j
  BY DEF Completes
<1>w. /\ \A o, p \in W : o.c = p.c /\ o.op = p.op => o = p
      /\ \A i \in A : ~Continues(cq[i]) => \A o \in W : ~(o.c = cq[i].c /\ o.op = cq[i].op)
      /\ \A i, j \in A : ~Continues(cq[i]) /\ ~Continues(cq[j])
                          /\ cq[i].c = cq[j].c /\ cq[i].op = cq[j].op => i = j
      /\ \A i \in A : Continues(cq[i]) =>
           \/ \E o \in W : o.c = cq[i].c /\ o.op = "recv"
           \/ \E j \in A : j > i /\ ~Continues(cq[j]) /\ cq[j].c = cq[i].c /\ cq[j].op = "recv"
  BY <1>d DEF Orderly
<1> HIDE DEF A, N
<1>1. \A o, p \in W \ H : o.c = p.c /\ o.op = p.op => o = p
  BY <1>w
<1>2. ASSUME NEW i \in A \cup N, ~Continues(cq2[i]), NEW o \in W \ H, o.c = cq2[i].c, o.op = cq2[i].op
      PROVE  FALSE
  BY <1>2, <1>o, <1>w
<1>3. ASSUME NEW i \in A \cup N, NEW j \in A \cup N, ~Continues(cq2[i]), ~Continues(cq2[j]),
             cq2[i].c = cq2[j].c, cq2[i].op = cq2[j].op
      PROVE  i = j
  <2>1. CASE i \in A /\ j \in A
    BY <2>1, <1>3, <1>o, <1>w
  <2>2. CASE i \in N /\ j \in N
    BY <2>2, <1>3, <1>o
  <2>3. CASE i \in A /\ j \in N
    BY <2>3, <1>3, <1>o, <1>w
  <2>4. CASE i \in N /\ j \in A
    BY <2>4, <1>3, <1>o, <1>w
  <2> QED BY <2>1, <2>2, <2>3, <2>4
<1>4. ASSUME NEW i \in A \cup N, Continues(cq2[i])
      PROVE  \/ \E o \in W \ H : o.c = cq2[i].c /\ o.op = "recv"
             \/ \E j \in A \cup N : j > i /\ ~Continues(cq2[j]) /\ cq2[j].c = cq2[i].c /\ cq2[j].op = "recv"
  <2>1. i \in A /\ cq2[i] = cq[i]
    BY <1>4, <1>o
  <2>2. CASE \E o \in W : o.c = cq[i].c /\ o.op = "recv"
    <3>1. PICK o \in W : o.c = cq[i].c /\ o.op = "recv"
      BY <2>2
    <3>2. CASE o \in H
      <4>1. PICK j \in N : cq2[j].c = o.c /\ cq2[j].op = o.op
        BY <3>2, <1>o
      <4>2. j > i /\ ~Continues(cq2[j])
        BY <2>1, <1>d, <1>o
      <4> QED BY <4>1, <4>2, <3>1, <2>1
    <3> QED BY <3>1, <3>2, <2>1
  <2>3. CASE \E j \in A : j > i /\ ~Continues(cq[j]) /\ cq[j].c = cq[i].c /\ cq[j].op = "recv"
    BY <2>3, <2>1, <1>o
  <2> QED BY <2>1, <2>2, <2>3, <1>4, <1>w
<1>5. Orderly(W \ H, cq2)
  BY <1>1, <1>2, <1>3, <1>4, <1>d DEF Orderly
<1>6. ASSUME NEW c, NEW op
      PROVE  OutIn(W \ H, cq2, c, op) <=> OutIn(W, cq, c, op)
  <2>1. ASSUME OutIn(W, cq, c, op) PROVE OutIn(W \ H, cq2, c, op)
    <3>1. CASE \E o \in W : o.c = c /\ o.op = op
      BY <3>1, <1>o, <1>d DEF OutIn
    <3>2. CASE \E i \in A : ~Continues(cq[i]) /\ cq[i].c = c /\ cq[i].op = op
      BY <3>2, <1>o, <1>d DEF OutIn
    <3> QED BY <2>1, <3>1, <3>2, <1>d DEF OutIn
  <2>2. ASSUME OutIn(W \ H, cq2, c, op) PROVE OutIn(W, cq, c, op)
    <3>1. CASE \E o \in W \ H : o.c = c /\ o.op = op
      BY <3>1 DEF OutIn
    <3>2. CASE \E i \in A \cup N : ~Continues(cq2[i]) /\ cq2[i].c = c /\ cq2[i].op = op
      BY <3>2, <1>o, <1>d DEF OutIn
    <3> QED BY <2>2, <3>1, <3>2, <1>d DEF OutIn
  <2> QED BY <2>1, <2>2
<1>7. ASSUME NEW c, NEW g, OfGenIn(W, cq, c, g)
      PROVE  OfGenIn(W \ H, cq2, c, g)
  BY <1>7, <1>o, <1>d DEF OfGenIn
<1> QED BY <1>5, <1>6, <1>7

\* For c the rings say the same of what is out.
Frame(q, q2, c) ==
  /\ \A op : Out(q2, c, op) <=> Out(q, c, op)
  /\ \A g : OfGen(q, c, g) => OfGen(q2, c, g)
  /\ \A u, a : Sending(q, c, u, a) => Sending(q2, c, u, a)

LEMMA RingParts ==
  ASSUME NEW q \in Rings
  PROVE  /\ q.sq \in Seq(Entries) /\ q.ker \in SUBSET Operations /\ q.cq \in Seq(Completions)
         /\ Taken(q) \in SUBSET Operations /\ Work(q) \in SUBSET Operations
         /\ IsFiniteSet(q.ker) => IsFiniteSet(Work(q))
         /\ Hit(q) \in SUBSET Work(q)
<1>1. q.sq \in Seq(Entries) /\ q.ker \in SUBSET Operations /\ q.cq \in Seq(Completions)
  BY DEF Rings
<1>2. Taken(q) \in SUBSET Operations
  <2>1. ASSUME NEW e \in Entries, e.op \notin Cancels PROVE e \in Operations
    BY <2>1 DEF Entries, Operations
  <2>2. \A j \in DOMAIN q.sq : q.sq[j] \in Entries
    BY <1>1
  <2> QED BY <2>1, <2>2, Zenon DEF Taken
<1>3. IsFiniteSet(Taken(q))
  <2> DEFINE I == {j \in DOMAIN q.sq : q.sq[j].op \notin Cancels}
  <2>1. DOMAIN q.sq = 1..Len(q.sq) /\ Len(q.sq) \in Nat
    BY <1>1
  <2>2. IsFiniteSet(1..Len(q.sq))
    BY <2>1, FS_Interval
  <2>3. IsFiniteSet(I)
    BY <2>1, <2>2, FS_Subset
  <2>4. Taken(q) = {q.sq[i] : i \in I}
    BY DEF Taken
  <2> HIDE DEF I
  <2> DEFINE F == [i \in I |-> q.sq[i]]
  <2>5. F \in [I -> Taken(q)] /\ \A t \in Taken(q) : \E i \in I : F[i] = t
    BY <2>4
  <2>6. F \in Surjection(I, Taken(q))
    BY <2>5, Zenon DEF Surjection
  <2> HIDE DEF F
  <2> QED BY <2>3, <2>6, FS_Surjection
<1>4. IsFiniteSet(q.ker) => IsFiniteSet(Work(q))
  BY <1>3, FS_Union DEF Work
<1>5. Hit(q) \in SUBSET Work(q)
  BY DEF Hit, Work, Taken
<1> QED BY <1>1, <1>2, <1>4, <1>5 DEF Work

LEMMA IsSeq ==
  ASSUME NEW S, NEW n \in Nat, NEW d \in [1..n -> S]
  PROVE  d \in Seq(S) /\ Len(d) = n
OBVIOUS

LEMMA Flushed ==
  ASSUME NEW q, RingSound(q), NEW f \in Flush(q)
  PROVE  RingSound(f) /\ f.sq = <<>> /\ \A c : Frame(q, f, c)
<1> DEFINE H  == Hit(q)
           W  == Work(q)
           cq == q.cq
           n  == Cardinality(H)
<1>1. /\ W \in SUBSET Operations /\ cq \in Seq(Completions) /\ H \in SUBSET W
      /\ IsFiniteSet(W) /\ Orderly(W, cq)
  BY RingParts DEF RingSound
<1>2. IsFiniteSet(H) /\ n \in Nat
  BY <1>1, FS_Subset, FS_CardinalityType
<1>3. PICK p \in Bijection(1..n, H) :
        f = [sq  |-> <<>>, ker |-> W \ H,
             cq  |-> cq \o [i \in 1..n |-> Done(p[i], "cancelled", 0, FALSE)], lost |-> q.lost]
  BY DEF Flush, Work
<1> DEFINE ds  == [i \in 1..n |-> Done(p[i], "cancelled", 0, FALSE)]
           cq2 == cq \o ds
<1>p. /\ p \in [1..n -> H]
      /\ \A i, j \in 1..n : p[i] = p[j] => i = j
      /\ \A o \in H : \E i \in 1..n : p[i] = o
  BY <1>3 DEF Bijection, Injection, Surjection, IsInjective
<1>q. \A i \in 1..n : p[i] \in H /\ p[i] \in Operations
  BY <1>p, <1>1
<1>4. f.sq = <<>> /\ f.ker = W \ H /\ f.cq = cq2
  BY <1>3
<1>5. \A i \in 1..n : ds[i] \in Completions
  <2> TAKE i \in 1..n
  <2>1. p[i] \in Operations /\ ds[i] = Done(p[i], "cancelled", 0, FALSE)
    BY <1>q
  <2>2. \A o \in Operations : Done(o, "cancelled", 0, FALSE) \in Completions
    BY DEF Done, Completions, Operations, Results
  <2> QED BY <2>1, <2>2
<1>6. ds \in Seq(Completions) /\ Len(ds) = n
  <2>1. ds \in [1..n -> Completions]
    BY <1>5
  <2> HIDE DEF ds, n
  <2> QED BY <2>1, <1>2, IsSeq
<1>7. \A i \in 1..n : /\ ds[i].c = p[i].c /\ ds[i].op = p[i].op /\ ds[i].g = p[i].g
                      /\ ds[i].n = 0 /\ ~Continues(ds[i])
  BY DEF Done, Continues
<1> HIDE DEF H, W, cq, n, ds
<1>8. /\ cq2 \in Seq(Completions) /\ Len(cq2) = Len(cq) + n /\ Len(cq) \in Nat
      /\ \A i \in 1..Len(cq) : cq2[i] = cq[i]
      /\ \A i \in 1..n : cq2[Len(cq) + i] = ds[i]
  BY <1>1, <1>2, <1>6
<1> HIDE DEF cq2
<1>9. \A i \in (Len(cq) + 1)..Len(cq2) : i - Len(cq) \in 1..n /\ cq2[i] = ds[i - Len(cq)]
  <2> TAKE i \in (Len(cq) + 1)..Len(cq2)
  <2>1. i - Len(cq) \in 1..n /\ Len(cq) + (i - Len(cq)) = i
    BY <1>2, <1>8
  <2> QED BY <2>1, <1>8
<1>10. Completes(W, cq, H, cq2)
  <2>1. ASSUME NEW i \in (Len(cq) + 1)..Len(cq2)
        PROVE  ~Continues(cq2[i]) /\ \E o \in H : cq2[i].c = o.c /\ cq2[i].op = o.op /\ cq2[i].g = o.g
    BY <1>7, <1>9, <1>q
  <2>2. ASSUME NEW o \in H
        PROVE  \E i \in (Len(cq) + 1)..Len(cq2) : cq2[i].c = o.c /\ cq2[i].op = o.op
    <3>1. PICK i \in 1..n : p[i] = o
      BY <1>p
    <3>2. Len(cq) + i \in (Len(cq) + 1)..Len(cq2) /\ cq2[Len(cq) + i] = ds[i]
      BY <1>2, <1>8
    <3> QED BY <3>1, <3>2, <1>7
  <2>3. ASSUME NEW i \in (Len(cq) + 1)..Len(cq2), NEW j \in (Len(cq) + 1)..Len(cq2),
               cq2[i].c = cq2[j].c, cq2[i].op = cq2[j].op
        PROVE  i = j
    <3> DEFINE a == i - Len(cq)
               b == j - Len(cq)
    <3>1. a \in 1..n /\ b \in 1..n /\ cq2[i] = ds[a] /\ cq2[j] = ds[b]
      BY <1>9
    <3>i. i = Len(cq) + a /\ j = Len(cq) + b
      BY <1>8
    <3> HIDE DEF a, b
    <3>2. p[a].c = p[b].c /\ p[a].op = p[b].op
      BY <3>1, <2>3, <1>7
    <3>3. p[a] = p[b]
      BY <3>1, <3>2, <1>q, <1>1 DEF Orderly
    <3>4. a = b
      BY <3>1, <3>3, <1>p
    <3> QED BY <3>4, <3>i
  <2>4. Len(cq) <= Len(cq2)
    BY <1>2, <1>8
  <2> QED BY <2>1, <2>2, <2>3, <2>4, <1>8 DEF Completes
<1>11. /\ Orderly(W \ H, cq2)
       /\ \A c, op : OutIn(W \ H, cq2, c, op) <=> OutIn(W, cq, c, op)
       /\ \A c, g : OfGenIn(W, cq, c, g) => OfGenIn(W \ H, cq2, c, g)
  BY <1>1, <1>8, <1>10, Completed
<1>12. ASSUME NEW c, NEW u, NEW a, SendingIn(W, cq, c, u, a)
       PROVE  SendingIn(W \ H, cq2, c, u, a)
  <2>1. \A o \in W \ H : o.c = c /\ o.op = "send" => o.n = u /\ a = 0
    BY <1>12 DEF SendingIn
  <2>2. ASSUME NEW i \in DOMAIN cq2, cq2[i].c = c, cq2[i].op = "send"
        PROVE  cq2[i].n = a /\ a <= u
    <3>1. i \in 1..Len(cq) \/ i \in (Len(cq) + 1)..Len(cq2)
      BY <1>8, <1>2
    <3>2. CASE i \in 1..Len(cq)
      BY <3>2, <2>2, <1>1, <1>8, <1>12 DEF SendingIn
    <3>3. CASE i \in (Len(cq) + 1)..Len(cq2)
      <4> DEFINE j == i - Len(cq)
      <4>1. j \in 1..n /\ cq2[i] = ds[j]
        BY <3>3, <1>9
      <4> HIDE DEF j
      <4>2. p[j] \in W /\ p[j] \in Operations /\ p[j].c = c /\ p[j].op = "send" /\ ds[j].n = 0
        BY <4>1, <2>2, <1>7, <1>q, <1>1
      <4>3. p[j].n = u /\ a = 0
        BY <4>2, <1>12 DEF SendingIn
      <4>4. p[j].n \in Nat
        BY <4>2 DEF Operations
      <4> QED BY <4>1, <4>2, <4>3, <4>4
    <3> QED BY <3>1, <3>2, <3>3
  <2> QED BY <2>1, <2>2 DEF SendingIn
<1>13. f.sq = <<>> /\ Taken(f) = {} /\ Work(f) = W \ H
  BY <1>4 DEF Taken, Work
<1>14. RingSound(f)
  <2>1. f \in Rings
    <3>1. W \ H \in SUBSET Operations /\ <<>> \in Seq(Entries) /\ q.lost \in SUBSET (Conn \X Nat)
      BY <1>1 DEF RingSound, Rings
    <3> QED BY <1>3, <1>8, <3>1 DEF Rings, cq2, ds
  <2>2. IsFiniteSet(f.ker)
    BY <1>1, <1>4, FS_Subset
  <2>3. Len(f.sq) <= Depth
    BY <1>4, UringConstants
  <2> QED BY <2>1, <2>2, <2>3, <1>4, <1>11, <1>13 DEF RingSound
<1> QED BY <1>4, <1>11, <1>12, <1>13, <1>14 DEF Frame, Out, OfGen, Sending, W, cq

LEMMA TakenAppend ==
  ASSUME NEW q \in Rings, NEW e \in Entries, NEW q2, q2 = [q EXCEPT !.sq = Append(@, e)]
  PROVE  /\ q2 \in Rings /\ q2.ker = q.ker /\ q2.cq = q.cq /\ Len(q2.sq) = Len(q.sq) + 1
         /\ e.op \in Cancels => Taken(q2) = Taken(q)
         /\ e.op \notin Cancels => Taken(q2) = Taken(q) \cup {e}
<1> DEFINE s == q.sq
           t == Append(s, e)
<1>1. s \in Seq(Entries) /\ t \in Seq(Entries) /\ Len(t) = Len(s) + 1 /\ Len(s) \in Nat
  BY DEF Rings
<1>2. q2.sq = t /\ q2.ker = q.ker /\ q2.cq = q.cq /\ q2 \in Rings
  BY <1>1 DEF Rings
<1>3. DOMAIN t = DOMAIN s \cup {Len(s) + 1} /\ t[Len(s) + 1] = e /\ \A i \in DOMAIN s : t[i] = s[i]
  BY <1>1
<1>4. Taken(q) = {s[i] : i \in {j \in DOMAIN s : s[j].op \notin Cancels}}
  BY DEF Taken
<1>5. Taken(q2) = {t[i] : i \in {j \in DOMAIN t : t[j].op \notin Cancels}}
  BY <1>2 DEF Taken
<1> HIDE DEF s, t
<1>6. ASSUME e.op \in Cancels PROVE Taken(q2) = Taken(q)
  <2>1. {j \in DOMAIN t : t[j].op \notin Cancels} = {j \in DOMAIN s : s[j].op \notin Cancels}
    BY <1>3, <1>6
  <2>2. \A j \in {l \in DOMAIN s : s[l].op \notin Cancels} : t[j] = s[j]
    BY <1>3
  <2> QED BY <2>1, <2>2, <1>4, <1>5
<1>7. ASSUME e.op \notin Cancels PROVE Taken(q2) = Taken(q) \cup {e}
  BY <1>3, <1>4, <1>5, <1>7
<1> QED BY <1>1, <1>2, <1>6, <1>7 DEF s

\* What a put of operation e makes of the rings.
Added(q, q2, e) ==
  /\ \A c, op : Out(q2, c, op) <=> Out(q, c, op) \/ (c = e.c /\ op = e.op)
  /\ \A c, g : OfGen(q, c, g) /\ (c = e.c => g = e.g) => OfGen(q2, c, g)
  /\ \A c, u, a : Sending(q, c, u, a) /\ (c = e.c /\ e.op = "send" => e.n = u /\ a = 0)
                    => Sending(q2, c, u, a)

LEMMA QueuedCancel ==
  ASSUME NEW q, RingSound(q), NEW e \in Entries, e.op \in Cancels, Len(q.sq) < Depth,
         NEW q2, q2 = [q EXCEPT !.sq = Append(@, e)]
  PROVE  RingSound(q2) /\ \A c : Frame(q, q2, c)
<1>1. q \in Rings /\ Len(q.sq) \in Nat
  BY RingParts DEF RingSound
<1>2. /\ q2 \in Rings /\ q2.ker = q.ker /\ q2.cq = q.cq /\ Len(q2.sq) = Len(q.sq) + 1
      /\ Taken(q2) = Taken(q)
  BY <1>1, TakenAppend
<1>3. Work(q2) = Work(q) /\ Len(q2.sq) <= Depth
  BY <1>1, <1>2, UringConstants DEF Work
<1> QED BY <1>2, <1>3, Zenon DEF RingSound, Frame, Out, OfGen, Sending

LEMMA QueuedOp ==
  ASSUME NEW q, RingSound(q), NEW e \in Operations, ~Out(q, e.c, e.op), Len(q.sq) < Depth,
         NEW q2, q2 = [q EXCEPT !.sq = Append(@, e)]
  PROVE  RingSound(q2) /\ Added(q, q2, e)
<1>1. q \in Rings /\ Len(q.sq) \in Nat /\ e \in Entries /\ e.op \notin Cancels
  BY RingParts DEF RingSound, Operations, Entries, Kinds, Cancels
<1>2. /\ q2 \in Rings /\ q2.ker = q.ker /\ q2.cq = q.cq /\ Len(q2.sq) = Len(q.sq) + 1
      /\ Taken(q2) = Taken(q) \cup {e}
  BY <1>1, TakenAppend
<1>3. Work(q2) = Work(q) \cup {e} /\ Len(q2.sq) <= Depth
  <2>1. Work(q2) = Work(q) \cup {e}
    BY <1>2 DEF Work
  <2>2. Len(q2.sq) <= Depth
    BY <1>1, <1>2, UringConstants
  <2> QED BY <2>1, <2>2
<1>4. Work(q) \in SUBSET Operations /\ q.cq \in Seq(Completions) /\ Orderly(Work(q), q.cq)
  BY <1>1, RingParts DEF RingSound
<1>5. ~OutIn(Work(q), q.cq, e.c, e.op)
  BY DEF Out
<1>6. e \notin q.ker
  BY <1>5 DEF OutIn, Work
<1>7. /\ Orderly(Work(q2), q2.cq)
      /\ \A c, op : OutIn(Work(q2), q2.cq, c, op) <=> OutIn(Work(q), q.cq, c, op) \/ (c = e.c /\ op = e.op)
      /\ \A c, g : OfGenIn(Work(q), q.cq, c, g) /\ (c = e.c => g = e.g) => OfGenIn(Work(q2), q2.cq, c, g)
      /\ \A c, u, a : SendingIn(Work(q), q.cq, c, u, a) /\ (c = e.c /\ e.op = "send" => e.n = u /\ a = 0)
                        => SendingIn(Work(q2), q2.cq, c, u, a)
  <2> DEFINE W == Work(q)
             cq == q.cq
  <2>1. W \in SUBSET Operations /\ cq \in Seq(Completions) /\ Orderly(W, cq) /\ ~OutIn(W, cq, e.c, e.op)
    BY <1>4, <1>5
  <2>2. Work(q2) = W \cup {e} /\ q2.cq = cq
    BY <1>2, <1>3
  <2> HIDE DEF W, cq
  <2>3. /\ Orderly(W \cup {e}, cq)
        /\ \A c, op : OutIn(W \cup {e}, cq, c, op) <=> OutIn(W, cq, c, op) \/ (c = e.c /\ op = e.op)
        /\ \A c, g : OfGenIn(W, cq, c, g) /\ (c = e.c => g = e.g) => OfGenIn(W \cup {e}, cq, c, g)
        /\ \A c, u, a : SendingIn(W, cq, c, u, a) /\ (c = e.c /\ e.op = "send" => e.n = u /\ a = 0)
                          => SendingIn(W \cup {e}, cq, c, u, a)
    BY <2>1, AddOne
  <2> QED BY <2>2, <2>3 DEF W, cq
<1>8. Added(q, q2, e)
  BY <1>7, Zenon DEF Added, Out, OfGen, Sending
<1>9. q2.ker \cap Taken(q2) = {}
  BY <1>2, <1>6 DEF RingSound
<1>10. IsFiniteSet(q2.ker)
  BY <1>2 DEF RingSound
<1> QED BY <1>2, <1>3, <1>7, <1>8, <1>9, <1>10 DEF RingSound

LEMMA AfterFlush ==
  ASSUME NEW f \in Rings, f.sq = <<>>, NEW e
  PROVE  [f EXCEPT !.sq = <<e>>] = [f EXCEPT !.sq = Append(@, e)] /\ Len(f.sq) < Depth
<1>1. Append(<<>>, e) = <<e>>
  OBVIOUS
<1>2. Len(<<>>) = 0 /\ 0 < Depth
  BY UringConstants
<1> QED BY <1>1, <1>2

LEMMA PutCancel ==
  ASSUME NEW q, RingSound(q), NEW e \in Entries, e.op \in Cancels, NEW p \in Puts(q, e)
  PROVE  RingSound(p.r) /\ (\A c : Frame(q, p.r, c)) /\ p.ok \in BOOLEAN
<1>1. CASE Len(q.sq) < Depth
  <2>1. p.ok = TRUE /\ p.r = [q EXCEPT !.sq = Append(@, e)]
    BY <1>1 DEF Puts
  <2> QED BY <1>1, <2>1, QueuedCancel
<1>2. CASE ~(Len(q.sq) < Depth)
  <2>1. CASE p = [ok |-> FALSE, r |-> q]
    BY <2>1 DEF Frame
  <2>2. CASE \E f \in Flush(q) : p = [ok |-> TRUE, r |-> [f EXCEPT !.sq = <<e>>]]
    <3>1. PICK f \in Flush(q) : p = [ok |-> TRUE, r |-> [f EXCEPT !.sq = <<e>>]]
      BY <2>2
    <3>2. RingSound(f) /\ f.sq = <<>> /\ \A c : Frame(q, f, c)
      BY Flushed
    <3>3. p.ok /\ p.r = [f EXCEPT !.sq = Append(@, e)] /\ Len(f.sq) < Depth
      BY <3>1, <3>2, AfterFlush DEF RingSound
    <3>4. RingSound(p.r) /\ \A c : Frame(f, p.r, c)
      BY <3>2, <3>3, QueuedCancel
    <3>5. \A c : Frame(q, p.r, c)
      BY <3>2, <3>4, Zenon DEF Frame
    <3> QED BY <3>1, <3>4, <3>5
  <2> QED BY <1>2, <2>1, <2>2 DEF Puts
<1> QED BY <1>1, <1>2

LEMMA PutOp ==
  ASSUME NEW q, RingSound(q), NEW e \in Operations, ~Out(q, e.c, e.op), NEW p \in Puts(q, e)
  PROVE  /\ p.ok \in BOOLEAN
         /\ p.ok => RingSound(p.r) /\ Added(q, p.r, e)
<1>1. CASE Len(q.sq) < Depth
  <2>1. p.ok = TRUE /\ p.r = [q EXCEPT !.sq = Append(@, e)]
    BY <1>1 DEF Puts
  <2> QED BY <1>1, <2>1, QueuedOp
<1>2. CASE ~(Len(q.sq) < Depth)
  <2>1. CASE p = [ok |-> FALSE, r |-> q]
    BY <2>1
  <2>2. CASE \E f \in Flush(q) : p = [ok |-> TRUE, r |-> [f EXCEPT !.sq = <<e>>]]
    <3>1. PICK f \in Flush(q) : p = [ok |-> TRUE, r |-> [f EXCEPT !.sq = <<e>>]]
      BY <2>2
    <3>2. RingSound(f) /\ f.sq = <<>> /\ \A c : Frame(q, f, c)
      BY Flushed
    <3>3. p.ok = TRUE /\ p.r = [f EXCEPT !.sq = Append(@, e)] /\ Len(f.sq) < Depth
      BY <3>1, <3>2, AfterFlush DEF RingSound
    <3>x. ~Out(f, e.c, e.op)
      BY <3>2, Zenon DEF Frame
    <3>4. RingSound(p.r) /\ Added(f, p.r, e)
      BY <3>2, <3>3, <3>x, QueuedOp
    <3>5. Added(q, p.r, e)
      BY <3>2, <3>4, Zenon DEF Frame, Added
    <3> QED BY <3>3, <3>4, <3>5
  <2> QED BY <1>2, <2>1, <2>2 DEF Puts
<1> QED BY <1>1, <1>2

-----------------------------------------------------------------------------
(* A connection's books, whatever else of it changes.                      *)

LEMMA ConnFrame ==
  ASSUME NEW x, NEW c, NEW q, NEW q2, NEW h, NEW run,
         ConnSound(x, c, q, h, run), Frame(q, q2, c)
  PROVE  ConnSound(x, c, q2, h, run)
<1>1. /\ OfGen(q2, c, x.g)
      /\ \A op : Out(q2, c, op) <=> Out(q, c, op)
      /\ Sending(q2, c, Unsent(x), Ahead(x, h))
  BY Zenon DEF ConnSound, Booked, InStep, Frame
<1>2. B(Out(q2, c, "connect")) = B(Out(q, c, "connect"))
  BY <1>1 DEF B
<1>3. Booked(x, c, q2)
  <2>1. /\ x.armed <=> Out(q2, c, "recv")
        /\ x.pinned <=> Out(q2, c, "send")
        /\ Out(q2, c, "connect") => ~x.connected
    BY <1>1, Zenon DEF ConnSound, Booked
  <2>2. x.inflight = B(x.armed) + B(x.pinned) + B(Out(q2, c, "connect"))
    BY <1>2, Zenon DEF ConnSound, Booked
  <2> QED BY <1>1, <2>1, <2>2, Zenon DEF ConnSound, Booked
<1>4. InStep(x, c, q2, h, run)
  BY <1>1, Zenon DEF ConnSound, InStep
<1> QED BY <1>3, <1>4 DEF ConnSound

SameBooks(x, y) ==
  /\ y.g = x.g /\ y.armed = x.armed /\ y.pinned = x.pinned /\ y.inflight = x.inflight
  /\ y.connected = x.connected /\ y.front = x.front /\ y.off = x.off /\ y.back = x.back
  /\ y.staged = x.staged

LEMMA SameBooksSound ==
  ASSUME NEW x, NEW y, NEW c, NEW q, NEW h, NEW run, NEW run2,
         ConnSound(x, c, q, h, run), SameBooks(x, y), y.st # "none",
         run2 /\ y.st = "live" => run /\ x.st = "live"
  PROVE  ConnSound(y, c, q, h, run2)
<1>1. Booked(y, c, q)
  BY DEF ConnSound, Booked, SameBooks
<1>2. Unsent(y) = Unsent(x) /\ Ahead(y, h) = Ahead(x, h)
  BY DEF SameBooks, Unsent, Ahead
<1>3. InStep(y, c, q, h, run2)
  <2>1. Numbered(y.staged, y.front, y.off, y.back, y.pinned)
    BY DEF ConnSound, InStep, SameBooks
  <2>2. Sending(q, c, Unsent(y), Ahead(y, h)) /\ Counts(h)
    BY <1>2 DEF ConnSound, InStep
  <2>3. ASSUME run2, y.st = "live", ~y.pinned PROVE Ahead(y, h) = 0
    BY <2>3, <1>2 DEF ConnSound, InStep, SameBooks
  <2> QED BY <2>1, <2>2, <2>3 DEF InStep
<1> QED BY <1>1, <1>3 DEF ConnSound

LEMMA NothingLeft ==
  ASSUME NEW q, RingSound(q), NEW c, \A op \in Kinds : ~Out(q, c, op)
  PROVE  (\A g : OfGen(q, c, g)) /\ (\A u, a : Sending(q, c, u, a))
<1>1. Work(q) \in SUBSET Operations /\ q.cq \in Seq(Completions) /\ Orderly(Work(q), q.cq)
  BY RingParts DEF RingSound
<1>2. \A o \in Work(q) : o.op \in Kinds
  BY <1>1 DEF Operations
<1>3. \A i \in DOMAIN q.cq : q.cq[i].op \in Kinds
  <2>1. \A i \in DOMAIN q.cq : q.cq[i] \in Completions
    BY <1>1
  <2> QED BY <2>1 DEF Completions
<1>4. \A o \in Work(q) : o.c # c
  BY <1>2 DEF Out, OutIn
<1>5. \A i \in DOMAIN q.cq : q.cq[i].c = c => Continues(q.cq[i])
  BY <1>3 DEF Out, OutIn
<1>6. \A i \in DOMAIN q.cq : q.cq[i].c # c
  BY <1>1, <1>4, <1>5 DEF Orderly
<1> QED BY <1>4, <1>6 DEF OfGen, OfGenIn, Sending, SendingIn

LEMMA VacantType ==
  ASSUME NEW g \in Nat PROVE Vacant(g) \in Connections
<1>1. <<>> \in Seq(Nat)
  OBVIOUS
<1> QED BY <1>1 DEF Vacant, Connections

LEMMA VacantSound ==
  ASSUME NEW q, RingSound(q), NEW c, \A op \in Kinds : ~Out(q, c, op),
         NEW g \in Nat, NEW h \in Seq(Nat), Counts(h), NEW run
  PROVE  ConnSound(Vacant(g), c, q, h, run)
<1> DEFINE v == Vacant(g)
<1>1. /\ v.st = "none" /\ v.g = g /\ v.inflight = 0 /\ v.armed = FALSE /\ v.pinned = FALSE
      /\ v.connected = FALSE /\ v.front = <<>> /\ v.off = 0 /\ v.back = <<>> /\ v.staged = 0
  BY DEF Vacant
<1>2. v = Vacant(v.g)
  BY <1>1
<1> HIDE DEF v
<1>3. (\A j : OfGen(q, c, j)) /\ (\A u, a : Sending(q, c, u, a))
  BY NothingLeft
<1>4. B(v.armed) = 0 /\ B(v.pinned) = 0 /\ B(Out(q, c, "connect")) = 0
  BY <1>1 DEF B, Kinds
<1>5. Booked(v, c, q)
  BY <1>1, <1>2, <1>3, <1>4 DEF Booked, Kinds
<1>6. Numbered(v.staged, v.front, v.off, v.back, v.pinned)
  <2>1. Len(<<>>) = 0
    OBVIOUS
  <2> QED BY <1>1, <2>1 DEF Numbered
<1>7. InStep(v, c, q, h, run)
  BY <1>1, <1>3, <1>6 DEF InStep
<1> QED BY <1>5, <1>7 DEF ConnSound, v

LEMMA FreedSound ==
  ASSUME NEW q, RingSound(q), NEW c, NEW x \in Connections, NEW h \in Seq(Nat), NEW run,
         ConnSound(x, c, q, h, run), x.mate = None
  PROVE  /\ MaybeFree(x) \in Connections
         /\ ConnSound(MaybeFree(x), c, q, h, run)
         /\ MaybeFree(x).mate = None
         /\ x.st # "live" => MaybeFree(x).st # "live"
<1>1. CASE x.st = "doomed" /\ x.inflight = 0
  <2>1. MaybeFree(x) = Vacant(x.g + 1) /\ x.g + 1 \in Nat
    BY <1>1 DEF MaybeFree, Connections
  <2>2. x.armed \in BOOLEAN /\ x.pinned \in BOOLEAN
    BY DEF Connections
  <2>3. 0 = B(x.armed) + B(x.pinned) + B(Out(q, c, "connect"))
    BY <1>1 DEF ConnSound, Booked
  <2>4. ~x.armed /\ ~x.pinned /\ ~Out(q, c, "connect")
    BY <2>3 DEF B
  <2>5. \A op \in Kinds : ~Out(q, c, op)
    BY <2>4 DEF Kinds, ConnSound, Booked
  <2>6. Counts(h)
    BY DEF ConnSound, InStep
  <2>7. ConnSound(Vacant(x.g + 1), c, q, h, run)
    BY <2>1, <2>5, <2>6, VacantSound
  <2> QED BY <2>1, <2>7, VacantType DEF Vacant
<1>2. CASE ~(x.st = "doomed" /\ x.inflight = 0)
  BY <1>2 DEF MaybeFree
<1> QED BY <1>1, <1>2

-----------------------------------------------------------------------------
(* Closing.                                                                *)

\* A connection not freed keeps the bytes the transport reads.
StillAt(x, y) ==
  /\ x.g \in Nat /\ y.g \in Nat /\ x.g <= y.g
  /\ y.g = x.g => y.front = x.front /\ y.off = x.off
Still(m, m2) == \A d \in Conn : StillAt(m[d], m2[d])

LEMMA StillTwice ==
  ASSUME NEW m, NEW m2, NEW m3, Still(m, m2), Still(m2, m3)
  PROVE  Still(m, m3)
BY DEF Still, StillAt

\* Only c changed.
Alone(m, m2, c) == \A d \in Conn \ {c} : m2[d] = m[d]

LEMMA StillOne ==
  ASSUME NEW m \in [Conn -> Connections], NEW c \in Conn, NEW m2, Alone(m, m2, c),
         StillAt(m[c], m2[c])
  PROVE  Still(m, m2)
<1> SUFFICES ASSUME NEW d \in Conn PROVE StillAt(m[d], m2[d])
  BY DEF Still
<1>0. d # c => m2[d] = m[d]
  BY DEF Alone
<1>1. m[d].g \in Nat
  BY ConnTypes
<1> QED BY <1>0, <1>1 DEF StillAt

\* No connection is opened, one still open reads as before, and none's bytes
\* move.
Fewer(m, m2) ==
  /\ Still(m, m2)
  /\ \A d \in Conn : m2[d].st = "live" =>
       /\ m[d].st = "live" /\ m2[d].connected = m[d].connected
       /\ m2[d].paused = m[d].paused /\ m2[d].armed = m[d].armed /\ m2[d].pinned = m[d].pinned

LEMMA FewerRead ==
  ASSUME NEW m, NEW m2, NEW c, Fewer(m, m2), Reading(m, {c}), m2[c].st # "live"
  PROVE  Reading(m2, {})
BY DEF Fewer, Reading

LEMMA CancelSound ==
  ASSUME NEW q, RingSound(q), NEW c \in Conn, NEW x \in Connections, NEW q2 \in SubmitCancel(q, x, c)
  PROVE  RingSound(q2) /\ \A d : Frame(q, q2, d)
<1>1. Op("cancel", x, c) \in Entries /\ Op("cancel", x, c).op \in Cancels
  BY DEF Op, Entries, Cancels, Connections
<1>2. PICK p \in Puts(q, Op("cancel", x, c)) :
        q2 = IF p.ok THEN p.r ELSE [p.r EXCEPT !.lost = @ \cup {<<c, x.g>>}]
  BY DEF SubmitCancel
<1>3. RingSound(p.r) /\ \A d : Frame(q, p.r, d)
  BY <1>1, <1>2, PutCancel
<1>4. CASE ~p.ok
  <2> DEFINE v == p.r
  <2>1. v \in Rings /\ q2 = [v EXCEPT !.lost = @ \cup {<<c, x.g>>}] /\ <<c, x.g>> \in Conn \X Nat
    BY <1>2, <1>3, <1>4 DEF RingSound, Connections
  <2> HIDE DEF v
  <2>2. q2 \in Rings /\ q2.sq = v.sq /\ q2.ker = v.ker /\ q2.cq = v.cq
    BY <2>1 DEF Rings
  <2>3. Taken(q2) = Taken(v) /\ Work(q2) = Work(v)
    BY <2>2 DEF Taken, Work
  <2>4. RingSound(q2) /\ \A d : Frame(q, q2, d)
    BY <2>2, <2>3, <1>3 DEF RingSound, Frame, Out, OfGen, Sending, v
  <2> QED BY <2>4
<1> QED BY <1>2, <1>3, <1>4

LEMMA CloseOneSound ==
  ASSUME NEW s, NEW h \in [Conn -> Seq(Nat)], Sound(s.k, s.r, h, TRUE), NEW c \in Conn,
         s.k[c].st = "live", NEW t \in CloseOne(s, c)
  PROVE  /\ Sound(t.k, t.r, h, TRUE)
         /\ Fewer(s.k, t.k) /\ t.k[c].st # "live"
         /\ \A d \in Conn \ {c} : t.k[d].st = s.k[d].st
<1> DEFINE m == s.k
           x == m[c]
           other == x.mate
           y == [x EXCEPT !.st = "doomed", !.mate = None]
<1>1. /\ m \in [Conn -> Connections] /\ RingSound(s.r) /\ Paired(m)
      /\ \A d \in Conn : ConnSound(m[d], d, s.r, h[d], TRUE)
  BY DEF Sound
<1>2. /\ t.k = [d \in Conn |-> IF d = c THEN MaybeFree(y)
                              ELSE IF d = other THEN [m[d] EXCEPT !.mate = None] ELSE m[d]]
      /\ t.r \in SubmitCancel(s.r, x, c)
  <2>1. PICK q \in SubmitCancel(s.r, x, c) :
          t = [k |-> [d \in Conn |-> IF d = c THEN MaybeFree(y)
                                     ELSE IF d = other THEN [m[d] EXCEPT !.mate = None] ELSE m[d]],
               r |-> q]
    BY Zenon DEF CloseOne
  <2> HIDE DEF m, x, other, y
  <2> QED BY <2>1
<1>3. x \in Connections /\ \A d \in Conn : m[d] \in Connections /\ h[d] \in Seq(Nat)
  BY <1>1
<1>4. RingSound(t.r) /\ \A d : Frame(s.r, t.r, d)
  BY <1>1, <1>2, <1>3, CancelSound
<1>5. \A d \in Conn : ConnSound(m[d], d, t.r, h[d], TRUE)
  BY <1>1, <1>4, ConnFrame
<1>6. /\ y \in Connections /\ SameBooks(x, y) /\ y.st = "doomed" /\ y.mate = None
  BY <1>3 DEF Connections, SameBooks
<1> HIDE DEF y
<1>7. ConnSound(y, c, t.r, h[c], TRUE)
  BY <1>5, <1>6, SameBooksSound
<1>8. /\ MaybeFree(y) \in Connections /\ ConnSound(MaybeFree(y), c, t.r, h[c], TRUE)
      /\ MaybeFree(y).mate = None /\ MaybeFree(y).st # "live"
  BY <1>3, <1>4, <1>6, <1>7, FreedSound
<1>9. ASSUME NEW d \in Conn
      PROVE  LET z == [m[d] EXCEPT !.mate = None] IN
             /\ z \in Connections /\ SameBooks(m[d], z) /\ z.st = m[d].st /\ z.mate = None
             /\ z.paused = m[d].paused
  BY <1>3 DEF Connections, SameBooks
<1>10. ASSUME NEW d \in Conn, d # c, d = other
       PROVE  /\ t.k[d] \in Connections /\ SameBooks(m[d], t.k[d]) /\ t.k[d].st = m[d].st
              /\ t.k[d].mate = None /\ t.k[d].paused = m[d].paused
  BY <1>2, <1>9, <1>10
<1>11. ASSUME NEW d \in Conn, d # c, d # other
       PROVE  t.k[d] = m[d]
  BY <1>2, <1>11
<1>12. t.k[c] = MaybeFree(y)
  BY <1>2
<1>13. t.k \in [Conn -> Connections]
  <2>1. \A d \in Conn : t.k[d] \in Connections
    BY <1>3, <1>8, <1>10, <1>11, <1>12
  <2>2. t.k = [d \in Conn |-> t.k[d]]
    BY <1>2
  <2> QED BY <2>1, <2>2
<1>14. ASSUME NEW d \in Conn PROVE ConnSound(t.k[d], d, t.r, h[d], TRUE)
  <2>1. CASE d = c
    BY <2>1, <1>8, <1>12
  <2>2. CASE d # c /\ d # other
    BY <2>2, <1>5, <1>11
  <2>3. CASE d # c /\ d = other
    <3>1. m[d].st = "live"
      <4>1. d # None /\ c # None
        BY UringConstants DEF Conn
      <4>2. m[d].mate = c
        BY <2>3, <4>1, <1>1 DEF Paired
      <4> QED BY <4>1, <4>2, <1>1 DEF Paired
    <3>2. t.k[d].st = "live" /\ SameBooks(m[d], t.k[d])
      BY <2>3, <3>1, <1>10
    <3> QED BY <3>1, <3>2, <1>5, SameBooksSound
  <2> QED BY <2>1, <2>2, <2>3
<1>15. Paired(t.k)
  <2> SUFFICES ASSUME NEW d \in Conn, t.k[d].mate # None
               PROVE  /\ t.k[d].st = "live"
                      /\ t.k[t.k[d].mate].mate = d
                      /\ d \in Client <=> t.k[d].mate \in Upstream
    BY DEF Paired
  <2>1. d # c /\ d # other /\ t.k[d] = m[d]
    BY <1>8, <1>10, <1>11, <1>12
  <2>2. /\ m[d].st = "live" /\ m[m[d].mate].mate = d
        /\ d \in Client <=> m[d].mate \in Upstream
    BY <2>1, <1>1 DEF Paired
  <2>3. m[d].mate \in Conn /\ m[d].mate # c
    <3>1. m[d].mate \in Conn
      BY <2>1, <1>3 DEF Connections
    <3> QED BY <3>1, <2>1, <2>2
  <2>4. m[d].mate # other
    <3>1. ASSUME m[d].mate = other PROVE FALSE
      <4>1. other # None
        BY <3>1, <2>1
      <4>2. m[other].mate = c
        BY <4>1, <1>1 DEF Paired
      <4> QED BY <4>2, <3>1, <2>1, <2>2
    <3> QED BY <3>1
  <2>5. t.k[m[d].mate] = m[m[d].mate]
    BY <2>3, <2>4, <1>11
  <2> QED BY <2>1, <2>2, <2>5
<1>16. Sound(t.k, t.r, h, TRUE)
  BY <1>4, <1>13, <1>14, <1>15 DEF Sound
<1>17. \A d \in Conn \ {c} : t.k[d].st = m[d].st
  BY <1>10, <1>11
<1>s. Still(m, t.k)
  <2> SUFFICES ASSUME NEW d \in Conn PROVE StillAt(m[d], t.k[d])
    BY DEF Still
  <2>0. m[d].g \in Nat
    BY <1>3, ConnTypes
  <2>1. CASE d = c
    <3>1. y.g = m[c].g /\ y.front = m[c].front /\ y.off = m[c].off
      BY <1>6 DEF SameBooks
    <3>2. CASE MaybeFree(y) = y
      BY <2>0, <2>1, <3>1, <3>2, <1>12 DEF StillAt
    <3>3. CASE MaybeFree(y) = Vacant(y.g + 1)
      <4>1. t.k[d].g = m[d].g + 1
        BY <2>1, <3>1, <3>3, <1>12 DEF Vacant
      <4> QED BY <4>1, <2>0 DEF StillAt
    <3> QED BY <3>2, <3>3 DEF MaybeFree
  <2>2. CASE d # c /\ d = other
    BY <2>0, <2>2, <1>10 DEF SameBooks, StillAt
  <2>3. CASE d # c /\ d # other
    BY <2>0, <2>3, <1>11 DEF StillAt
  <2> QED BY <2>1, <2>2, <2>3
<1>18. Fewer(m, t.k)
  <2> SUFFICES ASSUME NEW d \in Conn, t.k[d].st = "live"
               PROVE  /\ m[d].st = "live" /\ t.k[d].connected = m[d].connected
                      /\ t.k[d].paused = m[d].paused /\ t.k[d].armed = m[d].armed
                      /\ t.k[d].pinned = m[d].pinned
    BY <1>s DEF Fewer
  <2>1. d # c
    BY <1>8, <1>12
  <2>2. CASE d = other
    BY <2>1, <2>2, <1>10 DEF SameBooks
  <2>3. CASE d # other
    BY <2>1, <2>3, <1>11
  <2> QED BY <2>2, <2>3
<1> QED BY <1>8, <1>12, <1>16, <1>17, <1>18

LEMMA CloseSound ==
  ASSUME NEW s, NEW h \in [Conn -> Seq(Nat)], Sound(s.k, s.r, h, TRUE), NEW c \in Conn,
         s.k[c].st = "live", NEW t \in Close(s, c)
  PROVE  /\ Sound(t.k, t.r, h, TRUE)
         /\ Fewer(s.k, t.k) /\ t.k[c].st # "live"
         /\ c \in Client /\ s.k[c].mate # None => t.k[s.k[c].mate].st # "live"
<1> DEFINE u == IF c \in Client THEN s.k[c].mate ELSE None
<1>1. PICK v \in CloseOne(s, c) : t \in IF u = None THEN {v} ELSE CloseOne(v, u)
  BY DEF Close
<1>2. /\ Sound(v.k, v.r, h, TRUE) /\ Fewer(s.k, v.k) /\ v.k[c].st # "live"
      /\ \A d \in Conn \ {c} : v.k[d].st = s.k[d].st
  BY CloseOneSound
<1>3. CASE u = None
  BY <1>1, <1>2, <1>3
<1>4. CASE u # None
  <2>1. c \in Client /\ u = s.k[c].mate /\ u # None
    BY <1>4
  <2>2. s.k[c].mate \in Conn /\ s.k \in [Conn -> Connections]
    BY <2>1 DEF Sound, Connections
  <2>3. u \in Upstream /\ s.k[u].mate = c
    BY <2>1 DEF Sound, Paired
  <2>4. u \in Conn \ {c}
    BY <2>1, <2>3, UringConstants DEF Conn
  <2>5. c # None
    BY UringConstants DEF Conn
  <2>6. s.k[u].st = "live"
    BY <2>3, <2>4, <2>5 DEF Sound, Paired
  <2>7. v.k[u].st = "live" /\ t \in CloseOne(v, u)
    BY <1>1, <1>2, <1>4, <2>4, <2>6
  <2> HIDE DEF u
  <2>8. /\ Sound(t.k, t.r, h, TRUE) /\ Fewer(v.k, t.k) /\ t.k[u].st # "live"
        /\ t.k[c].st = v.k[c].st
    <3>1. /\ u \in Conn /\ c \in Conn \ {u} /\ Sound(v.k, v.r, h, TRUE) /\ v.k[u].st = "live"
          /\ t \in CloseOne(v, u)
      BY <1>2, <2>4, <2>7
    <3>2. /\ Sound(t.k, t.r, h, TRUE) /\ Fewer(v.k, t.k) /\ t.k[u].st # "live"
          /\ \A d \in Conn \ {u} : t.k[d].st = v.k[d].st
      BY <3>1, CloseOneSound
    <3> QED BY <3>1, <3>2
  <2>9. Fewer(s.k, t.k)
    BY <1>2, <2>8, StillTwice DEF Fewer
  <2> QED BY <1>2, <2>1, <2>8, <2>9
<1> QED BY <1>3, <1>4

LEMMA DropSound ==
  ASSUME NEW s, NEW h \in [Conn -> Seq(Nat)], Sound(s.k, s.r, h, TRUE), NEW c \in Conn,
         s.k[c].st = "live", NEW t \in DropSqFull(s, c)
  PROVE  Sound(t.k, t.r, h, TRUE) /\ Fewer(s.k, t.k) /\ t.k[c].st # "live"
<1>1. CASE c \in Upstream /\ s.k[c].mate # None
  <2> DEFINE d == s.k[c].mate
  <2>1. t \in Close(s, d)
    BY <1>1 DEF DropSqFull
  <2>2. d \in Conn
    BY <1>1 DEF Sound, Connections
  <2>3. s.k[d].mate = c /\ (c \in Client <=> d \in Upstream)
    BY <1>1 DEF Sound, Paired
  <2>4. d \in Client /\ c # None
    BY <1>1, <2>2, <2>3, UringConstants DEF Conn
  <2>5. s.k[d].st = "live"
    BY <2>2, <2>3, <2>4 DEF Sound, Paired
  <2> HIDE DEF d
  <2> QED BY <2>1, <2>2, <2>3, <2>4, <2>5, CloseSound
<1>2. CASE ~(c \in Upstream /\ s.k[c].mate # None)
  <2>1. t \in Close(s, c)
    BY <1>2 DEF DropSqFull
  <2> QED BY <2>1, CloseSound
<1> QED BY <1>1, <1>2

-----------------------------------------------------------------------------
(* One connection changed, with the rings and its peer's bytes.            *)

LEMMA OneSound ==
  ASSUME NEW m, NEW q, NEW h, NEW h2, NEW run, Sound(m, q, h, run), NEW c \in Conn,
         NEW q2, RingSound(q2), \A d \in Conn \ {c} : Frame(q, q2, d) /\ h2[d] = h[d],
         NEW y \in Connections, ConnSound(y, c, q2, h2[c], run),
         y.mate = m[c].mate, y.mate # None => y.st = "live"
  PROVE  Sound([m EXCEPT ![c] = y], q2, h2, run)
<1> DEFINE m2 == [m EXCEPT ![c] = y]
<1>1. /\ m \in [Conn -> Connections] /\ Paired(m)
      /\ \A d \in Conn : ConnSound(m[d], d, q, h[d], run)
  BY DEF Sound
<1>2. /\ m2 \in [Conn -> Connections] /\ m2[c] = y
      /\ \A d \in Conn \ {c} : m2[d] = m[d]
  BY <1>1
<1> HIDE DEF m2
<1>3. ASSUME NEW d \in Conn PROVE ConnSound(m2[d], d, q2, h2[d], run)
  <2>1. CASE d = c
    BY <2>1, <1>2
  <2>2. CASE d # c
    <3>1. m2[d] = m[d] /\ h2[d] = h[d] /\ Frame(q, q2, d)
      BY <2>2, <1>2
    <3>2. ConnSound(m[d], d, q2, h[d], run)
      BY <1>1, <3>1, ConnFrame
    <3> QED BY <3>1, <3>2
  <2> QED BY <2>1, <2>2
<1>4. Paired(m2)
  <2>1. \A d \in Conn : m2[d].mate = m[d].mate /\ (m2[d].mate # None => m2[d].st = "live")
    BY <1>1, <1>2 DEF Paired
  <2>2. \A d \in Conn : m[d].mate \in Conn \cup {None}
    BY <1>1 DEF Connections
  <2> QED BY <1>1, <2>1, <2>2 DEF Paired
<1> QED BY <1>2, <1>3, <1>4 DEF Sound, m2

LEMMA AddedFrame ==
  ASSUME NEW q, NEW q2, NEW e, Added(q, q2, e), NEW d, d # e.c
  PROVE  Frame(q, q2, d)
<1>1. \A op : Out(q2, d, op) <=> Out(q, d, op)
  BY Zenon DEF Added
<1>2. \A g : OfGen(q, d, g) => OfGen(q2, d, g)
  BY Zenon DEF Added
<1>3. \A u, a : Sending(q, d, u, a) => Sending(q2, d, u, a)
  BY Zenon DEF Added
<1> QED BY <1>1, <1>2, <1>3 DEF Frame

LEMMA ArmFields ==
  ASSUME NEW x \in Connections, NEW y, y = Arm(x)
  PROVE  /\ y \in Connections /\ y.inflight = x.inflight + 1 /\ y.armed = TRUE /\ y.st = x.st
         /\ y.g = x.g /\ y.pinned = x.pinned /\ y.connected = x.connected /\ y.mate = x.mate
         /\ y.front = x.front /\ y.off = x.off /\ y.back = x.back /\ y.staged = x.staged
<1>1. x.inflight + 1 \in Nat
  BY DEF Connections
<1>2. y \in Connections
  BY <1>1 DEF Connections, Arm
<1> QED BY <1>2 DEF Connections, Arm

LEMMA PinFields ==
  ASSUME NEW x \in Connections, NEW y, y = Pin(x)
  PROVE  /\ y \in Connections /\ y.inflight = x.inflight + 1 /\ y.pinned = TRUE /\ y.st = x.st
         /\ y.g = x.g /\ y.armed = x.armed /\ y.connected = x.connected /\ y.mate = x.mate
         /\ y.paused = x.paused
         /\ y.front = x.front /\ y.off = x.off /\ y.back = x.back /\ y.staged = x.staged
<1>1. x.inflight + 1 \in Nat
  BY DEF Connections
<1>2. y \in Connections
  BY <1>1 DEF Connections, Pin
<1> QED BY <1>2 DEF Connections, Pin

LEMMA ArmSound ==
  ASSUME NEW s, NEW h \in [Conn -> Seq(Nat)], Sound(s.k, s.r, h, TRUE), NEW c \in Conn,
         s.k[c].st = "live", s.k[c].connected, ~s.k[c].armed, Reading(s.k, {c}),
         NEW t \in ArmRecv(s, c)
  PROVE  /\ Sound(t.k, t.r, h, TRUE) /\ Reading(t.k, {}) /\ Still(s.k, t.k)
         /\ t.k[c].st = "live" => t.k[c].connected /\ t.k[c].pinned = s.k[c].pinned
<1> DEFINE m == s.k
           x == m[c]
           y == Arm(x)
           e == Op("recv", x, c)
<1>1. /\ m \in [Conn -> Connections] /\ RingSound(s.r)
      /\ ConnSound(x, c, s.r, h[c], TRUE)
  BY DEF Sound
<1>2. x \in Connections
  BY <1>1
<1>3. e \in Operations /\ e.c = c /\ e.op = "recv" /\ e.g = x.g
  BY <1>2 DEF Op, Operations, Kinds, Connections
<1>4. PICK p \in Puts(s.r, e) :
        t \in IF p.ok THEN {[k |-> [m EXCEPT ![c] = y], r |-> p.r]}
              ELSE DropSqFull(s, c)
  BY Zenon DEF ArmRecv
<1>5. ~Out(s.r, c, "recv")
  BY <1>1 DEF ConnSound, Booked
<1>6. p.ok \in BOOLEAN /\ (p.ok => RingSound(p.r) /\ Added(s.r, p.r, e))
  <2> HIDE DEF e
  <2> QED BY <1>1, <1>3, <1>5, PutOp
<1>7. CASE ~p.ok
  <2>1. t \in DropSqFull(s, c)
    BY <1>4, <1>7
  <2>2. Sound(t.k, t.r, h, TRUE) /\ Fewer(s.k, t.k) /\ t.k[c].st # "live"
    BY <2>1, DropSound
  <2>3. Reading(t.k, {})
    BY <2>2, FewerRead
  <2> QED BY <2>2, <2>3 DEF Fewer
<1>8. CASE p.ok
  <2>1. t.k = [m EXCEPT ![c] = y] /\ t.r = p.r
    <3> HIDE DEF m, y
    <3> QED BY <1>4, <1>8
  <2>2. t.k = [m EXCEPT ![c] = y]
    BY <2>1
  <2>3. /\ y \in Connections /\ y.inflight = x.inflight + 1 /\ y.armed = TRUE /\ y.st = x.st
        /\ y.g = x.g /\ y.pinned = x.pinned /\ y.connected = x.connected /\ y.mate = x.mate
        /\ y.front = x.front /\ y.off = x.off /\ y.back = x.back /\ y.staged = x.staged
    <3> HIDE DEF x
    <3> QED BY <1>2, ArmFields
  <2> HIDE DEF y, e
  <2>4. /\ Out(t.r, c, "recv")
        /\ Out(t.r, c, "send") <=> Out(s.r, c, "send")
        /\ Out(t.r, c, "connect") <=> Out(s.r, c, "connect")
    BY <1>3, <1>6, <1>8, <2>1 DEF Added
  <2>5. OfGen(t.r, c, x.g)
    BY <1>1, <1>3, <1>6, <1>8, <2>1, Zenon DEF Added, ConnSound, Booked
  <2>6. Sending(t.r, c, Unsent(x), Ahead(x, h[c]))
    <3>1. Sending(s.r, c, Unsent(x), Ahead(x, h[c])) /\ e.op # "send"
      BY <1>1, <1>3 DEF ConnSound, InStep
    <3> QED BY <3>1, <1>6, <1>8, <2>1, Zenon DEF Added
  <2>7. y.inflight = B(y.armed) + B(y.pinned) + B(Out(t.r, c, "connect"))
    <3>1. x.inflight = B(x.armed) + B(x.pinned) + B(Out(s.r, c, "connect"))
      BY <1>1 DEF ConnSound, Booked
    <3>2. B(x.armed) = 0 /\ B(y.armed) = 1 /\ B(y.pinned) = B(x.pinned)
      BY <2>3 DEF B
    <3>3. B(Out(t.r, c, "connect")) = B(Out(s.r, c, "connect"))
      BY <2>4 DEF B
    <3>4. B(x.pinned) \in Nat /\ B(Out(s.r, c, "connect")) \in Nat
      BY DEF B
    <3> QED BY <3>1, <3>2, <3>3, <3>4, <2>3
  <2>8. Booked(y, c, t.r)
    <3>1. y.armed <=> Out(t.r, c, "recv")
      BY <2>3, <2>4
    <3>2. y.pinned <=> Out(t.r, c, "send")
      BY <1>1, <2>3, <2>4 DEF ConnSound, Booked
    <3>3. ~Out(t.r, c, "connect")
      BY <1>1, <2>4 DEF ConnSound, Booked
    <3>4. OfGen(t.r, c, y.g) /\ y.connected /\ y.st # "none"
      BY <2>3, <2>5
    <3> QED BY <3>1, <3>2, <3>3, <3>4, <2>7 DEF Booked
  <2>9. InStep(y, c, t.r, h[c], TRUE)
    <3>1. Unsent(y) = Unsent(x) /\ Ahead(y, h[c]) = Ahead(x, h[c])
      BY <2>3 DEF Unsent, Ahead
    <3>2. Numbered(y.staged, y.front, y.off, y.back, y.pinned)
      BY <1>1, <2>3 DEF ConnSound, InStep
    <3>3. ~y.pinned => Ahead(y, h[c]) = 0
      BY <1>1, <2>3, <3>1 DEF ConnSound, InStep
    <3> QED BY <1>1, <2>6, <3>1, <3>2, <3>3 DEF ConnSound, InStep
  <2>10. \A d \in Conn \ {c} : Frame(s.r, t.r, d)
    BY <1>3, <1>6, <1>8, <2>1, AddedFrame
  <2>11. Sound(t.k, t.r, h, TRUE)
    <3>1. RingSound(t.r) /\ ConnSound(y, c, t.r, h[c], TRUE)
      BY <1>6, <1>8, <2>1, <2>8, <2>9 DEF ConnSound
    <3>2. y.mate = m[c].mate /\ y.st = "live" /\ y \in Connections
      BY <2>3
    <3>3. \A d \in Conn \ {c} : Frame(s.r, t.r, d) /\ h[d] = h[d]
      BY <2>10
    <3>4. Sound([m EXCEPT ![c] = y], t.r, h, TRUE)
      BY <3>1, <3>2, <3>3, OneSound
    <3> QED BY <3>4, <2>2
  <2>12. t.k[c] = y /\ \A d \in Conn \ {c} : t.k[d] = m[d]
    BY <2>2, <1>1
  <2>13. Reading(t.k, {})
    BY <2>3, <2>12 DEF Reading
  <2>14. Still(m, t.k)
    <3>1. StillAt(m[c], t.k[c])
      BY <1>2, <2>3, <2>12, ConnTypes DEF StillAt
    <3>2. Alone(m, t.k, c)
      BY <2>12 DEF Alone
    <3> HIDE DEF m
    <3> QED BY <1>1, <3>1, <3>2, StillOne
  <2> QED BY <2>3, <2>11, <2>12, <2>13, <2>14
<1> QED BY <1>6, <1>7, <1>8

LEMMA SendSound ==
  ASSUME NEW s, NEW h \in [Conn -> Seq(Nat)], Sound(s.k, s.r, h, TRUE), NEW c \in Conn,
         s.k[c].st = "live", s.k[c].connected, ~s.k[c].pinned, Reading(s.k, {}),
         NEW t \in SubmitSend(s, c)
  PROVE  /\ Sound(t.k, t.r, h, TRUE) /\ Reading(t.k, {}) /\ Still(s.k, t.k)
<1> DEFINE m == s.k
           x == m[c]
           y == Pin(x)
           e == [Op("send", x, c) EXCEPT !.n = Unsent(x)]
<1>1. /\ m \in [Conn -> Connections] /\ RingSound(s.r)
      /\ ConnSound(x, c, s.r, h[c], TRUE)
  BY DEF Sound
<1>2. x \in Connections
  BY <1>1
<1>3. e \in Operations /\ e.c = c /\ e.op = "send" /\ e.g = x.g /\ e.n = Unsent(x)
  <2>1. x.front \in Seq(Nat) /\ x.off \in Nat /\ x.g \in Nat
    BY <1>2 DEF Connections
  <2>2. x.off <= Len(x.front)
    BY <1>1 DEF ConnSound, InStep, Numbered
  <2>3. Len(x.front) - x.off \in Nat
    <3> HIDE DEF x
    <3>1. Len(x.front) \in Nat
      BY <2>1
    <3> QED BY <2>1, <2>2, <3>1
  <2> QED BY <2>1, <2>3 DEF Op, Operations, Kinds, Unsent
<1>4. PICK p \in Puts(s.r, e) :
        t \in IF p.ok THEN {[k |-> [m EXCEPT ![c] = y], r |-> p.r]}
              ELSE DropSqFull(s, c)
  BY Zenon DEF SubmitSend
<1>5. ~Out(s.r, c, "send")
  BY <1>1 DEF ConnSound, Booked
<1>6. p.ok \in BOOLEAN /\ (p.ok => RingSound(p.r) /\ Added(s.r, p.r, e))
  <2> HIDE DEF e
  <2> QED BY <1>1, <1>3, <1>5, PutOp
<1>7. CASE ~p.ok
  <2>1. t \in DropSqFull(s, c)
    BY <1>4, <1>7
  <2>2. Reading(s.k, {c})
    BY DEF Reading
  <2>3. Sound(t.k, t.r, h, TRUE) /\ Fewer(s.k, t.k) /\ t.k[c].st # "live"
    BY <2>1, DropSound
  <2>4. Reading(t.k, {})
    BY <2>2, <2>3, FewerRead
  <2> QED BY <2>3, <2>4 DEF Fewer
<1>8. CASE p.ok
  <2>1. t.k = [m EXCEPT ![c] = y] /\ t.r = p.r
    <3> HIDE DEF m, y
    <3> QED BY <1>4, <1>8
  <2>2. t.k = [m EXCEPT ![c] = y]
    BY <2>1
  <2>3. /\ y \in Connections /\ y.inflight = x.inflight + 1 /\ y.pinned = TRUE /\ y.st = x.st
        /\ y.g = x.g /\ y.armed = x.armed /\ y.connected = x.connected /\ y.mate = x.mate
        /\ y.paused = x.paused
        /\ y.front = x.front /\ y.off = x.off /\ y.back = x.back /\ y.staged = x.staged
    <3> HIDE DEF x
    <3> QED BY <1>2, PinFields
  <2> HIDE DEF y, e
  <2>4. /\ Out(t.r, c, "send")
        /\ Out(t.r, c, "recv") <=> Out(s.r, c, "recv")
        /\ Out(t.r, c, "connect") <=> Out(s.r, c, "connect")
    BY <1>3, <1>6, <1>8, <2>1 DEF Added
  <2>5. OfGen(t.r, c, x.g)
    BY <1>1, <1>3, <1>6, <1>8, <2>1, Zenon DEF Added, ConnSound, Booked
  <2>6. Sending(t.r, c, Unsent(x), Ahead(x, h[c]))
    <3>1. Sending(s.r, c, Unsent(x), Ahead(x, h[c])) /\ e.n = Unsent(x) /\ Ahead(x, h[c]) = 0
      BY <1>1, <1>3 DEF ConnSound, InStep
    <3> QED BY <3>1, <1>6, <1>8, <2>1, Zenon DEF Added
  <2>7. y.inflight = B(y.armed) + B(y.pinned) + B(Out(t.r, c, "connect"))
    <3>1. x.inflight = B(x.armed) + B(x.pinned) + B(Out(s.r, c, "connect"))
      BY <1>1 DEF ConnSound, Booked
    <3>2. B(x.pinned) = 0 /\ B(y.pinned) = 1 /\ B(y.armed) = B(x.armed)
      BY <2>3 DEF B
    <3>3. B(Out(t.r, c, "connect")) = B(Out(s.r, c, "connect"))
      BY <2>4 DEF B
    <3>4. B(x.armed) \in Nat /\ B(Out(s.r, c, "connect")) \in Nat
      BY DEF B
    <3> QED BY <3>1, <3>2, <3>3, <3>4, <2>3
  <2>8. Booked(y, c, t.r)
    <3>1. y.pinned <=> Out(t.r, c, "send")
      BY <2>3, <2>4
    <3>2. y.armed <=> Out(t.r, c, "recv")
      BY <1>1, <2>3, <2>4 DEF ConnSound, Booked
    <3>3. ~Out(t.r, c, "connect")
      BY <1>1, <2>4 DEF ConnSound, Booked
    <3>4. OfGen(t.r, c, y.g) /\ y.connected /\ y.st # "none"
      BY <2>3, <2>5
    <3> QED BY <3>1, <3>2, <3>3, <3>4, <2>7 DEF Booked
  <2>9. InStep(y, c, t.r, h[c], TRUE)
    <3>1. Unsent(y) = Unsent(x) /\ Ahead(y, h[c]) = Ahead(x, h[c])
      BY <2>3 DEF Unsent, Ahead
    <3>2. Numbered(y.staged, y.front, y.off, y.back, y.pinned)
      BY <1>1, <2>3 DEF ConnSound, InStep, Numbered
    <3>3. y.pinned
      BY <2>3
    <3> QED BY <1>1, <2>6, <3>1, <3>2, <3>3 DEF ConnSound, InStep
  <2>10. \A d \in Conn \ {c} : Frame(s.r, t.r, d)
    BY <1>3, <1>6, <1>8, <2>1, AddedFrame
  <2>11. Sound(t.k, t.r, h, TRUE)
    <3>1. RingSound(t.r) /\ ConnSound(y, c, t.r, h[c], TRUE)
      BY <1>6, <1>8, <2>1, <2>8, <2>9 DEF ConnSound
    <3>2. y.mate = m[c].mate /\ y.st = "live" /\ y \in Connections
      BY <2>3
    <3>3. \A d \in Conn \ {c} : Frame(s.r, t.r, d) /\ h[d] = h[d]
      BY <2>10
    <3>4. Sound([m EXCEPT ![c] = y], t.r, h, TRUE)
      BY <3>1, <3>2, <3>3, OneSound
    <3> QED BY <3>4, <2>2
  <2>12. t.k[c] = y /\ \A d \in Conn \ {c} : t.k[d] = m[d]
    BY <2>2, <1>1
  <2>13. Reading(t.k, {})
    BY <2>3, <2>12 DEF Reading
  <2>14. Still(m, t.k)
    <3>1. StillAt(m[c], t.k[c])
      BY <1>2, <2>3, <2>12, ConnTypes DEF StillAt
    <3>2. Alone(m, t.k, c)
      BY <2>12 DEF Alone
    <3> HIDE DEF m
    <3> QED BY <1>1, <3>1, <3>2, StillOne
  <2> QED BY <2>3, <2>11, <2>12, <2>13, <2>14
<1> QED BY <1>6, <1>7, <1>8

-----------------------------------------------------------------------------
(* A completion read.                                                      *)

\* What a completion d read from q leaves of the rings.
Popping(q, d, q2) ==
  /\ ~Continues(d) => Out(q, d.c, d.op)
  /\ Continues(d) => Out(q, d.c, "recv")
  /\ \A c, op : Out(q2, c, op) <=> Out(q, c, op) /\ ~(~Continues(d) /\ c = d.c /\ op = d.op)
  /\ \A c, g : OfGen(q, c, g) => OfGen(q2, c, g) /\ (c = d.c => g = d.g)
  /\ \A c, u, a : Sending(q, c, u, a) =>
       Sending(q2, c, u, a) /\ (c = d.c /\ d.op = "send" => d.n = a /\ a <= u)

LEMMA Popped ==
  ASSUME NEW q, RingSound(q), q.cq # <<>>, NEW d, d = Head(q.cq),
         NEW q2, q2 = [q EXCEPT !.cq = Tail(@)]
  PROVE  RingSound(q2) /\ d \in Completions /\ Popping(q, d, q2)
<1> DEFINE W   == Work(q)
           cq  == q.cq
           cq2 == Tail(cq)
<1>1. q \in Rings /\ W \in SUBSET Operations /\ cq \in Seq(Completions) /\ Orderly(W, cq) /\ cq # <<>>
  BY RingParts DEF RingSound
<1>2. /\ q2.sq = q.sq /\ q2.ker = q.ker /\ q2.cq = cq2 /\ Taken(q2) = Taken(q) /\ Work(q2) = W
  BY <1>1 DEF Rings, Taken, Work
<1>3. cq2 \in Seq(Completions)
  BY <1>1
<1>4. q2 \in Rings
  BY <1>1, <1>3 DEF Rings
<1>x. d = Head(cq)
  OBVIOUS
<1>y. /\ \A c, op : Out(q2, c, op) <=> OutIn(W, cq2, c, op)
      /\ \A c, op : Out(q, c, op) <=> OutIn(W, cq, c, op)
      /\ \A c, g : OfGen(q2, c, g) <=> OfGenIn(W, cq2, c, g)
      /\ \A c, g : OfGen(q, c, g) <=> OfGenIn(W, cq, c, g)
      /\ \A c, u, a : Sending(q2, c, u, a) <=> SendingIn(W, cq2, c, u, a)
      /\ \A c, u, a : Sending(q, c, u, a) <=> SendingIn(W, cq, c, u, a)
  BY <1>2 DEF Out, OfGen, Sending
<1> HIDE DEF W, cq
<1>5. /\ Len(cq) \in Nat \ {0} /\ DOMAIN cq = 1..Len(cq) /\ cq[1] = d /\ 1 \in DOMAIN cq
      /\ d \in Completions
  BY <1>1, <1>x
<1>6. DOMAIN cq2 = 1..(Len(cq) - 1) /\ \A i \in 1..(Len(cq) - 1) : cq2[i] = cq[i + 1]
  BY <1>1, <1>5
<1> HIDE DEF cq2
<1>7. \A i \in DOMAIN cq2 : i \in Nat /\ i + 1 \in DOMAIN cq /\ i + 1 # 1 /\ cq2[i] = cq[i + 1]
  BY <1>5, <1>6
<1>8. \A j \in DOMAIN cq : j = 1 \/ (j - 1 \in DOMAIN cq2 /\ cq2[j - 1] = cq[j] /\ j \in Nat)
  <2> TAKE j \in DOMAIN cq
  <2>1. j \in Nat /\ (j = 1 \/ j - 1 \in 1..(Len(cq) - 1))
    BY <1>5
  <2>2. CASE j - 1 \in 1..(Len(cq) - 1)
    <3>1. cq2[j - 1] = cq[(j - 1) + 1] /\ (j - 1) + 1 = j
      BY <2>1, <2>2, <1>6
    <3> QED BY <3>1, <2>1, <2>2, <1>6
  <2> QED BY <2>1, <2>2
<1>9. Orderly(W, cq2)
  <2>1. \A o, p \in W : o.c = p.c /\ o.op = p.op => o = p
    BY <1>1 DEF Orderly
  <2>2. \A i \in DOMAIN cq2 : ~Continues(cq2[i]) =>
          \A o \in W : ~(o.c = cq2[i].c /\ o.op = cq2[i].op)
    BY <1>1, <1>7 DEF Orderly
  <2>3. ASSUME NEW i \in DOMAIN cq2, NEW j \in DOMAIN cq2, ~Continues(cq2[i]), ~Continues(cq2[j]),
               cq2[i].c = cq2[j].c, cq2[i].op = cq2[j].op
        PROVE  i = j
    <3>1. i + 1 = j + 1
      BY <2>3, <1>1, <1>7 DEF Orderly
    <3> QED BY <3>1, <1>7
  <2>4. ASSUME NEW i \in DOMAIN cq2, Continues(cq2[i])
        PROVE  \/ \E o \in W : o.c = cq2[i].c /\ o.op = "recv"
               \/ \E j \in DOMAIN cq2 : j > i /\ ~Continues(cq2[j]) /\ cq2[j].c = cq2[i].c /\ cq2[j].op = "recv"
    <3>1. i + 1 \in DOMAIN cq /\ cq[i + 1] = cq2[i] /\ Continues(cq[i + 1]) /\ i \in Nat
      BY <2>4, <1>7
    <3>2. CASE \E j \in DOMAIN cq : j > i + 1 /\ ~Continues(cq[j]) /\ cq[j].c = cq[i + 1].c /\ cq[j].op = "recv"
      <4>1. PICK j \in DOMAIN cq : j > i + 1 /\ ~Continues(cq[j]) /\ cq[j].c = cq[i + 1].c /\ cq[j].op = "recv"
        BY <3>2
      <4>2. j # 1
        BY <4>1, <3>1
      <4>3. j - 1 \in DOMAIN cq2 /\ cq2[j - 1] = cq[j] /\ j \in Nat
        BY <4>2, <1>8
      <4>4. j - 1 > i
        BY <4>1, <4>3, <3>1
      <4> QED BY <4>1, <4>3, <4>4, <3>1
    <3>3. CASE \E o \in W : o.c = cq[i + 1].c /\ o.op = "recv"
      BY <3>1, <3>3
    <3> QED BY <3>1, <3>2, <3>3, <1>1 DEF Orderly
  <2> QED BY <2>1, <2>2, <2>3, <2>4 DEF Orderly
<1>10. RingSound(q2)
  BY <1>2, <1>4, <1>9 DEF RingSound
<1>11. ~Continues(d) => OutIn(W, cq, d.c, d.op)
  BY <1>5 DEF OutIn
<1>12. Continues(d) => OutIn(W, cq, d.c, "recv")
  BY <1>1, <1>5 DEF Orderly, OutIn
<1>13. ASSUME NEW c, NEW op
       PROVE  OutIn(W, cq2, c, op) <=> OutIn(W, cq, c, op) /\ ~(~Continues(d) /\ c = d.c /\ op = d.op)
  <2>1. ASSUME OutIn(W, cq2, c, op) PROVE OutIn(W, cq, c, op)
    BY <2>1, <1>7 DEF OutIn
  <2>2. ASSUME OutIn(W, cq2, c, op), ~Continues(d), c = d.c, op = d.op PROVE FALSE
    <3>1. CASE \E o \in W : o.c = c /\ o.op = op
      BY <3>1, <2>2, <1>1, <1>5 DEF Orderly
    <3>2. CASE \E i \in DOMAIN cq2 : ~Continues(cq2[i]) /\ cq2[i].c = c /\ cq2[i].op = op
      <4>1. PICK i \in DOMAIN cq2 : ~Continues(cq2[i]) /\ cq2[i].c = c /\ cq2[i].op = op
        BY <3>2
      <4>2. i + 1 \in DOMAIN cq /\ i + 1 # 1 /\ cq2[i] = cq[i + 1]
        BY <1>7
      <4> QED BY <4>1, <4>2, <2>2, <1>1, <1>5 DEF Orderly
    <3> QED BY <2>2, <3>1, <3>2 DEF OutIn
  <2>3. ASSUME OutIn(W, cq, c, op), ~(~Continues(d) /\ c = d.c /\ op = d.op)
        PROVE  OutIn(W, cq2, c, op)
    BY <2>3, <1>5, <1>8 DEF OutIn
  <2> QED BY <2>1, <2>2, <2>3
<1>14. ASSUME NEW c, NEW g, OfGenIn(W, cq, c, g)
       PROVE  OfGenIn(W, cq2, c, g) /\ (c = d.c => g = d.g)
  BY <1>14, <1>5, <1>7 DEF OfGenIn
<1>15. ASSUME NEW c, NEW u, NEW a, SendingIn(W, cq, c, u, a)
       PROVE  SendingIn(W, cq2, c, u, a) /\ (c = d.c /\ d.op = "send" => d.n = a /\ a <= u)
  BY <1>15, <1>5, <1>7 DEF SendingIn
<1>16. Popping(q, d, q2)
  BY <1>11, <1>12, <1>13, <1>14, <1>15, <1>y DEF Popping
<1> QED BY <1>5, <1>10, <1>16

LEMMA FoldIn ==
  ASSUME NEW staged \in Nat, NEW front \in Seq(Nat), NEW back \in Seq(Nat), NEW off \in Nat,
         Numbered(staged, front, off, back, TRUE)
  PROVE  LET all == front \o back IN
         /\ all \in Seq(Nat) /\ Len(all) = Len(front) + Len(back)
         /\ \A i \in 1..Len(all) : all[i] = staged - Len(all) + i
<1> DEFINE all == front \o back
<1>1. /\ all \in Seq(Nat) /\ Len(all) = Len(front) + Len(back)
      /\ Len(front) \in Nat /\ Len(back) \in Nat
      /\ \A i \in 1..Len(front) : all[i] = front[i]
      /\ \A i \in (Len(front) + 1)..(Len(front) + Len(back)) : all[i] = back[i - Len(front)]
  OBVIOUS
<1> HIDE DEF all
<1>2. ASSUME NEW i \in 1..Len(all) PROVE all[i] = staged - Len(all) + i
  <2>1. CASE i \in 1..Len(front)
    BY <2>1, <1>1 DEF Numbered
  <2>2. CASE i \in (Len(front) + 1)..(Len(front) + Len(back))
    <3>1. i - Len(front) \in 1..Len(back) /\ all[i] = back[i - Len(front)]
      BY <2>2, <1>1
    <3>2. back[i - Len(front)] = staged - Len(back) + (i - Len(front))
      BY <3>1 DEF Numbered
    <3> QED BY <3>1, <3>2, <1>1
  <2> QED BY <2>1, <2>2, <1>1
<1> QED BY <1>1, <1>2 DEF all

SentTo(staged, f, o, b, h, n, a) ==
  Numbered(staged, f, o, b, FALSE) /\ AheadOf(staged, f, o, b, h) = a - n /\ a \in Int

LEMMA SentNone ==
  ASSUME NEW staged \in Nat, NEW front \in Seq(Nat), NEW back \in Seq(Nat), NEW off \in Nat,
         NEW n \in Nat, off + n <= Len(front), NEW h \in Seq(Nat), NEW a,
         Numbered(staged, front, off, back, TRUE), a = AheadOf(staged, front, off, back, h), back = <<>>
  PROVE  SentTo(staged, front, off + n, back, h, n, a)
<1>1. Len(<<>>) = 0 /\ Len(front) \in Nat /\ Len(h) \in Nat
  OBVIOUS
<1>2. Numbered(staged, front, off + n, back, FALSE)
  BY <1>1 DEF Numbered
<1>3. AheadOf(staged, front, off + n, back, h) = a - n /\ a \in Int
  BY <1>1 DEF AheadOf
<1> QED BY <1>2, <1>3 DEF SentTo

LEMMA SentFront ==
  ASSUME NEW staged \in Nat, NEW front \in Seq(Nat), NEW back \in Seq(Nat), NEW off \in Nat,
         NEW n \in Nat, off + n <= Len(front), NEW h \in Seq(Nat), NEW a,
         Numbered(staged, front, off, back, TRUE), a = AheadOf(staged, front, off, back, h), off + n = Len(front)
  PROVE  SentTo(staged, back, 0, <<>>, h, n, a)
<1>1. Len(<<>>) = 0 /\ Len(front) \in Nat /\ Len(back) \in Nat /\ Len(h) \in Nat
  OBVIOUS
<1>2. /\ 0 <= Len(back) /\ Len(back) + Len(<<>>) <= staged
      /\ \A i \in 1..Len(back) : back[i] = staged - Len(back) + i
  BY <1>1 DEF Numbered
<1>3. /\ \A i \in 1..Len(back) : back[i] = staged - Len(back) - Len(<<>>) + i
      /\ \A i \in 1..Len(<<>>) : <<>>[i] = staged - Len(<<>>) + i
  BY <1>1, <1>2
<1>4. Numbered(staged, back, 0, <<>>, FALSE)
  BY <1>2, <1>3 DEF Numbered
<1>5. AheadOf(staged, back, 0, <<>>, h) = a - n /\ a \in Int
  <2>1. n = Len(front) - off
    BY <1>1
  <2>2. AheadOf(staged, back, 0, <<>>, h) = Len(h) + Len(back) - staged
    BY <1>1 DEF AheadOf
  <2>3. a = Len(h) + Len(front) + Len(back) - staged - off
    BY DEF AheadOf
  <2> QED BY <1>1, <2>1, <2>2, <2>3
<1> QED BY <1>4, <1>5 DEF SentTo

LEMMA SentPart ==
  ASSUME NEW staged \in Nat, NEW front \in Seq(Nat), NEW back \in Seq(Nat), NEW off \in Nat,
         NEW n \in Nat, off + n <= Len(front), NEW h \in Seq(Nat), NEW a,
         Numbered(staged, front, off, back, TRUE), a = AheadOf(staged, front, off, back, h)
  PROVE  SentTo(staged, front \o back, off + n, <<>>, h, n, a)
<1>1. Len(<<>>) = 0 /\ Len(front) \in Nat /\ Len(back) \in Nat /\ Len(h) \in Nat
  OBVIOUS
<1> DEFINE all == front \o back
<1>2. /\ all \in Seq(Nat) /\ Len(all) = Len(front) + Len(back)
      /\ \A i \in 1..Len(all) : all[i] = staged - Len(all) + i
  BY FoldIn
<1> HIDE DEF all
<1>3. off + n <= Len(all) /\ Len(all) + Len(<<>>) <= staged
  BY <1>1, <1>2 DEF Numbered
<1>4. /\ \A i \in 1..Len(all) : all[i] = staged - Len(all) - Len(<<>>) + i
      /\ \A i \in 1..Len(<<>>) : <<>>[i] = staged - Len(<<>>) + i
  BY <1>1, <1>2
<1>5. Numbered(staged, all, off + n, <<>>, FALSE)
  BY <1>3, <1>4 DEF Numbered
<1>6. AheadOf(staged, all, off + n, <<>>, h) = a - n /\ a \in Int
  BY <1>1, <1>2 DEF AheadOf
<1> QED BY <1>5, <1>6 DEF all, SentTo

\* Everything but the buffer.
Else(x, y) ==
  /\ y.st = x.st /\ y.g = x.g /\ y.inflight = x.inflight /\ y.armed = x.armed
  /\ y.paused = x.paused /\ y.connected = x.connected /\ y.mate = x.mate /\ y.staged = x.staged

\* The buffer and the pin set, nothing else.
Buffer(x, f, o, b) == [x EXCEPT !.front = f, !.off = o, !.back = b, !.pinned = FALSE]

Buffered(y, f, o, b) == y.front = f /\ y.off = o /\ y.back = b /\ y.pinned = FALSE

LEMMA BufferFields ==
  ASSUME NEW x \in Connections, NEW f \in Seq(Nat), NEW o \in Nat, NEW b \in Seq(Nat),
         NEW y, y = Buffer(x, f, o, b)
  PROVE  y \in Connections /\ Else(x, y) /\ Buffered(y, f, o, b)
<1>1. y \in Connections
  BY DEF Connections, Buffer
<1>2. Else(x, y)
  BY DEF Connections, Else, Buffer
<1>3. Buffered(y, f, o, b)
  BY DEF Connections, Buffer, Buffered
<1> QED BY <1>1, <1>2, <1>3

LEMMA SentFields ==
  ASSUME NEW x \in Connections, NEW n \in Nat, x.off + n <= Len(x.front), NEW h \in Seq(Nat),
         Numbered(x.staged, x.front, x.off, x.back, TRUE), NEW y, y = SentBytes(x, n)
  PROVE  /\ y \in Connections /\ Else(x, y) /\ y.pinned = FALSE
         /\ Numbered(y.staged, y.front, y.off, y.back, FALSE)
         /\ Ahead(y, h) = Ahead(x, h) - n /\ Ahead(x, h) \in Int
<1> DEFINE front == x.front
           back  == x.back
           off   == x.off
           staged == x.staged
           a == Ahead(x, h)
<1>1. front \in Seq(Nat) /\ back \in Seq(Nat) /\ off \in Nat /\ staged \in Nat
  BY ConnTypes
<1>h. /\ Numbered(staged, front, off, back, TRUE) /\ off + n <= Len(front)
      /\ a = AheadOf(staged, front, off, back, h)
  BY DEF Ahead
<1>2. y = IF back = <<>> THEN [x EXCEPT !.off = off + n, !.pinned = FALSE]
          ELSE IF off + n = Len(front) THEN Buffer(x, back, 0, <<>>)
          ELSE Buffer(x, front \o back, off + n, <<>>)
  BY DEF SentBytes, Buffer
<1>3. [x EXCEPT !.off = off + n, !.pinned = FALSE] = Buffer(x, front, off + n, back)
  BY DEF Connections, Buffer
<1> HIDE DEF front, back, off, staged, a
<1>4. off + n \in Nat /\ 0 \in Nat /\ <<>> \in Seq(Nat) /\ front \o back \in Seq(Nat)
  BY <1>1
<1>5. ASSUME NEW f \in Seq(Nat), NEW o \in Nat, NEW b \in Seq(Nat), y = Buffer(x, f, o, b),
             SentTo(staged, f, o, b, h, n, a)
      PROVE  /\ y \in Connections /\ Else(x, y) /\ y.pinned = FALSE
             /\ Numbered(y.staged, y.front, y.off, y.back, FALSE) /\ Ahead(y, h) = a - n /\ a \in Int
  <2>1. y \in Connections /\ Else(x, y) /\ Buffered(y, f, o, b)
    BY <1>5, BufferFields
  <2>2. y.staged = staged
    BY <2>1 DEF Else, staged
  <2>3. y.front = f /\ y.off = o /\ y.back = b /\ y.pinned = FALSE
    BY <2>1 DEF Buffered
  <2> QED BY <1>5, <2>1, <2>2, <2>3 DEF Ahead, SentTo
<1>6. CASE back = <<>>
  <2>1. SentTo(staged, front, off + n, back, h, n, a)
    BY <1>6, <1>1, <1>h, SentNone
  <2>2. y = Buffer(x, front, off + n, back)
    BY <1>6, <1>2, <1>3
  <2> QED BY <2>1, <2>2, <1>1, <1>4, <1>5 DEF a
<1>7. CASE back # <<>> /\ off + n = Len(front)
  <2>1. SentTo(staged, back, 0, <<>>, h, n, a)
    BY <1>7, <1>1, <1>h, SentFront
  <2>2. y = Buffer(x, back, 0, <<>>)
    BY <1>7, <1>2
  <2> QED BY <2>1, <2>2, <1>1, <1>4, <1>5 DEF a
<1>8. CASE back # <<>> /\ off + n # Len(front)
  <2>1. SentTo(staged, front \o back, off + n, <<>>, h, n, a)
    BY <1>8, <1>1, <1>h, SentPart
  <2>2. y = Buffer(x, front \o back, off + n, <<>>)
    BY <1>8, <1>2
  <2> QED BY <2>1, <2>2, <1>1, <1>4, <1>5 DEF a
<1> QED BY <1>6, <1>7, <1>8

\* What Released changes, and what it leaves.
Kept(x, z) ==
  /\ z.st = x.st /\ z.g = x.g /\ z.paused = x.paused /\ z.connected = x.connected
  /\ z.mate = x.mate /\ z.front = x.front /\ z.off = x.off /\ z.back = x.back
  /\ z.pinned = x.pinned /\ z.staged = x.staged

LEMMA ReleasedFields ==
  ASSUME NEW x \in Connections, NEW d, ~Continues(d) => x.inflight >= 1, NEW z, z = Released(x, d)
  PROVE  /\ z \in Connections /\ Kept(x, z)
         /\ Continues(d) => z.inflight = x.inflight /\ z.armed = x.armed
         /\ ~Continues(d) => z.inflight = x.inflight - 1
         /\ ~Continues(d) /\ d.op = "recv" => z.armed = FALSE
         /\ ~Continues(d) /\ d.op # "recv" => z.armed = x.armed
<1>1. CASE Continues(d)
  <2>1. z = [x EXCEPT !.inflight = x.inflight, !.armed = x.armed]
    BY <1>1 DEF Released
  <2>2. z \in Connections /\ z.inflight = x.inflight /\ z.armed = x.armed
    BY <2>1 DEF Connections
  <2>3. Kept(x, z)
    BY <2>1 DEF Connections, Kept
  <2> QED BY <1>1, <2>2, <2>3
<1>2. CASE ~Continues(d)
  <2> DEFINE n == x.inflight - 1
             b == IF d.op = "recv" THEN FALSE ELSE x.armed
  <2>1. n \in Nat /\ b \in BOOLEAN
    <3>1. x.inflight \in Nat /\ x.armed \in BOOLEAN /\ x.inflight >= 1
      BY <1>2, ConnTypes
    <3>2. n \in Nat
      BY <3>1
    <3>3. b \in BOOLEAN
      BY <3>1, Zenon
    <3> QED BY <3>2, <3>3
  <2>2. z = [x EXCEPT !.inflight = n, !.armed = b]
    BY <1>2 DEF Released
  <2> HIDE DEF n, b
  <2>3. z \in Connections /\ z.inflight = n /\ z.armed = b
    BY <2>1, <2>2 DEF Connections
  <2>4. Kept(x, z)
    BY <2>2 DEF Connections, Kept
  <2> QED BY <1>2, <2>3, <2>4 DEF n, b
<1> QED BY <1>1, <1>2

LEMMA OutCounted ==
  ASSUME NEW x \in Connections, NEW c, NEW q, Booked(x, c, q), NEW op \in Kinds, Out(q, c, op)
  PROVE  x.inflight >= 1
<1>1. x.inflight = B(x.armed) + B(x.pinned) + B(Out(q, c, "connect"))
  BY DEF Booked
<1>2. x.armed \/ x.pinned \/ Out(q, c, "connect")
  BY DEF Booked, Kinds
<1>3. B(x.armed) \in {0, 1} /\ B(x.pinned) \in {0, 1} /\ B(Out(q, c, "connect")) \in {0, 1}
  BY DEF B
<1>4. B(x.armed) = 1 \/ B(x.pinned) = 1 \/ B(Out(q, c, "connect")) = 1
  BY <1>2 DEF B
<1> QED BY <1>1, <1>3, <1>4

\* The completion at the head of cq, and the rings without it.
Pops(q, d, q2) == q.cq # <<>> /\ d = Head(q.cq) /\ q2 = [q EXCEPT !.cq = Tail(@)]

LEMMA ReadSound ==
  ASSUME NEW x \in Connections, NEW d, NEW q, NEW q2, RingSound(q), Pops(q, d, q2), NEW h, NEW run,
         ConnSound(x, d.c, q, h, run), d.op # "send", NEW z, z = Released(x, d)
  PROVE  z \in Connections /\ ConnSound(z, d.c, q2, h, run)
<1> DEFINE c == d.c
<1>1. /\ RingSound(q2) /\ d \in Completions
      /\ ~Continues(d) => Out(q, c, d.op)
      /\ Continues(d) => Out(q, c, "recv")
      /\ \A e, op : Out(q2, e, op) <=> Out(q, e, op) /\ ~(~Continues(d) /\ e = d.c /\ op = d.op)
      /\ \A e, g : OfGen(q, e, g) => OfGen(q2, e, g) /\ (e = d.c => g = d.g)
      /\ \A e, u, a : Sending(q, e, u, a) =>
           Sending(q2, e, u, a) /\ (e = d.c /\ d.op = "send" => d.n = a /\ a <= u)
  <2>1. RingSound(q2) /\ d \in Completions /\ Popping(q, d, q2)
    BY Popped DEF Pops
  <2> QED BY <2>1, Zenon DEF Popping
<1>2. d.op \in Kinds /\ (Continues(d) => d.op = "recv")
  BY <1>1 DEF Completions, Continues
<1>3. Booked(x, c, q) /\ InStep(x, c, q, h, run)
  BY DEF ConnSound
<1>4. ~Continues(d) => x.inflight >= 1
  BY <1>1, <1>2, <1>3, OutCounted
<1>5. /\ z \in Connections /\ Kept(x, z)
      /\ Continues(d) => z.inflight = x.inflight /\ z.armed = x.armed
      /\ ~Continues(d) => z.inflight = x.inflight - 1
      /\ ~Continues(d) /\ d.op = "recv" => z.armed = FALSE
      /\ ~Continues(d) /\ d.op # "recv" => z.armed = x.armed
  BY ZenonT(60), <1>4, ReleasedFields
<1> HIDE DEF c
<1>6. /\ OfGen(q2, c, x.g) /\ Sending(q2, c, Unsent(x), Ahead(x, h))
  BY <1>1, <1>3, Zenon DEF Booked, InStep
<1>7. \A op : Out(q2, c, op) <=> Out(q, c, op) /\ (Continues(d) \/ op # d.op)
  BY <1>1 DEF c
<1>8. /\ x.armed <=> Out(q, c, "recv")
      /\ x.pinned <=> Out(q, c, "send")
      /\ x.inflight = B(x.armed) + B(x.pinned) + B(Out(q, c, "connect"))
      /\ x.armed \/ x.pinned => x.connected
      /\ Out(q, c, "connect") => ~x.connected
      /\ x.st = "none" => x = Vacant(x.g)
  BY <1>3 DEF Booked
<1>9. /\ z.armed <=> Out(q2, c, "recv")
      /\ z.pinned <=> Out(q2, c, "send")
  <2>1. z.pinned = x.pinned
    BY <1>5 DEF Kept
  <2>2. z.pinned <=> Out(q2, c, "send")
    BY <2>1, <1>7, <1>8
  <2>3. z.armed <=> Out(q2, c, "recv")
    BY <1>5, <1>7, <1>8
  <2> QED BY <2>2, <2>3
<1>10. z.inflight = B(z.armed) + B(z.pinned) + B(Out(q2, c, "connect"))
  <2>p. B(z.pinned) = B(x.pinned)
    BY <1>5 DEF Kept
  <2>n. /\ B(x.armed) \in Nat /\ B(x.pinned) \in Nat /\ B(Out(q, c, "connect")) \in Nat
    BY DEF B
  <2>1. CASE Continues(d)
    <3>1. B(Out(q2, c, "connect")) = B(Out(q, c, "connect"))
      BY <2>1, <1>7 DEF B
    <3> QED BY <2>1, <3>1, <2>p, <1>5, <1>8
  <2>2. CASE ~Continues(d) /\ d.op = "recv"
    <3>1. B(Out(q2, c, "connect")) = B(Out(q, c, "connect"))
      BY <2>2, <1>7 DEF B
    <3>2. B(x.armed) = 1 /\ B(z.armed) = 0
      BY <2>2, <1>1, <1>5, <1>8 DEF B, c
    <3> QED BY <2>2, <3>1, <3>2, <2>p, <2>n, <1>5, <1>8
  <2>3. CASE ~Continues(d) /\ d.op = "connect"
    <3>1. B(Out(q2, c, "connect")) = 0 /\ B(Out(q, c, "connect")) = 1
      BY <2>3, <1>1, <1>7 DEF B, c
    <3>2. B(x.armed) = B(z.armed)
      BY <2>3, <1>5 DEF B
    <3> QED BY <2>3, <3>1, <3>2, <2>p, <2>n, <1>5, <1>8
  <2> QED BY <2>1, <2>2, <2>3, <1>2 DEF Kinds
<1>11. x.st # "none"
  <2>1. Out(q, c, "recv") \/ Out(q, c, "connect")
    BY <1>1, <1>2 DEF Kinds, c
  <2>2. ASSUME x.st = "none" PROVE FALSE
    <3>1. x.inflight = 0
      BY <2>2, <1>8 DEF Vacant
    <3>2. x.inflight >= 1
      BY <2>1, <1>3, OutCounted DEF Kinds
    <3> QED BY <3>1, <3>2
  <2> QED BY <2>2
<1>12. Booked(z, c, q2)
  <2>1. z.g = x.g /\ z.connected = x.connected /\ z.st # "none"
    BY <1>5, <1>11 DEF Kept
  <2>2. z.armed \/ z.pinned => z.connected
    BY <2>1, <1>7, <1>8, <1>9
  <2>3. Out(q2, c, "connect") => ~z.connected
    BY <2>1, <1>7, <1>8
  <2> QED BY <2>1, <2>2, <2>3, <1>6, <1>9, <1>10 DEF Booked
<1>13. InStep(z, c, q2, h, run)
  <2>1. Unsent(z) = Unsent(x) /\ Ahead(z, h) = Ahead(x, h)
    BY <1>5 DEF Unsent, Ahead, Kept
  <2>2. Numbered(z.staged, z.front, z.off, z.back, z.pinned)
    BY <1>3, <1>5 DEF InStep, Kept
  <2>3. run /\ z.st = "live" /\ ~z.pinned => Ahead(z, h) = 0
    BY <1>3, <1>5, <2>1 DEF InStep, Kept
  <2> QED BY <1>3, <1>6, <2>1, <2>2, <2>3 DEF InStep
<1> QED BY <1>5, <1>12, <1>13 DEF ConnSound, c

Unpinned(x, y) ==
  /\ y.st = x.st /\ y.mate = x.mate /\ y.armed = x.armed /\ y.paused = x.paused
  /\ y.connected = x.connected /\ y.pinned = FALSE /\ x.connected

LEMMA SentSound ==
  ASSUME NEW x \in Connections, NEW d, NEW q, NEW q2, RingSound(q), Pops(q, d, q2),
         NEW h \in Seq(Nat), NEW run, ConnSound(x, d.c, q, h, run), d.op = "send",
         NEW n, n = d.n \/ (n = 0 /\ ~(run /\ x.st = "live")),
         NEW y, y = SentBytes(Released(x, d), n)
  PROVE  y \in Connections /\ ConnSound(y, d.c, q2, h, run) /\ Unpinned(x, y)
<1> DEFINE c == d.c
           z == Released(x, d)
<1>1. /\ RingSound(q2) /\ d \in Completions
      /\ ~Continues(d) => Out(q, c, d.op)
      /\ \A e, op : Out(q2, e, op) <=> Out(q, e, op) /\ ~(~Continues(d) /\ e = d.c /\ op = d.op)
      /\ \A e, g : OfGen(q, e, g) => OfGen(q2, e, g) /\ (e = d.c => g = d.g)
      /\ \A e, u, a : Sending(q, e, u, a) =>
           Sending(q2, e, u, a) /\ (e = d.c /\ d.op = "send" => d.n = a /\ a <= u)
  <2>1. RingSound(q2) /\ d \in Completions /\ Popping(q, d, q2)
    BY Popped DEF Pops
  <2> QED BY <2>1, Zenon DEF Popping
<1>2. ~Continues(d) /\ d.n \in Nat
  BY <1>1 DEF Continues, Completions
<1>3. Booked(x, c, q) /\ InStep(x, c, q, h, run)
  BY DEF ConnSound
<1>4. Out(q, c, "send") /\ x.inflight >= 1
  BY <1>1, <1>2, <1>3, OutCounted DEF Kinds
<1>5. /\ z \in Connections /\ Kept(x, z)
      /\ z.inflight = x.inflight - 1 /\ z.armed = x.armed
  BY <1>2, <1>4, ReleasedFields
<1> HIDE DEF c, z
<1>6. /\ OfGen(q2, c, x.g) /\ Sending(q, c, Unsent(x), Ahead(x, h))
  BY <1>1, <1>3, Zenon DEF Booked, InStep
<1>7. \A op : Out(q2, c, op) <=> Out(q, c, op) /\ op # "send"
  BY <1>1, <1>2 DEF c
<1>8. d.n = Ahead(x, h) /\ Ahead(x, h) <= Unsent(x)
  BY <1>1, <1>6 DEF c
<1>9. /\ x.pinned = TRUE /\ x.connected
      /\ Numbered(x.staged, x.front, x.off, x.back, TRUE)
  <2>1. x.pinned \in BOOLEAN /\ x.pinned /\ x.connected
    BY <1>3, <1>4, ConnTypes DEF Booked
  <2> QED BY <2>1, <1>3 DEF InStep
<1>10. n \in Nat /\ z.off + n <= Len(z.front) /\ Numbered(z.staged, z.front, z.off, z.back, TRUE)
  <2>1. x.front \in Seq(Nat) /\ x.off \in Nat /\ x.off <= Len(x.front)
    BY <1>9, ConnTypes DEF Numbered
  <2>2. n \in Nat /\ n <= Len(x.front) - x.off
    BY <1>2, <1>8, <2>1 DEF Unsent
  <2>3. x.off + n <= Len(x.front)
    BY <2>1, <2>2
  <2> QED BY <2>2, <2>3, <1>5, <1>9 DEF Kept
<1>11. /\ y \in Connections /\ Else(z, y) /\ y.pinned = FALSE
       /\ Numbered(y.staged, y.front, y.off, y.back, FALSE)
       /\ Ahead(y, h) = Ahead(z, h) - n /\ Ahead(z, h) \in Int
  BY <1>5, <1>10, SentFields DEF z
<1>12. Ahead(z, h) = Ahead(x, h)
  BY <1>5 DEF Ahead, Kept
<1>13. /\ y.st = x.st /\ y.mate = x.mate /\ y.armed = x.armed /\ y.paused = x.paused
       /\ y.connected = x.connected /\ y.g = x.g /\ y.inflight = x.inflight - 1
  BY <1>5, <1>11 DEF Kept, Else
<1>14. y.inflight = B(y.armed) + B(y.pinned) + B(Out(q2, c, "connect"))
  <2>1. x.inflight = B(x.armed) + B(x.pinned) + B(Out(q, c, "connect"))
    BY <1>3 DEF Booked
  <2>2. B(x.pinned) = 1 /\ B(y.pinned) = 0 /\ B(y.armed) = B(x.armed)
    BY <1>9, <1>11, <1>13 DEF B
  <2>3. B(Out(q2, c, "connect")) = B(Out(q, c, "connect"))
    BY <1>7 DEF B
  <2>4. B(x.armed) \in Nat /\ B(Out(q, c, "connect")) \in Nat
    BY DEF B
  <2> QED BY <1>13, <2>1, <2>2, <2>3, <2>4
<1>15. x.st # "none"
  BY <1>3, <1>9 DEF Booked, Vacant
<1>16. Booked(y, c, q2)
  <2>1. y.armed <=> Out(q2, c, "recv")
    BY <1>3, <1>7, <1>13 DEF Booked
  <2>2. ~y.pinned /\ ~Out(q2, c, "send")
    BY <1>7, <1>11
  <2>3. ~Out(q2, c, "connect")
    BY <1>3, <1>7, <1>9 DEF Booked
  <2>4. OfGen(q2, c, y.g) /\ y.connected /\ y.st # "none"
    BY <1>6, <1>9, <1>13, <1>15
  <2> QED BY <2>1, <2>2, <2>3, <2>4, <1>14 DEF Booked
<1>17. Sending(q2, c, Unsent(y), Ahead(y, h))
  <2>1. ~OutIn(Work(q2), q2.cq, c, "send")
    BY <1>7 DEF Out
  <2>2. \A i \in DOMAIN q2.cq : q2.cq[i].op = "send" => ~Continues(q2.cq[i])
    BY DEF Continues
  <2> QED BY <2>1, <2>2 DEF OutIn, Sending, SendingIn
<1>18. InStep(y, c, q2, h, run)
  <2>1. ASSUME run, y.st = "live" PROVE Ahead(y, h) = 0
    <3>1. n = Ahead(z, h)
      BY <2>1, <1>8, <1>12, <1>13
    <3> QED BY <3>1, <1>11
  <2>2. Counts(h) /\ Numbered(y.staged, y.front, y.off, y.back, y.pinned)
    BY <1>3, <1>11 DEF InStep
  <2> QED BY <1>17, <2>1, <2>2 DEF InStep
<1> QED BY <1>9, <1>11, <1>13, <1>16, <1>18 DEF ConnSound, c, Unpinned

LEMMA PopFrame ==
  ASSUME NEW q, NEW d, NEW q2, RingSound(q), Pops(q, d, q2)
  PROVE  RingSound(q2) /\ d \in Completions /\ \A e : e # d.c => Frame(q, q2, e)
<1>1. RingSound(q2) /\ d \in Completions /\ Popping(q, d, q2)
  BY Popped DEF Pops
<1>2. \A e, op : e # d.c => (Out(q2, e, op) <=> Out(q, e, op))
  BY <1>1, Zenon DEF Popping
<1>3. \A e, g : OfGen(q, e, g) => OfGen(q2, e, g)
  BY <1>1, Zenon DEF Popping
<1>4. \A e, u, a : Sending(q, e, u, a) => Sending(q2, e, u, a)
  BY <1>1, Zenon DEF Popping
<1> QED BY <1>1, <1>2, <1>3, <1>4, Zenon DEF Frame

\* The same, but for the connection whose send completes.
StillBut(m, m2, d) == \A e \in Conn : ~(e = d.c /\ d.op = "send") => StillAt(m[e], m2[e])

LEMMA StillThen ==
  ASSUME NEW m, NEW m2, NEW m3, NEW d, StillBut(m, m2, d), Still(m2, m3)
  PROVE  StillBut(m, m3, d)
BY DEF Still, StillBut, StillAt

LEMMA StillButOne ==
  ASSUME NEW m \in [Conn -> Connections], NEW d, NEW m2, Alone(m, m2, d.c),
         d.op = "send" \/ StillAt(m[d.c], m2[d.c])
  PROVE  StillBut(m, m2, d)
<1> SUFFICES ASSUME NEW e \in Conn, ~(e = d.c /\ d.op = "send") PROVE StillAt(m[e], m2[e])
  BY DEF StillBut
<1>1. m[e].g \in Nat
  BY ConnTypes
<1>2. e # d.c => m2[e] = m[e]
  BY DEF Alone
<1> QED BY <1>1, <1>2 DEF StillAt

\* A completion of a doomed connection, or in the drain.
LEMMA DiscardSound ==
  ASSUME NEW m, NEW q, NEW h \in [Conn -> Seq(Nat)], NEW run, Sound(m, q, h, run),
         NEW d, NEW q2, Pops(q, d, q2), ~(run /\ m[d.c].st = "live"),
         NEW y, y = Discard(Released(m[d.c], d), d)
  PROVE  /\ d.c \in Conn /\ Sound([m EXCEPT ![d.c] = y], q2, h, run)
         /\ StillBut(m, [m EXCEPT ![d.c] = y], d)
         /\ y.st = "live" => m[d.c].st = "live"
         /\ y.inflight = 0 \/ m[d.c].inflight # 0
<1> DEFINE c == d.c
           x == m[c]
           w == IF d.op = "send" THEN SentBytes(Released(x, d), 0) ELSE Released(x, d)
<1>1. /\ m \in [Conn -> Connections] /\ RingSound(q) /\ Paired(m)
      /\ \A e \in Conn : ConnSound(m[e], e, q, h[e], run)
  BY DEF Sound
<1>2. RingSound(q2) /\ d \in Completions /\ \A e : e # d.c => Frame(q, q2, e)
  BY <1>1, PopFrame
<1>3. c \in Conn
  BY <1>2 DEF Completions
<1>4. x \in Connections /\ h[c] \in Seq(Nat) /\ ConnSound(x, c, q, h[c], run)
  BY <1>1, <1>3
<1>5. w \in Connections /\ ConnSound(w, c, q2, h[c], run) /\ w.st = x.st /\ w.mate = x.mate
  <2>1. CASE d.op = "send"
    <3>1. w = SentBytes(Released(x, d), 0)
      BY <2>1
    <3>2. ~(run /\ x.st = "live")
      OBVIOUS
    <3> HIDE DEF w, x
    <3>3. w \in Connections /\ ConnSound(w, c, q2, h[c], run) /\ Unpinned(x, w)
      BY <2>1, <3>1, <3>2, <1>1, <1>4, SentSound
    <3> QED BY <3>3 DEF Unpinned
  <2>2. CASE d.op # "send"
    <3>1. w = Released(x, d)
      BY <2>2
    <3> HIDE DEF w, x, c
    <3>2. w \in Connections /\ ConnSound(w, c, q2, h[c], run)
      BY <2>2, <3>1, <1>1, <1>4, ReadSound DEF c
    <3>3. w.st = x.st /\ w.mate = x.mate
      BY <3>1, <1>4 DEF Released, Connections
    <3> QED BY <3>2, <3>3
  <2> QED BY <2>1, <2>2
<1>6. y = MaybeFree(w)
  BY DEF Discard
<1> HIDE DEF w
<1>7. x.mate # None => x.st = "live"
  BY <1>1, <1>3 DEF Paired
<1>8. /\ y \in Connections /\ ConnSound(y, c, q2, h[c], run)
      /\ y.mate = x.mate /\ (y.mate # None => y.st = "live")
      /\ y.st = "live" => x.st = "live"
  <2>1. CASE x.st = "live"
    <3>1. y = w
      BY <2>1, <1>5, <1>6 DEF MaybeFree
    <3> QED BY <3>1, <2>1, <1>5
  <2>2. CASE x.st # "live"
    <3>1. w.mate = None /\ w.st # "live"
      BY <2>2, <1>5, <1>7
    <3>2. /\ MaybeFree(w) \in Connections /\ ConnSound(MaybeFree(w), c, q2, h[c], run)
          /\ MaybeFree(w).mate = None /\ MaybeFree(w).st # "live"
      BY <1>2, <1>4, <1>5, <3>1, FreedSound
    <3> QED BY <2>2, <3>1, <3>2, <1>5, <1>6, <1>7
  <2> QED BY <2>1, <2>2
<1>9. \A e \in Conn \ {c} : Frame(q, q2, e) /\ h[e] = h[e]
  BY <1>2
<1>10. Sound([m EXCEPT ![c] = y], q2, h, run)
  <2> HIDE DEF c
  <2> QED BY <1>2, <1>3, <1>8, <1>9, OneSound
<1>s. StillBut(m, [m EXCEPT ![c] = y], d)
  <2> DEFINE m2 == [m EXCEPT ![c] = y]
  <2>1. Alone(m, m2, c) /\ m2[c] = y
    BY <1>1, <1>3 DEF Alone
  <2>2. d.op # "send" => StillAt(x, y)
    <3>1. ASSUME d.op # "send" PROVE StillAt(x, y)
      <4>1. w = Released(x, d)
        BY <3>1 DEF w
      <4>2. w.g = x.g /\ w.front = x.front /\ w.off = x.off /\ x.g \in Nat
        <5> HIDE DEF x
        <5> QED BY <1>4, <4>1, ConnTypes DEF Released, Connections
      <4>3. CASE y = w
        BY <4>2, <4>3 DEF StillAt
      <4>4. CASE y = Vacant(w.g + 1)
        <5>1. y.g = x.g + 1
          BY <4>2, <4>4 DEF Vacant
        <5> QED BY <5>1, <4>2 DEF StillAt
      <4> QED BY <4>3, <4>4, <1>6 DEF MaybeFree
    <3> QED BY <3>1
  <2> HIDE DEF m2
  <2>3. StillBut(m, m2, d)
    BY <2>1, <2>2, <1>1, StillButOne
  <2> QED BY <2>3 DEF m2
<1>11. x.inflight # 0
  <2>1. Popping(q, d, q2)
    BY <1>1, Popped DEF Pops
  <2>2. \E op \in Kinds : Out(q, c, op)
    BY <2>1, <1>2 DEF Popping, Completions, Kinds
  <2>3. x.inflight >= 1
    BY <2>2, <1>4, OutCounted DEF ConnSound
  <2> QED BY <2>3
<1> QED BY <1>3, <1>8, <1>10, <1>11, <1>s

\* A completion delivered to an open connection: the slot it gives back.
LEMMA DeliveredSound ==
  ASSUME NEW m, NEW q, NEW h \in [Conn -> Seq(Nat)], Sound(m, q, h, TRUE),
         NEW d, NEW q2, Pops(q, d, q2), NEW y \in Connections,
         ConnSound(y, d.c, q2, h[d.c], TRUE), y.mate = m[d.c].mate, y.st = "live"
  PROVE  /\ d \in Completions /\ d.c \in Conn /\ m \in [Conn -> Connections]
         /\ Sound([m EXCEPT ![d.c] = y], q2, h, TRUE)
<1>1. m \in [Conn -> Connections] /\ RingSound(q)
  BY DEF Sound
<1>2. RingSound(q2) /\ d \in Completions /\ \A e : e # d.c => Frame(q, q2, e)
  BY <1>1, PopFrame
<1>3. d.c \in Conn
  BY <1>2 DEF Completions
<1>4. \A e \in Conn \ {d.c} : Frame(q, q2, e) /\ h[e] = h[e]
  BY <1>2
<1> QED BY <1>1, <1>2, <1>3, <1>4, OneSound

LEMMA OpenConn ==
  ASSUME NEW m, NEW q, NEW h \in [Conn -> Seq(Nat)], NEW run, Sound(m, q, h, run),
         NEW d, NEW q2, Pops(q, d, q2)
  PROVE  /\ d \in Completions /\ d.c \in Conn /\ m[d.c] \in Connections /\ h[d.c] \in Seq(Nat)
         /\ RingSound(q) /\ ConnSound(m[d.c], d.c, q, h[d.c], run) /\ Popping(q, d, q2)
         /\ m \in [Conn -> Connections]
<1>1. m \in [Conn -> Connections] /\ RingSound(q) /\ \A e \in Conn : ConnSound(m[e], e, q, h[e], run)
  BY DEF Sound
<1>2. d \in Completions /\ Popping(q, d, q2)
  BY <1>1, Popped DEF Pops
<1>3. d.c \in Conn
  BY <1>2 DEF Completions
<1> QED BY <1>1, <1>2, <1>3

LEMMA RecvSound ==
  ASSUME NEW m, NEW q, NEW h \in [Conn -> Seq(Nat)], Sound(m, q, h, TRUE), Reading(m, {}),
         NEW d, NEW q2, Pops(q, d, q2), m[d.c].st = "live", d.op = "recv",
         NEW s, s = [k |-> [m EXCEPT ![d.c] = Released(m[d.c], d)], r |-> q2],
         NEW t \in OnRecv(s, d)
  PROVE  Sound(t.k, t.r, h, TRUE) /\ Reading(t.k, {}) /\ StillBut(m, t.k, d)
<1> DEFINE c == d.c
           x == m[c]
           z == Released(x, d)
<1>1. /\ d \in Completions /\ c \in Conn /\ x \in Connections /\ h[c] \in Seq(Nat)
      /\ RingSound(q) /\ ConnSound(x, c, q, h[c], TRUE) /\ Popping(q, d, q2)
      /\ m \in [Conn -> Connections]
  BY OpenConn
<1>2. z \in Connections /\ ConnSound(z, c, q2, h[c], TRUE)
  BY <1>1, ReadSound
<1>3. Out(q, c, "recv") /\ x.inflight >= 1 /\ x.armed /\ x.connected
  <2>1. Out(q, c, "recv")
    BY <1>1 DEF Popping
  <2>2. x.armed /\ x.connected
    BY <2>1, <1>1 DEF ConnSound, Booked
  <2>3. x.inflight >= 1
    BY <2>1, <1>1, OutCounted DEF ConnSound, Kinds
  <2> QED BY <2>1, <2>2, <2>3
<1>4. /\ Kept(x, z)
      /\ Continues(d) => z.armed = x.armed
      /\ ~Continues(d) => z.armed = FALSE
  <2>1. z = Released(x, d)
    OBVIOUS
  <2> HIDE DEF z, x, c
  <2>2. /\ Kept(x, z)
        /\ Continues(d) => z.inflight = x.inflight /\ z.armed = x.armed
        /\ ~Continues(d) /\ d.op = "recv" => z.armed = FALSE
    BY ZenonT(60), <2>1, <1>1, <1>3, ReleasedFields
  <2> QED BY <2>2
<1>5. z.st = "live" /\ z.mate = x.mate /\ z.connected /\ z.paused = x.paused
  BY <1>3, <1>4 DEF Kept
<1> HIDE DEF z
<1>6. Sound([m EXCEPT ![c] = z], q2, h, TRUE)
  BY <1>2, <1>5, DeliveredSound
<1>7. s.k = [m EXCEPT ![c] = z] /\ s.r = q2
  BY DEF z
<1>8. s.k[c] = z /\ \A e \in Conn \ {c} : s.k[e] = m[e]
  BY <1>1, <1>7
<1>9. Sound(s.k, s.r, h, TRUE)
  BY <1>6, <1>7
<1>10. Reading(s.k, {c})
  BY <1>8 DEF Reading
<1>s. StillBut(m, s.k, d)
  <2>1. Alone(m, s.k, d.c)
    BY <1>8 DEF Alone
  <2>2. StillAt(m[d.c], s.k[d.c])
    BY <1>1, <1>4, <1>8, ConnTypes DEF StillAt, Kept
  <2> HIDE DEF c
  <2> QED BY <2>1, <2>2, <1>1, StillButOne
<1>11. ASSUME t = s, Continues(d) \/ z.paused 
      PROVE  Sound(t.k, t.r, h, TRUE) /\ Reading(t.k, {}) /\ StillBut(m, t.k, d)
  <2>1. z.paused \/ z.armed
    BY <1>3, <1>4, <1>11
  <2>2. Reading(s.k, {})
    BY <2>1, <1>8, <1>10 DEF Reading
  <2> QED BY <2>2, <1>9, <1>11, <1>s
<1>12. ASSUME t \in ArmRecv(s, c), ~Continues(d) 
      PROVE  Sound(t.k, t.r, h, TRUE) /\ Reading(t.k, {}) /\ StillBut(m, t.k, d)
  <2>1. s.k[c].st = "live" /\ s.k[c].connected /\ ~s.k[c].armed
    BY <1>4, <1>5, <1>8, <1>12
  <2> HIDE DEF c
  <2>2. Sound(t.k, t.r, h, TRUE) /\ Reading(t.k, {}) /\ Still(s.k, t.k)
    BY <2>1, <1>1, <1>9, <1>10, <1>12, ArmSound
  <2> QED BY <2>2, <1>s, StillThen
<1>13. ASSUME t \in Close(s, c) 
      PROVE  Sound(t.k, t.r, h, TRUE) /\ Reading(t.k, {}) /\ StillBut(m, t.k, d)
  <2>1. s.k[c].st = "live"
    BY <1>5, <1>8
  <2> HIDE DEF c
  <2>2. Sound(t.k, t.r, h, TRUE) /\ Fewer(s.k, t.k) /\ t.k[c].st # "live"
    BY <2>1, <1>1, <1>9, <1>13, CloseSound
  <2>3. Reading(t.k, {})
    BY <2>2, <1>10, FewerRead
  <2> QED BY <2>2, <2>3, <1>s, StillThen DEF Fewer
<1>14. CASE d.res \in {"nobufs", "cancelled"}
  <2>1. ~Continues(d) /\ t \in (IF s.k[c].paused THEN {s} ELSE ArmRecv(s, c))
    BY <1>14 DEF Continues, OnRecv
  <2> QED BY <2>1, <1>8, <1>11, <1>12
<1>15. CASE d.res = "data"
  <2>1. t \in (IF d.more \/ s.k[c].paused THEN {s} ELSE ArmRecv(s, c))
    BY <1>15 DEF OnRecv
  <2>2. Continues(d) <=> d.more
    BY <1>15 DEF Continues
  <2> QED BY <2>1, <2>2, <1>8, <1>11, <1>12
<1>16. CASE d.res \notin {"nobufs", "cancelled", "data"}
  <2>1. t \in Close(s, c)
    BY <1>16 DEF OnRecv
  <2> QED BY <2>1, <1>13
<1> QED BY <1>14, <1>15, <1>16

LEMMA SendDoneSound ==
  ASSUME NEW m, NEW q, NEW h \in [Conn -> Seq(Nat)], Sound(m, q, h, TRUE), Reading(m, {}),
         NEW d, NEW q2, Pops(q, d, q2), m[d.c].st = "live", d.op = "send",
         NEW s, s = [k |-> [m EXCEPT ![d.c] = Released(m[d.c], d)], r |-> q2],
         NEW t \in OnSend(s, d)
  PROVE  Sound(t.k, t.r, h, TRUE) /\ Reading(t.k, {}) /\ StillBut(m, t.k, d)
<1> DEFINE c == d.c
           x == m[c]
           y == SentBytes(Released(x, d), d.n)
           v == [s EXCEPT !.k[c] = SentBytes(@, d.n)]
<1>1. /\ d \in Completions /\ c \in Conn /\ x \in Connections /\ h[c] \in Seq(Nat)
      /\ RingSound(q) /\ ConnSound(x, c, q, h[c], TRUE)
      /\ m \in [Conn -> Connections]
  BY OpenConn
<1>2. y \in Connections /\ ConnSound(y, c, q2, h[c], TRUE) /\ Unpinned(x, y)
  <2> DEFINE run == TRUE
             n == d.n
  <2>1. n = d.n /\ y = SentBytes(Released(x, d), n) /\ ConnSound(x, c, q, h[c], run)
    BY <1>1
  <2> HIDE DEF x, y, run, n
  <2>2. y \in Connections /\ ConnSound(y, c, q2, h[c], run) /\ Unpinned(x, y)
    BY <2>1, <1>1, SentSound
  <2> QED BY <2>2 DEF run
<1>3. s.k = [m EXCEPT ![c] = Released(x, d)] /\ s.r = q2 /\ s.k[c] = Released(x, d)
  BY <1>1
<1>4. v.k = [s.k EXCEPT ![c] = SentBytes(s.k[c], d.n)] /\ v.r = q2
  BY <1>3
<1>5. v.k = [m EXCEPT ![c] = y]
  BY <1>1, <1>3, <1>4
<1>6. t \in IF d.res # "data" THEN Close(v, c) ELSE IF Idle(v.k[c]) THEN {v} ELSE SubmitSend(v, c)
  BY DEF OnSend
<1> HIDE DEF y, v
<1>7. /\ y.st = "live" /\ y.mate = x.mate /\ y.armed = x.armed /\ y.paused = x.paused
      /\ y.connected = x.connected /\ ~y.pinned /\ y.connected
  BY <1>2 DEF Unpinned
<1>8. Sound([m EXCEPT ![c] = y], q2, h, TRUE)
  BY <1>2, <1>7, DeliveredSound
<1>9. Sound(v.k, v.r, h, TRUE)
  BY <1>4, <1>5, <1>8
<1>10. v.k[c] = y /\ \A e \in Conn \ {c} : v.k[e] = m[e]
  BY <1>1, <1>5
<1>11. Reading(v.k, {})
  BY <1>7, <1>10 DEF Reading
<1>s. StillBut(m, v.k, d)
  <2>1. Alone(m, v.k, d.c)
    BY <1>10 DEF Alone
  <2> HIDE DEF c
  <2> QED BY <2>1, <1>1, StillButOne
<1> HIDE DEF c
<1>12. CASE t \in Close(v, c)
  <2>1. Sound(t.k, t.r, h, TRUE) /\ Fewer(v.k, t.k) /\ t.k[c].st # "live"
    BY <1>1, <1>7, <1>9, <1>10, <1>12, CloseSound
  <2>2. Reading(v.k, {c})
    BY <1>11 DEF Reading
  <2>3. Reading(t.k, {})
    BY <2>1, <2>2, FewerRead
  <2> QED BY <2>1, <2>3, <1>s, StillThen DEF Fewer
<1>13. CASE t = v
  BY <1>9, <1>11, <1>13, <1>s
<1>14. CASE t \in SubmitSend(v, c)
  <2>1. v.k[c].st = "live" /\ v.k[c].connected /\ ~v.k[c].pinned
    BY <1>7, <1>10
  <2>2. Sound(t.k, t.r, h, TRUE) /\ Reading(t.k, {}) /\ Still(v.k, t.k)
    BY <2>1, <1>1, <1>9, <1>11, <1>14, SendSound
  <2> QED BY <2>2, <1>s, StillThen
<1> QED BY <1>6, <1>12, <1>13, <1>14

LEMMA ConnectDoneSound ==
  ASSUME NEW m, NEW q, NEW h \in [Conn -> Seq(Nat)], Sound(m, q, h, TRUE), Reading(m, {}),
         NEW d, NEW q2, Pops(q, d, q2), m[d.c].st = "live", d.op = "connect",
         NEW s, s = [k |-> [m EXCEPT ![d.c] = Released(m[d.c], d)], r |-> q2],
         NEW t \in OnConnect(s, d)
  PROVE  Sound(t.k, t.r, h, TRUE) /\ Reading(t.k, {}) /\ StillBut(m, t.k, d)
<1> DEFINE c == d.c
           x == m[c]
           z == Released(x, d)
           y == [z EXCEPT !.connected = TRUE]
           v == [s EXCEPT !.k[c].connected = TRUE]
<1>1. /\ d \in Completions /\ c \in Conn /\ x \in Connections /\ h[c] \in Seq(Nat)
      /\ RingSound(q) /\ ConnSound(x, c, q, h[c], TRUE) /\ Popping(q, d, q2)
      /\ m \in [Conn -> Connections]
  BY OpenConn
<1>2. z \in Connections /\ ConnSound(z, c, q2, h[c], TRUE)
  BY <1>1, ReadSound
<1>3. ~Continues(d) /\ Out(q, c, "connect") /\ x.inflight >= 1
  <2>1. ~Continues(d)
    BY DEF Continues
  <2>2. Out(q, c, "connect")
    BY <2>1, <1>1 DEF Popping
  <2> QED BY <2>1, <2>2, <1>1, OutCounted DEF ConnSound, Kinds
<1>4. Kept(x, z)
  BY <1>1, <1>3, ReleasedFields
<1>5. /\ z.st = "live" /\ z.mate = x.mate /\ ~z.connected /\ ~z.armed /\ ~z.pinned
      /\ ~Out(q2, c, "connect")
  <2>1. z.st = "live" /\ z.mate = x.mate /\ z.connected = x.connected
    BY <1>4 DEF Kept
  <2>2. ~x.connected
    BY <1>1, <1>3 DEF ConnSound, Booked
  <2>3. ~z.armed /\ ~z.pinned
    BY <2>1, <2>2, <1>2 DEF ConnSound, Booked
  <2>4. ~Out(q2, c, "connect")
    BY <1>1, <1>3 DEF Popping
  <2> QED BY <2>1, <2>2, <2>3, <2>4
<1>6. /\ y \in Connections /\ y.connected /\ y.st = z.st /\ y.mate = z.mate /\ y.g = z.g
      /\ y.armed = z.armed /\ y.pinned = z.pinned /\ y.inflight = z.inflight
      /\ y.front = z.front /\ y.off = z.off /\ y.back = z.back /\ y.staged = z.staged
  <2> HIDE DEF z
  <2> QED BY <1>2 DEF Connections
<1>7. s.k = [m EXCEPT ![c] = z] /\ s.r = q2 /\ s.k[c] = z
  BY <1>1
<1>8. v.k = [s.k EXCEPT ![c] = [s.k[c] EXCEPT !.connected = TRUE]] /\ v.r = q2
  BY <1>7
<1>9. v.k = [m EXCEPT ![c] = y]
  BY <1>1, <1>7, <1>8
<1>10. t \in IF d.res # "data" THEN Close(s, c)
             ELSE UNION {IF w.k[c].st = "live" /\ w.k[c].g = d.g THEN SubmitSend(w, c) ELSE {w}
                           : w \in ArmRecv(v, c)}
  BY Zenon DEF OnConnect
<1> HIDE DEF z, y, v
<1>11. ConnSound(y, c, q2, h[c], TRUE)
  <2>1. Booked(y, c, q2)
    BY <1>2, <1>5, <1>6 DEF ConnSound, Booked
  <2>2. Unsent(y) = Unsent(z) /\ Ahead(y, h[c]) = Ahead(z, h[c])
    BY <1>6 DEF Unsent, Ahead
  <2>3. Numbered(y.staged, y.front, y.off, y.back, y.pinned)
    BY <1>2, <1>6 DEF ConnSound, InStep
  <2>4. InStep(y, c, q2, h[c], TRUE)
    BY <1>2, <1>5, <1>6, <2>2, <2>3 DEF ConnSound, InStep
  <2> QED BY <2>1, <2>4 DEF ConnSound
<1>12. Sound(s.k, s.r, h, TRUE)
  <2>1. Sound([m EXCEPT ![c] = z], q2, h, TRUE)
    BY <1>2, <1>5, DeliveredSound
  <2> QED BY <2>1, <1>7
<1>13. Sound(v.k, v.r, h, TRUE)
  <2>1. Sound([m EXCEPT ![c] = y], q2, h, TRUE)
    BY <1>5, <1>6, <1>11, DeliveredSound
  <2> QED BY <2>1, <1>8, <1>9
<1>14. /\ v.k[c] = y /\ \A e \in Conn \ {c} : v.k[e] = m[e]
       /\ \A e \in Conn \ {c} : s.k[e] = m[e]
  BY <1>1, <1>7, <1>9
<1>15. Reading(v.k, {c}) /\ Reading(s.k, {c})
  BY <1>14 DEF Reading
<1>s. StillBut(m, s.k, d) /\ StillBut(m, v.k, d)
  <2>1. Alone(m, s.k, d.c) /\ Alone(m, v.k, d.c)
    BY <1>14 DEF Alone
  <2>2. StillAt(m[d.c], s.k[d.c]) /\ StillAt(m[d.c], v.k[d.c])
    <3>1. x.g \in Nat /\ z.g = x.g /\ z.front = x.front /\ z.off = x.off
      BY <1>1, <1>4, ConnTypes DEF Kept
    <3> QED BY <3>1, <1>6, <1>7, <1>14 DEF StillAt
  <2> HIDE DEF c
  <2> QED BY <2>1, <2>2, <1>1, StillButOne
<1> HIDE DEF c
<1>16. CASE d.res # "data"
  <2>1. t \in Close(s, c) /\ s.k[c].st = "live"
    BY <1>5, <1>7, <1>10, <1>16
  <2>2. Sound(t.k, t.r, h, TRUE) /\ Fewer(s.k, t.k) /\ t.k[c].st # "live"
    BY <2>1, <1>1, <1>12, CloseSound
  <2>3. Reading(t.k, {})
    BY <2>2, <1>15, FewerRead
  <2> QED BY <2>2, <2>3, <1>s, StillThen DEF Fewer
<1>17. CASE d.res = "data"
  <2>1. PICK w \in ArmRecv(v, c) :
          t \in IF w.k[c].st = "live" /\ w.k[c].g = d.g THEN SubmitSend(w, c) ELSE {w}
    BY <1>10, <1>17
  <2>2. v.k[c].st = "live" /\ v.k[c].connected /\ ~v.k[c].armed /\ ~v.k[c].pinned
    BY <1>5, <1>6, <1>14
  <2>3. /\ Sound(w.k, w.r, h, TRUE) /\ Reading(w.k, {}) /\ Still(v.k, w.k)
        /\ w.k[c].st = "live" => w.k[c].connected /\ w.k[c].pinned = v.k[c].pinned
    BY <2>2, <1>1, <1>13, <1>15, ArmSound
  <2>s. StillBut(m, w.k, d)
    BY <2>3, <1>s, StillThen
  <2>4. CASE t = w
    BY <2>3, <2>4, <2>s
  <2>5. CASE w.k[c].st = "live" /\ t \in SubmitSend(w, c)
    <3>1. w.k[c].connected /\ ~w.k[c].pinned
      BY <2>2, <2>3, <2>5
    <3>2. Sound(t.k, t.r, h, TRUE) /\ Reading(t.k, {}) /\ Still(w.k, t.k)
      BY <3>1, <2>3, <2>5, <1>1, SendSound
    <3> QED BY <3>2, <2>s, StillThen
  <2> QED BY <2>1, <2>4, <2>5
<1> QED BY <1>16, <1>17

-----------------------------------------------------------------------------
(* Every step keeps the invariant.                                         *)

LEMMA Assembled ==
  ASSUME Sound(k', r', heard', (mode' = "run")), mode' = "run" => Reading(k', {}),
         heard' \in [Conn -> Seq(Nat)], mode' \in {"run", "drain", "ended", "quit"}, stop' \in SUBSET Conn,
         mode' = "ended" => \A c \in Conn : k'[c].inflight = 0
  PROVE  IInv'
<1>1. k' \in [Conn -> Connections] /\ r' \in Rings /\ Len(r'.sq) <= Depth
  BY DEF Sound, RingSound
<1> QED BY <1>1 DEF IInv, TypeOK

LEMMA Disassembled ==
  ASSUME IInv
  PROVE  /\ Sound(k, r, heard, (mode = "run")) /\ heard \in [Conn -> Seq(Nat)]
         /\ mode \in {"run", "drain", "ended", "quit"} /\ stop \in SUBSET Conn
         /\ k \in [Conn -> Connections] /\ RingSound(r)
         /\ mode = "run" => Sound(k, r, heard, TRUE) /\ Reading(k, {})
<1>1. mode = "run" => (mode = "run") = TRUE
  OBVIOUS
<1> QED BY <1>1 DEF IInv, TypeOK, Sound

\* The bytes of a send the kernel holds are where they were.
Steady ==
  \A c \in Conn : k[c].pinned /\ (\E o \in r.ker : o.c = c /\ o.op = "send") => StillAt(k[c], k'[c])

LEMMA StillSteady ==
  ASSUME Still(k, k') PROVE Steady
BY DEF Still, Steady

\* While the kernel holds a send of a connection, none of its completions is one.
LEMMA StillButSteady ==
  ASSUME IInv, NEW d, r.cq # <<>>, d = Head(r.cq), StillBut(k, k', d) PROVE Steady
<1>1. r.cq \in Seq(Completions) /\ Orderly(Work(r), r.cq)
  BY Disassembled, RingParts DEF RingSound
<1>2. 1 \in DOMAIN r.cq /\ d = r.cq[1]
  BY <1>1
<1>3. d.op = "send" => \A o \in r.ker : ~(o.c = d.c /\ o.op = "send")
  BY <1>1, <1>2 DEF Orderly, Work, Continues
<1> QED BY <1>3 DEF StillBut, Steady

Discarding(m, d, run, m2) ==
  ~(run /\ m[d.c].st = "live") /\ m2 = [m EXCEPT ![d.c] = Discard(Released(m[d.c], d), d)]

LEMMA DiscardStill ==
  ASSUME NEW m, NEW q, NEW h \in [Conn -> Seq(Nat)], NEW run, Sound(m, q, h, run),
         NEW d, NEW q2, Pops(q, d, q2), NEW m2, Discarding(m, d, run, m2)
  PROVE  StillBut(m, m2, d)
<1> DEFINE y == Discard(Released(m[d.c], d), d)
<1>1. ~(run /\ m[d.c].st = "live") /\ m2 = [m EXCEPT ![d.c] = y] /\ y = Discard(Released(m[d.c], d), d)
  BY DEF Discarding
<1> HIDE DEF y
<1>2. StillBut(m, [m EXCEPT ![d.c] = y], d)
  BY <1>1, DiscardSound
<1> QED BY <1>1, <1>2

LEMMA ReapKeeps ==
  ASSUME IInv, Reap PROVE IInv' /\ Steady
<1> DEFINE d  == Head(r.cq)
           c  == d.c
           x  == k[c]
           z  == Released(x, d)
           q2 == [r EXCEPT !.cq = Tail(@)]
           s  == [k |-> [k EXCEPT ![c] = z], r |-> q2]
           run == mode = "run"
<1>1. /\ Sound(k, r, heard, run) /\ heard \in [Conn -> Seq(Nat)] /\ stop \in SUBSET Conn
      /\ mode \in {"run", "drain"} /\ k \in [Conn -> Connections]
      /\ mode = "run" => Sound(k, r, heard, TRUE) /\ Reading(k, {})
  BY Disassembled DEF Reap
<1>2. PICK t \in OnCqe(d) : k' = t.k /\ r' = t.r
  BY DEF Reap, Becomes
<1>3. Pops(r, d, q2)
  BY DEF Reap, Pops
<1>4. t \in IF mode = "drain" \/ s.k[c].st # "live"
            THEN {[s EXCEPT !.k[c] = Discard(@, d)]}
            ELSE CASE d.op = "recv" -> OnRecv(s, d)
                   [] d.op = "send" -> OnSend(s, d)
                   [] d.op = "connect" -> OnConnect(s, d)
  BY <1>2 DEF OnCqe
<1>5. mode' = mode /\ stop' = stop /\ heard' = heard
  BY DEF Reap
<1>d. r.cq # <<>> /\ d = Head(r.cq)
  BY DEF Reap
<1> HIDE DEF d, q2, run
<1>6. d \in Completions /\ c \in Conn /\ x \in Connections
  BY <1>1, <1>3, OpenConn
<1>7. s.k = [k EXCEPT ![c] = z] /\ s.r = q2 /\ s.k[c] = z /\ z.st = x.st
  <2>1. s.k = [k EXCEPT ![c] = z] /\ s.r = q2
    OBVIOUS
  <2>2. s.k[c] = z
    BY <2>1, <1>1, <1>6
  <2>3. z.st = x.st
    BY <1>6 DEF Released, Connections
  <2> QED BY <2>1, <2>2, <2>3
<1>8. CASE mode = "drain" \/ x.st # "live"
  <2> DEFINE y == Discard(z, d)
  <2>1. t = [s EXCEPT !.k[c] = Discard(@, d)]
    BY <1>4, <1>7, <1>8
  <2>2. t.k = [s.k EXCEPT ![c] = Discard(s.k[c], d)] /\ t.r = q2
    BY <2>1, <1>7
  <2>3. k' = [k EXCEPT ![c] = y] /\ r' = q2
    BY <2>2, <1>1, <1>2, <1>6, <1>7
  <2>4. ~(run /\ x.st = "live")
    BY <1>8 DEF run
  <2>y. y = Discard(Released(k[d.c], d), d)
    OBVIOUS
  <2>5. /\ Sound([k EXCEPT ![c] = y], q2, heard, run) /\ (y.st = "live" => x.st = "live")
        /\ StillBut(k, [k EXCEPT ![c] = y], d)
    <3> HIDE DEF y
    <3>1. Sound([k EXCEPT ![d.c] = y], q2, heard, run) /\ (y.st = "live" => k[d.c].st = "live")
      BY <2>4, <2>y, <1>1, <1>3, DiscardSound
    <3>2. StillBut(k, [k EXCEPT ![d.c] = y], d)
      <4> DEFINE m2 == [k EXCEPT ![d.c] = y]
      <4>1. Discarding(k, d, run, m2)
        BY <2>4, <2>y DEF Discarding
      <4>2. Sound(k, r, heard, run) /\ heard \in [Conn -> Seq(Nat)]
        BY <1>1
      <4> HIDE DEF m2
      <4>3. StillBut(k, m2, d)
        BY <4>1, <4>2, <1>3, DiscardStill
      <4> QED BY <4>3 DEF m2
    <3> QED BY <3>1, <3>2
  <2> HIDE DEF y, c
  <2>st. Steady
    BY <2>3, <2>5, <1>d, StillButSteady
  <2>6. Sound(k', r', heard', run)
    BY <2>3, <2>5, <1>5
  <2>7. mode = "run" => Reading(k', {})
    <3>1. k'[c] = y /\ \A e \in Conn \ {c} : k'[e] = k[e]
      BY <2>3, <1>1, <1>6
    <3> QED BY <3>1, <2>5, <1>1, <1>8 DEF Reading
  <2> QED BY <2>st, <2>6, <2>7, <1>1, <1>5, Assembled DEF run
<1>9. CASE ~(mode = "drain" \/ x.st # "live")
  <2>1. mode = "run" /\ x.st = "live" /\ Sound(k, r, heard, TRUE) /\ Reading(k, {})
    BY <1>1, <1>9
  <2>2. d.op \in {"recv", "send", "connect"}
    BY <1>6 DEF Completions, Kinds
  <2>3. /\ d.op = "recv" => t \in OnRecv(s, d)
        /\ d.op = "send" => t \in OnSend(s, d)
        /\ d.op = "connect" => t \in OnConnect(s, d)
    BY <1>4, <1>7, <1>9
  <2>4. s = [k |-> [k EXCEPT ![d.c] = Released(k[d.c], d)], r |-> q2] /\ k[d.c].st = "live"
    BY <2>1
  <2> HIDE DEF s
  <2>5. Sound(t.k, t.r, heard, TRUE) /\ Reading(t.k, {}) /\ StillBut(k, t.k, d)
    <3>1. CASE d.op = "recv"
      BY <3>1, <2>1, <2>3, <2>4, <1>1, <1>3, RecvSound
    <3>2. CASE d.op = "send"
      BY <3>2, <2>1, <2>3, <2>4, <1>1, <1>3, SendDoneSound
    <3>3. CASE d.op = "connect"
      BY <3>3, <2>1, <2>3, <2>4, <1>1, <1>3, ConnectDoneSound
    <3> QED BY <2>2, <3>1, <3>2, <3>3
  <2>6. (mode' = "run") = TRUE
    BY <2>1, <1>5
  <2>7. Sound(k', r', heard', (mode' = "run")) /\ Reading(k', {})
    BY <2>5, <2>6, <1>2, <1>5
  <2>8. Steady
    BY <2>5, <1>2, <1>d, StillButSteady
  <2> QED BY <2>1, <2>7, <2>8, <1>1, <1>5, Assembled
<1> QED BY <1>8, <1>9

LEMMA RunKeeps ==
  ASSUME mode = "run", mode' = mode, stop' = stop, stop \in SUBSET Conn,
         heard' \in [Conn -> Seq(Nat)], Sound(k', r', heard', TRUE), Reading(k', {})
  PROVE  IInv'
<1>1. (mode' = "run") = TRUE
  OBVIOUS
<1>2. Sound(k', r', heard', (mode' = "run"))
  BY <1>1
<1> QED BY <1>2, Assembled

LEMMA FrameSound ==
  ASSUME NEW m, NEW q, NEW h, NEW run, Sound(m, q, h, run), NEW q2, RingSound(q2), \A c : Frame(q, q2, c)
  PROVE  Sound(m, q2, h, run)
<1>1. \A c \in Conn : ConnSound(m[c], c, q2, h[c], run)
  BY ConnFrame DEF Sound
<1> QED BY <1>1 DEF Sound

\* One connection's flags that the books do not tell, and the rings, changed.
LEMMA AsideSound ==
  ASSUME NEW m, NEW q, NEW h, NEW run, Sound(m, q, h, run), NEW q2, RingSound(q2),
         \A d : Frame(q, q2, d), NEW c \in Conn, NEW y \in Connections, SameBooks(m[c], y),
         y.st = m[c].st, y.mate = m[c].mate, m[c].st # "none"
  PROVE  Sound([m EXCEPT ![c] = y], q2, h, run)
<1>1. ConnSound(m[c], c, q, h[c], run) /\ Paired(m)
  BY DEF Sound
<1>2. ConnSound(m[c], c, q2, h[c], run)
  BY <1>1, ConnFrame
<1>3. ConnSound(y, c, q2, h[c], run)
  BY <1>2, SameBooksSound
<1>4. y.mate # None => y.st = "live"
  BY <1>1 DEF Paired
<1>5. \A d \in Conn \ {c} : Frame(q, q2, d) /\ h[d] = h[d]
  OBVIOUS
<1> QED BY <1>3, <1>4, <1>5, OneSound

LEMMA CloseConnKeeps ==
  ASSUME IInv, NEW c \in Conn, CloseConn(c) PROVE IInv' /\ Steady
<1> DEFINE s == Now
<1>1. s.k = k /\ s.r = r
  BY DEF Now
<1>2. /\ Sound(k, r, heard, TRUE) /\ heard \in [Conn -> Seq(Nat)] /\ stop \in SUBSET Conn
      /\ Reading(k, {}) /\ mode = "run" /\ k[c].st = "live"
      /\ mode' = mode /\ stop' = stop /\ heard' = heard
  BY Disassembled DEF CloseConn
<1>3. PICK t \in Close(s, c) : k' = t.k /\ r' = t.r
  BY DEF CloseConn, Becomes
<1> HIDE DEF s
<1>4. Sound(t.k, t.r, heard, TRUE) /\ Fewer(s.k, t.k) /\ t.k[c].st # "live"
  BY <1>1, <1>2, CloseSound
<1>5. Reading(s.k, {c})
  BY <1>1, <1>2 DEF Reading
<1>6. Reading(t.k, {})
  BY <1>4, <1>5, FewerRead
<1>7. Steady
  BY <1>1, <1>3, <1>4, StillSteady DEF Fewer
<1> QED BY <1>2, <1>3, <1>4, <1>6, <1>7, RunKeeps

\* Paused set, and the pauses counted.
Pausing(x, b, n) == [x EXCEPT !.pauses = n, !.paused = b]

Aside(x, y) == SameBooks(x, y) /\ y.st = x.st /\ y.mate = x.mate

LEMMA PausingFields ==
  ASSUME NEW x \in Connections, NEW b \in BOOLEAN, NEW n \in Nat
  PROVE  Pausing(x, b, n) \in Connections /\ Aside(x, Pausing(x, b, n)) /\ Pausing(x, b, n).paused = b
BY DEF Pausing, Connections, SameBooks, Aside

LEMMA SetReadKeeps ==
  ASSUME IInv, NEW c \in Conn, SetRead(c) PROVE IInv' /\ Steady
<1> DEFINE x == k[c]
<1>1. /\ Sound(k, r, heard, TRUE) /\ heard \in [Conn -> Seq(Nat)] /\ stop \in SUBSET Conn
      /\ Reading(k, {}) /\ mode = "run" /\ x.st = "live" /\ x.connected
      /\ k \in [Conn -> Connections] /\ RingSound(r) /\ x \in Connections
      /\ mode' = mode /\ stop' = stop /\ heard' = heard
  BY Disassembled DEF SetRead
<1>n. x.pauses \in Nat /\ x.pauses + 1 \in Nat
  BY <1>1, ConnTypes
<1>2. PICK t \in (IF x.paused THEN Resumes(c) ELSE Pauses(c)) : k' = t.k /\ r' = t.r
  BY DEF SetRead, Becomes
<1>f. \A d : Frame(r, r, d)
  BY Zenon DEF Frame
<1>3. CASE x.paused
  <2> DEFINE y == Pausing(x, FALSE, x.pauses)
             s == [Now EXCEPT !.k[c].paused = FALSE]
  <2>1. [x EXCEPT !.paused = FALSE] = y
    BY <1>1 DEF Pausing, Connections
  <2>2. t \in IF x.armed THEN {s} ELSE ArmRecv(s, c)
    BY <1>2, <1>3 DEF Resumes
  <2>r. s.k = [k EXCEPT ![c] = [x EXCEPT !.paused = FALSE]] /\ s.r = r
    BY DEF Now
  <2>s. s.k = [k EXCEPT ![c] = y] /\ s.r = r
    BY <2>1, <2>r
  <2>3. /\ y \in Connections /\ SameBooks(x, y) /\ y.st = x.st /\ y.mate = x.mate
        /\ y.armed = x.armed /\ y.connected = x.connected
    <3>1. y \in Connections /\ Aside(x, y)
      BY <1>1, <1>n, PausingFields
    <3> QED BY <3>1 DEF Aside, SameBooks
  <2> HIDE DEF y, s
  <2>4. Sound(s.k, s.r, heard, TRUE)
    <3>1. Sound([k EXCEPT ![c] = y], r, heard, TRUE)
      BY <1>1, <1>f, <2>3, AsideSound
    <3> QED BY <3>1, <2>s
  <2>5. s.k[c] = y /\ \A e \in Conn \ {c} : s.k[e] = k[e]
    BY <1>1, <2>s
  <2>6. Reading(s.k, {c}) /\ (x.armed => Reading(s.k, {}))
    BY <1>1, <2>3, <2>5 DEF Reading
  <2>still. Still(k, s.k)
    <3>1. StillAt(x, y)
      BY <2>3, <1>1, ConnTypes DEF SameBooks, StillAt
    <3>2. Alone(k, s.k, c)
      BY <2>5 DEF Alone
    <3> QED BY <3>1, <3>2, <2>5, <1>1, StillOne
  <2>7. Sound(t.k, t.r, heard, TRUE) /\ Reading(t.k, {}) /\ Still(s.k, t.k)
    <3>1. CASE x.armed
      <4>1. Still(s.k, s.k)
        BY <2>4, ConnTypes DEF Still, StillAt, Sound
      <4> QED BY <4>1, <3>1, <2>2, <2>4, <2>6
    <3>2. CASE ~x.armed
      <4>1. t \in ArmRecv(s, c) /\ s.k[c].st = "live" /\ s.k[c].connected /\ ~s.k[c].armed
        BY <3>2, <1>1, <2>2, <2>3, <2>5
      <4> QED BY <4>1, <1>1, <2>4, <2>6, ArmSound
    <3> QED BY <3>1, <3>2
  <2>8. Steady
    <3>1. Still(k, t.k)
      BY <2>still, <2>7, StillTwice
    <3> QED BY <3>1, <1>2, StillSteady
  <2> QED BY <1>1, <1>2, <2>7, <2>8, RunKeeps
<1>4. CASE ~x.paused
  <2>1. PICK b \in BOOLEAN, q \in {r, t.r} :
          /\ t.k = [k EXCEPT ![c] = Pausing(x, b, x.pauses + 1)] /\ t.r = q
          /\ RingSound(q) /\ (\A d : Frame(r, q, d)) /\ (b \/ x.armed)
    <3> DEFINE m == [k EXCEPT ![c].pauses = @ + 1]
    <3>1. t \in Pauses(c)
      BY <1>2, <1>4
    <3>2. ASSUME NEW b \in BOOLEAN
          PROVE  [m EXCEPT ![c].paused = b] = [k EXCEPT ![c] = Pausing(x, b, x.pauses + 1)]
      <4>1. m = [k EXCEPT ![c] = [x EXCEPT !.pauses = x.pauses + 1]]
        BY <1>1
      <4>2. m[c] = [x EXCEPT !.pauses = x.pauses + 1]
        BY <4>1, <1>1
      <4>3. [m[c] EXCEPT !.paused = b] = Pausing(x, b, x.pauses + 1)
        BY <4>2 DEF Pausing
      <4>4. [m EXCEPT ![c].paused = b] = [m EXCEPT ![c] = [m[c] EXCEPT !.paused = b]]
        OBVIOUS
      <4> QED BY <4>1, <4>3, <4>4, <1>1
    <3>3. CASE ~x.armed
      <4>1. t.k = [m EXCEPT ![c].paused = TRUE] /\ t.r = r
        BY <3>1, <3>3 DEF Pauses
      <4>2. t.k = [k EXCEPT ![c] = Pausing(x, TRUE, x.pauses + 1)]
        BY <4>1, <3>2
      <4> QED BY <4>1, <4>2, <1>1, <1>f
    <3>4. CASE x.armed
      <4>1. PICK p \in Puts(r, Op("cancelRecv", x, c)) : t = [k |-> [m EXCEPT ![c].paused = p.ok], r |-> p.r]
        BY <3>1, <3>4 DEF Pauses
      <4>2. Op("cancelRecv", x, c) \in Entries /\ Op("cancelRecv", x, c).op \in Cancels
        BY <1>1 DEF Op, Entries, Cancels, Connections
      <4>3. RingSound(p.r) /\ (\A d : Frame(r, p.r, d)) /\ p.ok \in BOOLEAN
        BY <1>1, <4>2, PutCancel
      <4>4. t.k = [m EXCEPT ![c].paused = p.ok] /\ t.r = p.r
        BY <4>1
      <4>5. t.k = [k EXCEPT ![c] = Pausing(x, p.ok, x.pauses + 1)]
        BY <4>3, <4>4, <3>2
      <4> QED BY <3>4, <4>3, <4>4, <4>5
    <3> QED BY <3>3, <3>4
  <2> DEFINE y == Pausing(x, b, x.pauses + 1)
  <2>k. t.k = [k EXCEPT ![c] = y]
    BY <2>1
  <2>2. /\ y \in Connections /\ SameBooks(x, y) /\ y.st = x.st /\ y.mate = x.mate
        /\ y.armed = x.armed /\ y.connected = x.connected /\ y.paused = b
    <3>1. y \in Connections /\ Aside(x, y) /\ y.paused = b
      BY <1>1, <1>n, PausingFields
    <3> QED BY <3>1 DEF Aside, SameBooks
  <2> HIDE DEF y
  <2>3. Sound([k EXCEPT ![c] = y], q, heard, TRUE)
    BY <1>1, <2>1, <2>2, AsideSound
  <2>4. Sound(t.k, t.r, heard, TRUE)
    BY <2>1, <2>3, <2>k
  <2>5. t.k[c] = y /\ \A e \in Conn \ {c} : t.k[e] = k[e]
    BY <1>1, <2>k
  <2>6. Reading(t.k, {})
    BY <1>1, <2>1, <2>2, <2>5 DEF Reading
  <2>7. Steady
    <3>1. StillAt(x, y)
      BY <2>2, <1>1, ConnTypes DEF SameBooks, StillAt
    <3>2. Alone(k, t.k, c)
      BY <2>5 DEF Alone
    <3>3. Still(k, t.k)
      BY <3>1, <3>2, <2>5, <1>1, StillOne
    <3> QED BY <3>3, <1>2, StillSteady
  <2> QED BY <1>1, <1>2, <2>4, <2>6, <2>7, RunKeeps
<1> QED BY <1>3, <1>4

LEMMA EnterKeeps ==
  ASSUME IInv, Enter PROVE IInv'
<1> DEFINE run == mode = "run"
<1>1. /\ Sound(k, r, heard, run) /\ RingSound(r) /\ heard \in [Conn -> Seq(Nat)] /\ stop \in SUBSET Conn
      /\ mode \in {"run", "drain"} /\ (mode = "run" => Reading(k, {}))
  BY Disassembled DEF Enter
<1>2. k' = k /\ mode' = mode /\ stop' = stop /\ heard' = heard /\ r' \in Flush(r)
  BY DEF Enter
<1>3. RingSound(r') /\ \A c : Frame(r, r', c)
  BY <1>1, <1>2, Flushed
<1> HIDE DEF run
<1>4. Sound(k, r', heard, run)
  BY <1>1, <1>3, FrameSound
<1>5. Sound(k', r', heard', run)
  BY <1>2, <1>4
<1> QED BY <1>1, <1>2, <1>5, Assembled DEF run

LEMMA StopConnKeeps ==
  ASSUME IInv, NEW c \in Conn, StopConn(c) PROVE IInv'
<1> DEFINE run == mode = "run"
<1>1. /\ Sound(k, r, heard, run) /\ RingSound(r) /\ heard \in [Conn -> Seq(Nat)] /\ stop \in SUBSET Conn
      /\ mode \in {"run", "drain", "ended", "quit"} /\ (mode = "run" => Reading(k, {}))
      /\ k \in [Conn -> Connections] /\ k[c] \in Connections
  BY Disassembled
<1>2. /\ k' = k /\ mode' = mode /\ stop' = stop \ {c} /\ heard' = heard
      /\ r' \in SubmitCancel(r, k[c], c)
  BY DEF StopConn
<1>3. RingSound(r') /\ \A d : Frame(r, r', d)
  BY <1>1, <1>2, CancelSound
<1>e. mode' = "ended" => \A d \in Conn : k'[d].inflight = 0
  BY <1>2 DEF IInv
<1> HIDE DEF run
<1>4. Sound(k, r', heard, run)
  BY <1>1, <1>3, FrameSound
<1>5. Sound(k', r', heard', run)
  BY <1>2, <1>4
<1> QED BY <1>1, <1>2, <1>5, <1>e, Assembled DEF run

LEMMA NotRunning ==
  ASSUME NEW m, NEW q, NEW h, NEW run, Sound(m, q, h, run)
  PROVE  Sound(m, q, h, FALSE)
<1>1. \A c \in Conn : ConnSound(m[c], c, q, h[c], FALSE)
  BY DEF Sound, ConnSound, InStep
<1> QED BY <1>1 DEF Sound

LEMMA ModeKeeps ==
  ASSUME IInv, BeginDrain \/ EndDrain \/ QuitDrain PROVE IInv'
<1>1. /\ Sound(k, r, heard, (mode = "run")) /\ heard \in [Conn -> Seq(Nat)] /\ stop \in SUBSET Conn
      /\ k \in [Conn -> Connections]
  BY Disassembled
<1>2. k' = k /\ r' = r /\ heard' = heard /\ mode' \in {"drain", "ended", "quit"} /\ stop' \in SUBSET Conn
  BY <1>1 DEF BeginDrain, EndDrain, QuitDrain, ToStop
<1>3. Sound(k, r, heard, FALSE)
  BY <1>1, NotRunning
<1>4. (mode' = "run") = FALSE
  BY <1>2
<1>5. Sound(k', r', heard', (mode' = "run"))
  BY <1>2, <1>3, <1>4
<1>6. mode' = "ended" => \A c \in Conn : k'[c].inflight = 0
  <2>1. ASSUME mode' = "ended", NEW c \in Conn PROVE k[c].inflight = 0
    <3>1. InFlight = {}
      BY <2>1 DEF BeginDrain, EndDrain, QuitDrain
    <3>2. k[c].inflight \in Nat
      BY <1>1, ConnTypes
    <3> QED BY <3>1, <3>2 DEF InFlight
  <2> QED BY <2>1, <1>2
<1> QED BY <1>1, <1>2, <1>4, <1>5, <1>6, Assembled

-----------------------------------------------------------------------------
(* A byte staged, a connection opened.                                     *)

StagedTo(staged, f, o, b, pinned, h, a) ==
  Numbered(staged + 1, f, o, b, pinned) /\ AheadOf(staged + 1, f, o, b, h) = a

LEMMA StagedBehind ==
  ASSUME NEW staged \in Nat, NEW front \in Seq(Nat), NEW back \in Seq(Nat), NEW off \in Nat,
         NEW h \in Seq(Nat), NEW a, Numbered(staged, front, off, back, TRUE),
         a = AheadOf(staged, front, off, back, h)
  PROVE  StagedTo(staged, front, off, Append(back, staged + 1), TRUE, h, a)
<1> DEFINE new == Append(back, staged + 1)
<1>1. /\ Len(front) \in Nat /\ Len(back) \in Nat /\ Len(h) \in Nat
      /\ Len(new) = Len(back) + 1 /\ new[Len(back) + 1] = staged + 1
      /\ \A i \in 1..Len(back) : new[i] = back[i]
  OBVIOUS
<1> HIDE DEF new
<1>2. \A i \in 1..Len(new) : new[i] = (staged + 1) - Len(new) + i
  <2> TAKE i \in 1..Len(new)
  <2>1. CASE i \in 1..Len(back)
    <3>1. new[i] = staged - Len(back) + i
      BY <2>1, <1>1 DEF Numbered
    <3> QED BY <3>1, <1>1
  <2>2. CASE i = Len(back) + 1
    BY <2>2, <1>1
  <2> QED BY <2>1, <2>2, <1>1
<1>3. /\ off <= Len(front) /\ Len(front) + Len(new) <= staged + 1
      /\ \A i \in 1..Len(front) : front[i] = (staged + 1) - Len(front) - Len(new) + i
  BY <1>1 DEF Numbered
<1>4. Numbered(staged + 1, front, off, new, TRUE)
  BY <1>2, <1>3 DEF Numbered
<1>5. AheadOf(staged + 1, front, off, new, h) = a
  BY <1>1 DEF AheadOf
<1> QED BY <1>4, <1>5 DEF StagedTo, new

LEMMA StagedAfter ==
  ASSUME NEW staged \in Nat, NEW front \in Seq(Nat), NEW back, NEW off \in Nat,
         NEW h \in Seq(Nat), NEW a, Numbered(staged, front, off, back, FALSE),
         a = AheadOf(staged, front, off, back, h)
  PROVE  StagedTo(staged, Append(front, staged + 1), off, back, FALSE, h, a)
<1> DEFINE new == Append(front, staged + 1)
<1>b. back = <<>> /\ Len(back) = 0
  <2>1. Len(<<>>) = 0
    OBVIOUS
  <2> QED BY <2>1 DEF Numbered
<1>1. /\ Len(front) \in Nat /\ Len(h) \in Nat
      /\ Len(new) = Len(front) + 1 /\ new[Len(front) + 1] = staged + 1
      /\ \A i \in 1..Len(front) : new[i] = front[i]
  OBVIOUS
<1> HIDE DEF new
<1>2. \A i \in 1..Len(new) : new[i] = (staged + 1) - Len(new) - Len(back) + i
  <2> TAKE i \in 1..Len(new)
  <2>1. CASE i \in 1..Len(front)
    <3>1. new[i] = staged - Len(front) - Len(back) + i
      BY <2>1, <1>1 DEF Numbered
    <3> QED BY <3>1, <1>1, <1>b
  <2>2. CASE i = Len(front) + 1
    BY <2>2, <1>1, <1>b
  <2> QED BY <2>1, <2>2, <1>1
<1>3. off <= Len(new) /\ Len(new) + Len(back) <= staged + 1
  BY <1>1, <1>b DEF Numbered
<1>4. \A i \in 1..Len(back) : back[i] = (staged + 1) - Len(back) + i
  BY <1>b
<1>5. Numbered(staged + 1, new, off, back, FALSE)
  BY <1>b, <1>2, <1>3, <1>4 DEF Numbered
<1>6. AheadOf(staged + 1, new, off, back, h) = a
  BY <1>1, <1>b DEF AheadOf
<1> QED BY <1>5, <1>6 DEF StagedTo, new

LEMMA StagedFirst ==
  ASSUME NEW staged \in Nat, NEW front \in Seq(Nat), NEW back, NEW off \in Nat,
         NEW h \in Seq(Nat), NEW a, Numbered(staged, front, off, back, FALSE),
         a = AheadOf(staged, front, off, back, h), off = Len(front)
  PROVE  StagedTo(staged, <<staged + 1>>, 0, back, FALSE, h, a)
<1> DEFINE new == <<staged + 1>>
<1>b. back = <<>> /\ Len(back) = 0
  <2>1. Len(<<>>) = 0
    OBVIOUS
  <2> QED BY <2>1 DEF Numbered
<1>1. Len(h) \in Nat /\ Len(new) = 1 /\ new[1] = staged + 1
  OBVIOUS
<1> HIDE DEF new
<1>2. \A i \in 1..Len(new) : new[i] = (staged + 1) - Len(new) - Len(back) + i
  BY <1>1, <1>b
<1>3. 0 <= Len(new) /\ Len(new) + Len(back) <= staged + 1
  BY <1>1, <1>b
<1>4. \A i \in 1..Len(back) : back[i] = (staged + 1) - Len(back) + i
  BY <1>b
<1>5. Numbered(staged + 1, new, 0, back, FALSE)
  BY <1>b, <1>2, <1>3, <1>4 DEF Numbered
<1>6. AheadOf(staged + 1, new, 0, back, h) = a
  <2>1. AheadOf(staged + 1, new, 0, back, h) = Len(h) - staged
    BY <1>1, <1>b DEF AheadOf
  <2>2. a = Len(h) - staged
    <3>1. Len(front) \in Nat
      OBVIOUS
    <3> QED BY <3>1, <1>1, <1>b DEF AheadOf
  <2> QED BY <2>1, <2>2, <1>1
<1> QED BY <1>5, <1>6 DEF StagedTo, new

\* The buffer and the count set, nothing else.
Staged(x, f, o, b) == [x EXCEPT !.front = f, !.off = o, !.back = b, !.staged = x.staged + 1]

\* Everything but the buffer and the count.
Unstaged(x, y) ==
  /\ y.st = x.st /\ y.g = x.g /\ y.inflight = x.inflight /\ y.armed = x.armed
  /\ y.paused = x.paused /\ y.connected = x.connected /\ y.mate = x.mate /\ y.pinned = x.pinned

Unmoved(x, y) == x.pinned => y.front = x.front /\ y.off = x.off

Holds(y, f, o, b, n) == y.front = f /\ y.off = o /\ y.back = b /\ y.staged = n

LEMMA StagedFields ==
  ASSUME NEW x \in Connections, NEW f \in Seq(Nat), NEW o \in Nat, NEW b \in Seq(Nat),
         NEW y, y = Staged(x, f, o, b)
  PROVE  y \in Connections /\ Unstaged(x, y) /\ Holds(y, f, o, b, x.staged + 1)
<1>1. x.staged + 1 \in Nat
  BY ConnTypes
<1>2. y \in Connections
  BY <1>1 DEF Connections, Staged
<1>3. Unstaged(x, y)
  BY DEF Connections, Unstaged, Staged
<1>4. Holds(y, f, o, b, x.staged + 1)
  BY DEF Connections, Holds, Staged
<1> QED BY <1>2, <1>3, <1>4

\* Nothing is sent on a connection that is not pinned.
LEMMA Unsending ==
  ASSUME NEW q, NEW c, ~Out(q, c, "send")
  PROVE  \A u, a : Sending(q, c, u, a)
<1>1. ~OutIn(Work(q), q.cq, c, "send")
  BY DEF Out
<1>2. \A i \in DOMAIN q.cq : q.cq[i].op = "send" => ~Continues(q.cq[i])
  BY DEF Continues
<1> QED BY <1>1, <1>2 DEF OutIn, Sending, SendingIn

LEMMA StageSound ==
  ASSUME NEW x \in Connections, NEW c, NEW q, NEW h \in Seq(Nat), NEW run, ConnSound(x, c, q, h, run),
         x.st = "live", NEW y, y = [Stage(x, x.staged + 1) EXCEPT !.staged = x.staged + 1]
  PROVE  /\ y \in Connections /\ Unstaged(x, y) /\ ConnSound(y, c, q, h, run)
         /\ Unmoved(x, y)
<1> DEFINE front == x.front
           back  == x.back
           off   == x.off
           staged == x.staged
           pinned == x.pinned
           a == Ahead(x, h)
<1>1. /\ front \in Seq(Nat) /\ back \in Seq(Nat) /\ off \in Nat /\ staged \in Nat
      /\ pinned \in BOOLEAN
  BY ConnTypes
<1>h. /\ Numbered(staged, front, off, back, pinned) /\ a = AheadOf(staged, front, off, back, h)
      /\ Booked(x, c, q) /\ InStep(x, c, q, h, run)
  BY DEF Ahead, ConnSound, InStep
<1>2. y = IF pinned THEN Staged(x, front, off, Append(back, staged + 1))
          ELSE IF off # 0 /\ off = Len(front) THEN Staged(x, <<staged + 1>>, 0, back)
          ELSE Staged(x, Append(front, staged + 1), off, back)
  <2>1. CASE pinned
    BY <2>1 DEF Stage, Staged, Connections
  <2>2. CASE ~pinned /\ off # 0 /\ off = Len(front)
    BY <2>2 DEF Stage, Staged, Connections
  <2>3. CASE ~pinned /\ ~(off # 0 /\ off = Len(front))
    BY <2>3 DEF Stage, Staged, Connections
  <2> QED BY <2>1, <2>2, <2>3
<1>s. x.staged = staged /\ x.pinned = pinned
  OBVIOUS
<1>u. Unsent(x) = Len(front) - off /\ Ahead(x, h) = a
  BY DEF Unsent
<1> HIDE DEF front, back, off, staged, pinned, a
<1>3. ASSUME NEW f \in Seq(Nat), NEW o \in Nat, NEW b \in Seq(Nat), y = Staged(x, f, o, b),
             StagedTo(staged, f, o, b, pinned, h, a), (f = front /\ o = off) \/ ~pinned
      PROVE  /\ y \in Connections /\ Unstaged(x, y) /\ ConnSound(y, c, q, h, run)
             /\ Unmoved(x, y)
  <2>1. y \in Connections /\ Unstaged(x, y) /\ Holds(y, f, o, b, x.staged + 1)
    BY <1>3, StagedFields
  <2>2. y.front = f /\ y.off = o /\ y.back = b /\ y.staged = staged + 1 /\ y.pinned = pinned
    BY <2>1, <1>s DEF Holds, Unstaged
  <2>3. Numbered(y.staged, y.front, y.off, y.back, y.pinned) /\ Ahead(y, h) = a
    BY <1>3, <2>2 DEF Ahead, StagedTo
  <2>4. Booked(y, c, q)
    BY <1>h, <2>1 DEF Booked, Unstaged
  <2>5. Sending(q, c, Unsent(y), Ahead(y, h))
    <3>1. CASE f = front /\ o = off
      <4>1. Unsent(y) = Unsent(x)
        BY <3>1, <2>2, <1>u DEF Unsent
      <4> QED BY <4>1, <2>3, <1>h, <1>u DEF InStep
    <3>2. CASE ~pinned
      <4>1. ~Out(q, c, "send")
        BY <3>2, <1>h, <1>s DEF Booked
      <4> QED BY <4>1, Unsending
    <3> QED BY <3>1, <3>2, <1>3
  <2>6. InStep(y, c, q, h, run)
    <3>1. run /\ y.st = "live" /\ ~y.pinned => Ahead(y, h) = 0
      BY <1>h, <1>s, <1>u, <2>1, <2>2, <2>3 DEF InStep, Unstaged
    <3> QED BY <3>1, <2>3, <2>5, <1>h DEF InStep
  <2>7. Unmoved(x, y)
    BY <2>2, <1>3 DEF Unmoved, pinned, front, off
  <2> QED BY <2>1, <2>4, <2>6, <2>7 DEF ConnSound
<1>4. CASE pinned
  <2>0. pinned = TRUE
    BY <1>1, <1>4
  <2>1. StagedTo(staged, front, off, Append(back, staged + 1), TRUE, h, a)
    BY <1>1, <1>h, <2>0, StagedBehind
  <2>2. y = Staged(x, front, off, Append(back, staged + 1))
    BY <1>2, <1>4
  <2>3. Append(back, staged + 1) \in Seq(Nat)
    <3>1. staged + 1 \in Nat
      BY <1>1
    <3> QED BY <3>1, <1>1
  <2> QED BY <2>0, <2>1, <2>2, <2>3, <1>1, <1>3
<1>5. CASE ~pinned /\ off # 0 /\ off = Len(front)
  <2>0. pinned = FALSE
    BY <1>1, <1>5
  <2>1. StagedTo(staged, <<staged + 1>>, 0, back, FALSE, h, a)
    BY <1>1, <1>h, <1>5, <2>0, StagedFirst
  <2>2. y = Staged(x, <<staged + 1>>, 0, back)
    BY <1>2, <1>5
  <2>3. <<staged + 1>> \in Seq(Nat) /\ 0 \in Nat
    <3>1. staged + 1 \in Nat
      BY <1>1
    <3> QED BY <3>1, <1>1
  <2> QED BY <2>0, <2>1, <2>2, <2>3, <1>1, <1>3, <1>5
<1>6. CASE ~pinned /\ ~(off # 0 /\ off = Len(front))
  <2>0. pinned = FALSE
    BY <1>1, <1>6
  <2>1. StagedTo(staged, Append(front, staged + 1), off, back, FALSE, h, a)
    BY <1>1, <1>h, <2>0, StagedAfter
  <2>2. y = Staged(x, Append(front, staged + 1), off, back)
    BY <1>2, <1>6
  <2>3. Append(front, staged + 1) \in Seq(Nat)
    <3>1. staged + 1 \in Nat
      BY <1>1
    <3> QED BY <3>1, <1>1
  <2> QED BY <2>0, <2>1, <2>2, <2>3, <1>1, <1>3, <1>6
<1> QED BY <1>4, <1>5, <1>6

LEMMA StageAndSendKeeps ==
  ASSUME IInv, NEW c \in Conn, StageAndSend(c) PROVE IInv' /\ Steady
<1> DEFINE x == k[c]
           y == [Stage(x, x.staged + 1) EXCEPT !.staged = x.staged + 1]
           s == [Now EXCEPT !.k[c] = y]
<1>1. /\ Sound(k, r, heard, TRUE) /\ heard \in [Conn -> Seq(Nat)] /\ stop \in SUBSET Conn
      /\ Reading(k, {}) /\ mode = "run" /\ x.st = "live" /\ x.connected
      /\ k \in [Conn -> Connections] /\ RingSound(r) /\ x \in Connections /\ heard[c] \in Seq(Nat)
      /\ mode' = mode /\ stop' = stop /\ heard' = heard
  BY Disassembled DEF StageAndSend
<1>2. PICK t \in Send(s, c) : k' = t.k /\ r' = t.r
  BY DEF StageAndSend, Becomes
<1>3. s.k = [k EXCEPT ![c] = y] /\ s.r = r
  BY DEF Now
<1>4. ConnSound(x, c, r, heard[c], TRUE) /\ Paired(k)
  BY <1>1 DEF Sound
<1>y. y = [Stage(x, x.staged + 1) EXCEPT !.staged = x.staged + 1]
  OBVIOUS
<1> HIDE DEF y, s, x
<1>5. /\ y \in Connections /\ Unstaged(x, y) /\ ConnSound(y, c, r, heard[c], TRUE)
      /\ Unmoved(x, y)
  <2> DEFINE run == TRUE
             h == heard[c]
  <2>1. ConnSound(x, c, r, h, run) /\ h \in Seq(Nat)
    BY <1>1, <1>4
  <2> HIDE DEF run, h
  <2>2. /\ y \in Connections /\ Unstaged(x, y) /\ ConnSound(y, c, r, h, run)
        /\ Unmoved(x, y)
    BY ZenonT(60), <1>1, <1>y, <2>1, StageSound
  <2> QED BY <2>2 DEF run, h
<1>6. y.st = "live" /\ y.mate = x.mate /\ y.connected /\ y.armed = x.armed /\ y.paused = x.paused
  BY <1>1, <1>5 DEF Unstaged
<1>7. Sound([k EXCEPT ![c] = y], r, heard, TRUE)
  <2>1. \A d \in Conn \ {c} : Frame(r, r, d) /\ heard[d] = heard[d]
    BY Zenon DEF Frame
  <2> QED BY <2>1, <1>1, <1>5, <1>6, OneSound DEF x
<1>8. Sound(s.k, s.r, heard, TRUE)
  BY <1>3, <1>7
<1>9. s.k[c] = y /\ \A e \in Conn \ {c} : s.k[e] = k[e]
  BY <1>1, <1>3
<1>10. Reading(s.k, {})
  BY <1>1, <1>6, <1>9 DEF Reading, x
<1>11. Sound(t.k, t.r, heard, TRUE) /\ Reading(t.k, {}) /\ Still(s.k, t.k)
  <2>1. CASE t = s
    <3>1. Still(s.k, s.k)
      BY <1>8, ConnTypes DEF Still, StillAt, Sound
    <3> QED BY <3>1, <2>1, <1>8, <1>10
  <2>2. CASE t \in SubmitSend(s, c) /\ ~s.k[c].pinned
    <3>1. s.k[c].st = "live" /\ s.k[c].connected
      BY <1>6, <1>9
    <3> QED BY <3>1, <2>2, <1>1, <1>8, <1>10, SendSound
  <2> QED BY <2>1, <2>2, <1>2 DEF Send
<1>12. Steady
  <2> SUFFICES ASSUME NEW e \in Conn, k[e].pinned PROVE StillAt(k[e], k'[e])
    BY DEF Steady
  <2>1. StillAt(k[e], s.k[e])
    <3>1. CASE e = c
      BY <3>1, <1>1, <1>5, <1>9, ConnTypes DEF StillAt, Unmoved, Unstaged, x
    <3>2. CASE e # c
      BY <3>2, <1>1, <1>9, ConnTypes DEF StillAt
    <3> QED BY <3>1, <3>2
  <2>2. StillAt(s.k[e], t.k[e])
    BY <1>11 DEF Still
  <2> QED BY <2>1, <2>2, <1>2 DEF StillAt
<1> QED BY <1>1, <1>2, <1>11, <1>12, RunKeeps

LEMMA EmptySlot ==
  ASSUME NEW x \in Connections, NEW c, NEW q, NEW h, NEW run, ConnSound(x, c, q, h, run), x.st = "none"
  PROVE  /\ \A op \in Kinds : ~Out(q, c, op)
         /\ x = Vacant(x.g) /\ OfGen(q, c, x.g) /\ x.g \in Nat /\ x.mate = None
<1>1. Booked(x, c, q)
  BY DEF ConnSound
<1>2. x = Vacant(x.g) /\ OfGen(q, c, x.g) /\ x.g \in Nat
  BY <1>1, ConnTypes DEF Booked
<1>3. x.inflight = 0 /\ x.mate = None
  BY <1>2 DEF Vacant
<1>4. ASSUME NEW op \in Kinds, Out(q, c, op) PROVE FALSE
  <2>1. x.inflight >= 1
    BY <1>1, <1>4, OutCounted
  <2> QED BY <2>1, <1>3
<1> QED BY <1>2, <1>3, <1>4

LEMMA AcceptKeeps ==
  ASSUME IInv, NEW c \in Conn, Accept(c) PROVE IInv' /\ Steady
<1> DEFINE x == k[c]
           g == x.g
           y == [[x EXCEPT !.st = "live"] EXCEPT !.connected = TRUE]
           s == [Now EXCEPT !.k[c].st = "live", !.k[c].connected = TRUE]
           h == [heard EXCEPT ![c] = <<>>]
<1>1. /\ Sound(k, r, heard, TRUE) /\ heard \in [Conn -> Seq(Nat)] /\ stop \in SUBSET Conn
      /\ Reading(k, {}) /\ mode = "run" /\ x.st = "none"
      /\ k \in [Conn -> Connections] /\ RingSound(r) /\ x \in Connections
      /\ mode' = mode /\ stop' = stop /\ heard' = h
  BY Disassembled DEF Accept
<1>2. PICK t \in ArmRecv(s, c) : k' = t.k /\ r' = t.r
  BY DEF Accept, Becomes
<1>3. s.k = [k EXCEPT ![c] = y] /\ s.r = r
  <2>1. s.k = [k EXCEPT ![c].st = "live", ![c].connected = TRUE] /\ s.r = r
    BY DEF Now
  <2> QED BY <2>1, <1>1
<1>4. ConnSound(x, c, r, heard[c], TRUE)
  BY <1>1 DEF Sound
<1>5. /\ \A op \in Kinds : ~Out(r, c, op)
      /\ x = Vacant(g) /\ OfGen(r, c, g) /\ g \in Nat
  BY <1>1, <1>4, EmptySlot
<1>v. ~x.pinned
  <2> HIDE DEF x, g
  <2> QED BY <1>5 DEF Vacant
<1>6. /\ h \in [Conn -> Seq(Nat)] /\ h[c] = <<>> /\ \A d \in Conn \ {c} : h[d] = heard[d]
  <2>1. <<>> \in Seq(Nat)
    OBVIOUS
  <2> QED BY <2>1, <1>1
<1>7. /\ y \in Connections /\ y.st = "live" /\ y.connected /\ y.g = g /\ y.inflight = 0
      /\ y.armed = FALSE /\ y.pinned = FALSE /\ y.mate = None /\ y.mate = x.mate /\ y.front = <<>>
      /\ y.off = 0 /\ y.back = <<>> /\ y.staged = 0
  <2>1. y \in Connections
    BY <1>1 DEF Connections
  <2>2. /\ x.inflight = 0 /\ x.armed = FALSE /\ x.pinned = FALSE /\ x.mate = None
        /\ x.front = <<>> /\ x.off = 0 /\ x.back = <<>> /\ x.staged = 0
    <3> HIDE DEF x, g
    <3> QED BY <1>5 DEF Vacant
  <2> QED BY <1>1, <2>1, <2>2 DEF Connections
<1> HIDE DEF y, s, h, x, g
<1>8. ConnSound(y, c, r, <<>>, TRUE)
  <2>1. Len(<<>>) = 0
    OBVIOUS
  <2>2. B(y.armed) = 0 /\ B(y.pinned) = 0 /\ B(Out(r, c, "connect")) = 0
    BY <1>5, <1>7 DEF B, Kinds
  <2>3. Booked(y, c, r)
    BY <1>5, <1>7, <2>2 DEF Booked, Kinds
  <2>4. Numbered(y.staged, y.front, y.off, y.back, y.pinned)
    BY <1>7, <2>1 DEF Numbered
  <2>5. Ahead(y, <<>>) = 0 /\ Counts(<<>>)
    BY <1>7, <2>1 DEF Ahead, AheadOf, Counts
  <2>6. Sending(r, c, Unsent(y), Ahead(y, <<>>))
    BY <1>5, Unsending DEF Kinds
  <2>7. InStep(y, c, r, <<>>, TRUE)
    BY <2>4, <2>5, <2>6 DEF InStep
  <2> QED BY <2>3, <2>7 DEF ConnSound
<1>9. Sound([k EXCEPT ![c] = y], r, h, TRUE)
  <2>1. \A d \in Conn \ {c} : Frame(r, r, d) /\ h[d] = heard[d]
    BY <1>6, Zenon DEF Frame
  <2>2. ConnSound(y, c, r, h[c], TRUE)
    BY <1>6, <1>8
  <2> QED BY ZenonT(60), <2>1, <2>2, <1>1, <1>7, OneSound DEF x
<1>10. Sound(s.k, s.r, h, TRUE)
  BY <1>3, <1>9
<1>11. s.k[c] = y /\ \A e \in Conn \ {c} : s.k[e] = k[e]
  BY <1>1, <1>3
<1>12. Reading(s.k, {c})
  BY <1>1, <1>11 DEF Reading
<1>13. s.k[c].st = "live" /\ s.k[c].connected /\ ~s.k[c].armed
  BY <1>7, <1>11
<1>14. Sound(t.k, t.r, h, TRUE) /\ Reading(t.k, {}) /\ Still(s.k, t.k)
  BY <1>6, <1>10, <1>12, <1>13, ArmSound
<1>15. Steady
  <2> SUFFICES ASSUME NEW e \in Conn, k[e].pinned PROVE StillAt(k[e], k'[e])
    BY DEF Steady
  <2>1. e # c
    BY <1>v DEF x
  <2>2. k[e] = s.k[e] /\ StillAt(s.k[e], t.k[e])
    BY <2>1, <1>11, <1>14 DEF Still
  <2> QED BY <2>2, <1>2
<1> QED BY <1>1, <1>2, <1>6, <1>14, <1>15, RunKeeps

\* The record connect makes, and the client that names it.
Dialled(g, c) ==
  [Vacant(g) EXCEPT !.st = "live", !.inflight = 1, !.front = <<1>>, !.staged = 1, !.mate = c]

Fresh(y, g, c) ==
  /\ y \in Connections /\ y.st = "live" /\ y.g = g /\ y.inflight = 1 /\ y.armed = FALSE
  /\ y.pinned = FALSE /\ y.connected = FALSE /\ y.mate = c
  /\ Numbered(y.staged, y.front, y.off, y.back, y.pinned) /\ Ahead(y, <<>>) = 0

LEMMA DialledFields ==
  ASSUME NEW g \in Nat, NEW c \in Conn, NEW y, y = Dialled(g, c)
  PROVE  Fresh(y, g, c)
<1>1. <<1>> \in Seq(Nat) /\ <<>> \in Seq(Nat) /\ Len(<<1>>) = 1 /\ <<1>>[1] = 1
  OBVIOUS
<1>0. Len(<<>>) = 0
  OBVIOUS
<1>2. y = [st |-> "live", g |-> g, inflight |-> 1, armed |-> FALSE, paused |-> FALSE,
           connected |-> FALSE, mate |-> c, front |-> <<1>>, off |-> 0, back |-> <<>>,
           pinned |-> FALSE, staged |-> 1, reads |-> 0, pauses |-> 0]
  BY DEF Dialled, Vacant
<1>3. y \in Connections
  BY <1>1, <1>2 DEF Connections
<1>4. /\ y.st = "live" /\ y.g = g /\ y.inflight = 1 /\ y.armed = FALSE
      /\ y.pinned = FALSE /\ y.connected = FALSE /\ y.mate = c
  BY <1>2
<1>5. y.front = <<1>> /\ y.off = 0 /\ y.back = <<>> /\ y.staged = 1
  BY <1>2
<1>6. Numbered(1, <<1>>, 0, <<>>, FALSE)
  <2>1. \A i \in 1..Len(<<1>>) : <<1>>[i] = 1 - Len(<<1>>) - Len(<<>>) + i
    BY <1>0, <1>1
  <2>2. \A i \in 1..Len(<<>>) : <<>>[i] = 1 - Len(<<>>) + i
    BY <1>0
  <2>3. 0 <= Len(<<1>>) /\ Len(<<1>>) + Len(<<>>) <= 1
    BY <1>0, <1>1
  <2> QED BY <2>1, <2>2, <2>3 DEF Numbered
<1>7. AheadOf(1, <<1>>, 0, <<>>, <<>>) = 0
  BY <1>0, <1>1 DEF AheadOf
<1> QED BY <1>3, <1>4, <1>5, <1>6, <1>7 DEF Ahead, Fresh

LEMMA ConnectKeeps ==
  ASSUME IInv, NEW u \in Conn, NEW c \in Conn, Connect(u, c) PROVE IInv' /\ Steady
<1> DEFINE x == k[u]
           g == x.g
           e == Op("connect", x, u)
           y == Dialled(g, c)
           z == [k[c] EXCEPT !.mate = u]
           h == [heard EXCEPT ![u] = <<>>]
<1>1. /\ Sound(k, r, heard, TRUE) /\ heard \in [Conn -> Seq(Nat)] /\ stop \in SUBSET Conn
      /\ Reading(k, {}) /\ mode = "run" /\ x.st = "none" /\ u \in Upstream /\ c \in Client
      /\ k \in [Conn -> Connections] /\ RingSound(r) /\ x \in Connections
      /\ k[c].st = "live" /\ k[c].mate = None
      /\ mode' = mode /\ stop' = stop /\ heard' = h
  BY Disassembled DEF Connect
<1>2. PICK p \in Puts(r, e) : p.ok /\ r' = p.r /\ k' = [k EXCEPT ![u] = y, ![c].mate = u]
  BY Zenon DEF Connect, Dialled
<1>3. ConnSound(x, u, r, heard[u], TRUE) /\ ConnSound(k[c], c, r, heard[c], TRUE) /\ Paired(k)
  BY <1>1 DEF Sound
<1>4. /\ \A op \in Kinds : ~Out(r, u, op)
      /\ OfGen(r, u, g) /\ g \in Nat /\ x.mate = None
  BY <1>1, <1>3, EmptySlot
<1>5. e \in Operations /\ e.c = u /\ e.op = "connect" /\ e.g = g
  BY <1>4 DEF Op, Operations, Kinds
<1>6. u # c /\ u # None /\ c # None
  BY <1>1, UringConstants DEF Conn
<1>7. RingSound(r') /\ Added(r, r', e)
  <2> HIDE DEF e
  <2>1. ~Out(r, e.c, e.op)
    BY <1>4, <1>5 DEF Kinds
  <2> QED BY <2>1, <1>1, <1>2, <1>5, PutOp
<1>8. k'[u] = y /\ k'[c] = z /\ \A d \in Conn \ {u, c} : k'[d] = k[d]
  <2> HIDE DEF y
  <2> QED BY <1>1, <1>2, <1>6
<1>9. /\ h \in [Conn -> Seq(Nat)] /\ h[u] = <<>> /\ \A d \in Conn \ {u} : h[d] = heard[d]
  <2>1. <<>> \in Seq(Nat)
    OBVIOUS
  <2> QED BY <2>1, <1>1
<1>10. /\ y \in Connections /\ y.st = "live" /\ y.g = g /\ y.inflight = 1 /\ y.armed = FALSE
       /\ y.pinned = FALSE /\ y.connected = FALSE /\ y.mate = c
       /\ Numbered(y.staged, y.front, y.off, y.back, y.pinned) /\ Ahead(y, <<>>) = 0
  <2>1. y = Dialled(g, c)
    OBVIOUS
  <2> HIDE DEF g, y
  <2>2. Fresh(y, g, c)
    BY <2>1, <1>4, DialledFields
  <2> QED BY <2>2 DEF Fresh
<1>11. z \in Connections /\ SameBooks(k[c], z) /\ z.st = "live" /\ z.mate = u /\ z.paused = k[c].paused
  BY <1>1 DEF Connections, SameBooks
<1>12. k' \in [Conn -> Connections]
  <2>1. \A d \in Conn : k'[d] \in Connections
    <3> HIDE DEF y, z
    <3> QED BY ZenonT(60), <1>1, <1>8, <1>10, <1>11
  <2>2. k' = [d \in Conn |-> k'[d]]
    <3> HIDE DEF y
    <3> QED BY <1>1, <1>2
  <2> QED BY <2>1, <2>2
<1> HIDE DEF e, y, z, h, g, x
<1>13. ConnSound(y, u, r', <<>>, TRUE)
  <2>1. /\ Out(r', u, "connect") /\ ~Out(r', u, "recv") /\ ~Out(r', u, "send")
    BY <1>4, <1>5, <1>7 DEF Added, Kinds
  <2>2. OfGen(r', u, g)
    BY <1>4, <1>5, <1>7, Zenon DEF Added
  <2>3. B(y.armed) = 0 /\ B(y.pinned) = 0 /\ B(Out(r', u, "connect")) = 1
    BY <1>10, <2>1 DEF B
  <2>4. Booked(y, u, r')
    BY <1>10, <2>1, <2>2, <2>3 DEF Booked
  <2>5. Counts(<<>>)
    <3>1. Len(<<>>) = 0
      OBVIOUS
    <3> QED BY <3>1 DEF Counts
  <2>6. Sending(r', u, Unsent(y), Ahead(y, <<>>))
    BY <2>1, Unsending
  <2>7. InStep(y, u, r', <<>>, TRUE)
    BY <1>10, <2>5, <2>6 DEF InStep
  <2> QED BY <2>4, <2>7 DEF ConnSound
<1>14. \A d \in Conn \ {u} : Frame(r, r', d)
  BY <1>5, <1>7, AddedFrame
<1>15. ConnSound(z, c, r', heard[c], TRUE)
  <2>1. ConnSound(k[c], c, r', heard[c], TRUE)
    BY <1>3, <1>6, <1>14, ConnFrame
  <2> QED BY <2>1, <1>1, <1>11, SameBooksSound
<1>16. ASSUME NEW d \in Conn PROVE ConnSound(k'[d], d, r', h[d], TRUE)
  <2>1. CASE d = u
    BY <2>1, <1>8, <1>9, <1>13
  <2>2. CASE d = c
    BY <2>2, <1>6, <1>8, <1>9, <1>15
  <2>3. CASE d # u /\ d # c
    <3>1. ConnSound(k[d], d, r, heard[d], TRUE)
      BY <1>1 DEF Sound
    <3>2. ConnSound(k[d], d, r', heard[d], TRUE)
      BY <2>3, <3>1, <1>14, ConnFrame
    <3>3. k'[d] = k[d] /\ h[d] = heard[d]
      BY <2>3, <1>8, <1>9
    <3> QED BY <3>2, <3>3, Zenon
  <2> QED BY <2>1, <2>2, <2>3
<1>17. Paired(k')
  <2> SUFFICES ASSUME NEW d \in Conn, k'[d].mate # None
               PROVE  /\ k'[d].st = "live"
                      /\ k'[k'[d].mate].mate = d
                      /\ d \in Client <=> k'[d].mate \in Upstream
    BY DEF Paired
  <2>1. CASE d = u
    <3>1. d \notin Client /\ c \notin Upstream
      BY <2>1, <1>1, UringConstants
    <3> QED BY <2>1, <3>1, <1>8, <1>10, <1>11
  <2>2. CASE d = c
    BY <2>2, <1>1, <1>8, <1>10, <1>11
  <2>3. CASE d \notin {u, c}
    <3>1. k'[d] = k[d]
      BY <2>3, <1>8
    <3>2. /\ k[d].st = "live" /\ k[k[d].mate].mate = d /\ (d \in Client <=> k[d].mate \in Upstream)
          /\ k[d].mate \in Conn
      <4>1. k[d].mate \in Conn \cup {None}
        BY <1>1, ConnTypes
      <4> QED BY <4>1, <3>1, <1>3 DEF Paired
    <3>3. k[d].mate \notin {u, c}
      <4>1. d # None
        BY UringConstants DEF Conn
      <4> QED BY <4>1, <3>2, <1>1, <1>4 DEF x
    <3>4. k'[k[d].mate] = k[k[d].mate]
      BY <3>2, <3>3, <1>8
    <3> QED BY <3>1, <3>2, <3>4
  <2> QED BY <2>1, <2>2, <2>3
<1>18. Sound(k', r', h, TRUE)
  BY <1>7, <1>12, <1>16, <1>17 DEF Sound
<1>19. Reading(k', {})
  <2> SUFFICES ASSUME NEW d \in Conn, k'[d].st = "live", k'[d].connected, ~k'[d].paused PROVE k'[d].armed
    BY DEF Reading
  <2>1. d # u
    BY <1>8, <1>10
  <2>2. CASE d = c
    BY <2>2, <1>1, <1>8, <1>11 DEF Reading, SameBooks
  <2>3. CASE d # c
    BY <2>1, <2>3, <1>1, <1>8 DEF Reading
  <2> QED BY <2>2, <2>3
<1>20. Steady
  <2> SUFFICES ASSUME NEW d \in Conn, k[d].pinned PROVE StillAt(k[d], k'[d])
    BY DEF Steady
  <2>1. d # u
    <3>1. x = Vacant(g)
      BY <1>1, <1>3, EmptySlot DEF x, g
    <3>2. ~x.pinned
      BY <3>1 DEF Vacant
    <3> QED BY <3>2 DEF x
  <2>2. CASE d = c
    BY <2>2, <1>1, <1>8, <1>11, ConnTypes DEF StillAt, SameBooks
  <2>3. CASE d # c
    BY <2>1, <2>3, <1>1, <1>8, ConnTypes DEF StillAt
  <2> QED BY <2>2, <2>3
<1> QED BY <1>1, <1>9, <1>18, <1>19, <1>20, RunKeeps

-----------------------------------------------------------------------------
(* The kernel completes an operation, or has more of it to come.           *)

Answers(o, d) == d \in Completions /\ d.op = o.op /\ d.c = o.c /\ d.g = o.g

LEMMA AppendOne ==
  ASSUME NEW cq \in Seq(Completions), NEW d \in Completions, NEW cq2, cq2 = Append(cq, d)
  PROVE  /\ cq2 \in Seq(Completions) /\ Len(cq) \in Nat /\ Len(cq2) = Len(cq) + 1
         /\ DOMAIN cq = 1..Len(cq) /\ DOMAIN cq2 = 1..(Len(cq) + 1)
         /\ DOMAIN cq2 = DOMAIN cq \cup {Len(cq) + 1}
         /\ cq2[Len(cq) + 1] = d /\ \A i \in DOMAIN cq : cq2[i] = cq[i]
OBVIOUS

\* What the end d of operation o makes of the rings.
Ended(q, o, d, q2) ==
  /\ \A c, op : Out(q2, c, op) <=> Out(q, c, op)
  /\ \A c, g : OfGen(q, c, g) => OfGen(q2, c, g)
  /\ \A c, u, a : Sending(q, c, u, a) /\ ~(c = o.c /\ o.op = "send") => Sending(q2, c, u, a)
  /\ \A u, a : Sending(q, o.c, u, a) /\ o.op = "send" /\ d.n <= o.n =>
       a = 0 /\ u = o.n /\ Sending(q2, o.c, u, d.n)

LEMMA PostedEnd ==
  ASSUME NEW q, RingSound(q), NEW o \in q.ker, NEW d, Answers(o, d), ~Continues(d),
         NEW q2, q2 = [q EXCEPT !.cq = Append(@, d), !.ker = @ \ {o}]
  PROVE  RingSound(q2) /\ Ended(q, o, d, q2)
<1> DEFINE W   == Work(q)
           cq  == q.cq
           cq2 == Append(cq, d)
           H   == {o}
<1>1. /\ q \in Rings /\ W \in SUBSET Operations /\ cq \in Seq(Completions) /\ Orderly(W, cq)
      /\ IsFiniteSet(q.ker) /\ Len(q.sq) <= Depth /\ q.ker \cap Taken(q) = {}
  BY RingParts DEF RingSound
<1>2. d \in Completions /\ d.op = o.op /\ d.c = o.c /\ d.g = o.g
  BY DEF Answers
<1>3. q2.sq = q.sq /\ q2.ker = q.ker \ {o} /\ q2.cq = cq2
  BY <1>1 DEF Rings
<1>4. Taken(q2) = Taken(q)
  BY <1>3 DEF Taken
<1>5. Work(q2) = W \ H /\ H \in SUBSET W /\ o \in W
  BY <1>1, <1>3, <1>4 DEF Work
<1>6. /\ cq2 \in Seq(Completions) /\ Len(cq) \in Nat /\ Len(cq2) = Len(cq) + 1
      /\ DOMAIN cq = 1..Len(cq) /\ DOMAIN cq2 = 1..(Len(cq) + 1)
      /\ cq2[Len(cq) + 1] = d /\ \A i \in DOMAIN cq : cq2[i] = cq[i]
  <2> HIDE DEF cq
  <2> QED BY <1>1, <1>2, AppendOne
<1>7. q2 \in Rings
  <2>1. q.ker \ {o} \in SUBSET Operations
    BY <1>1, RingParts
  <2> QED BY <2>1, <1>1, <1>6 DEF Rings
<1>8. IsFiniteSet(q2.ker) /\ q2.ker \cap Taken(q2) = {} /\ Len(q2.sq) <= Depth
  <2>1. IsFiniteSet(q.ker \ {o})
    BY <1>1, FS_Subset
  <2> QED BY <2>1, <1>1, <1>3, <1>4
<1>y. /\ \A c, op : Out(q2, c, op) <=> OutIn(W \ H, cq2, c, op)
      /\ \A c, op : Out(q, c, op) <=> OutIn(W, cq, c, op)
      /\ \A c, g : OfGen(q2, c, g) <=> OfGenIn(W \ H, cq2, c, g)
      /\ \A c, g : OfGen(q, c, g) <=> OfGenIn(W, cq, c, g)
      /\ \A c, u, a : Sending(q2, c, u, a) <=> SendingIn(W \ H, cq2, c, u, a)
      /\ \A c, u, a : Sending(q, c, u, a) <=> SendingIn(W, cq, c, u, a)
  BY <1>3, <1>5, Zenon DEF Out, OfGen, Sending
<1> HIDE DEF W, cq, cq2
<1>9. (Len(cq) + 1)..Len(cq2) = {Len(cq) + 1}
  BY <1>6
<1>10. Completes(W, cq, H, cq2)
  <2>1. Len(cq) <= Len(cq2)
    BY <1>6
  <2>2. \A i \in 1..Len(cq) : cq2[i] = cq[i]
    BY <1>6
  <2>3. \A i \in {Len(cq) + 1} : ~Continues(cq2[i]) /\ \E p \in H : cq2[i].c = p.c /\ cq2[i].op = p.op /\ cq2[i].g = p.g
    BY <1>2, <1>6
  <2>4. \A p \in H : \E i \in {Len(cq) + 1} : cq2[i].c = p.c /\ cq2[i].op = p.op
    BY <1>2, <1>6
  <2>5. \A i, j \in {Len(cq) + 1} : cq2[i].c = cq2[j].c /\ cq2[i].op = cq2[j].op => i = j
    OBVIOUS
  <2> HIDE DEF H
  <2> QED BY <2>1, <2>2, <2>3, <2>4, <2>5, <1>9 DEF Completes
<1>11. /\ Orderly(W \ H, cq2)
       /\ \A c, op : OutIn(W \ H, cq2, c, op) <=> OutIn(W, cq, c, op)
       /\ \A c, g : OfGenIn(W, cq, c, g) => OfGenIn(W \ H, cq2, c, g)
  <2> HIDE DEF H
  <2> QED BY <1>1, <1>5, <1>6, <1>10, Completed
<1>12. RingSound(q2)
  <2>1. Orderly(Work(q2), q2.cq)
    BY <1>3, <1>5, <1>11
  <2> QED BY <2>1, <1>7, <1>8 DEF RingSound
<1>i. \A i \in DOMAIN cq2 : (i \in DOMAIN cq /\ cq2[i] = cq[i]) \/ cq2[i] = d
  <2> TAKE i \in DOMAIN cq2
  <2>1. i \in 1..Len(cq) \/ i = Len(cq) + 1
    BY <1>6
  <2> QED BY <2>1, <1>6
<1>13. ASSUME NEW c, NEW u, NEW a, SendingIn(W, cq, c, u, a), ~(c = o.c /\ o.op = "send")
       PROVE  SendingIn(W \ H, cq2, c, u, a)
  BY <1>13, <1>2, <1>i DEF SendingIn
<1>14. ASSUME NEW u, NEW a, SendingIn(W, cq, o.c, u, a), o.op = "send", d.n <= o.n
       PROVE  a = 0 /\ u = o.n /\ SendingIn(W \ H, cq2, o.c, u, d.n)
  <2>1. a = 0 /\ u = o.n
    BY <1>14, <1>5 DEF SendingIn
  <2>2. \A p \in W \ H : ~(p.c = o.c /\ p.op = "send")
    BY <1>1, <1>5, <1>14 DEF Orderly
  <2>3. \A i \in DOMAIN cq : ~(cq[i].c = o.c /\ cq[i].op = "send")
    <3>1. \A i \in DOMAIN cq : cq[i].op = "send" => ~Continues(cq[i])
      BY DEF Continues
    <3> QED BY <3>1, <1>1, <1>5, <1>14 DEF Orderly
  <2>4. \A i \in DOMAIN cq2 : cq2[i].c = o.c /\ cq2[i].op = "send" => cq2[i].n = d.n /\ d.n <= u
    BY <2>1, <2>3, <1>i, <1>14
  <2> QED BY <2>1, <2>2, <2>4 DEF SendingIn
<1>15. Ended(q, o, d, q2)
  BY <1>11, <1>13, <1>14, <1>y DEF Ended
<1> QED BY <1>12, <1>15

LEMMA PostedMore ==
  ASSUME NEW q, RingSound(q), NEW o \in q.ker, NEW d, Answers(o, d), Continues(d),
         NEW q2, q2 = [q EXCEPT !.cq = Append(@, d)]
  PROVE  RingSound(q2) /\ \A c : Frame(q, q2, c)
<1> DEFINE W   == Work(q)
           cq  == q.cq
           cq2 == Append(cq, d)
<1>1. /\ q \in Rings /\ W \in SUBSET Operations /\ cq \in Seq(Completions) /\ Orderly(W, cq)
      /\ IsFiniteSet(q.ker) /\ Len(q.sq) <= Depth /\ q.ker \cap Taken(q) = {}
  BY RingParts DEF RingSound
<1>2. d \in Completions /\ d.op = o.op /\ d.c = o.c /\ d.g = o.g /\ d.op = "recv"
  BY DEF Answers, Continues
<1>3. q2.sq = q.sq /\ q2.ker = q.ker /\ q2.cq = cq2
  BY <1>1 DEF Rings
<1>4. Taken(q2) = Taken(q)
  BY <1>3 DEF Taken
<1>5. Work(q2) = W /\ o \in W
  BY <1>3, <1>4 DEF Work
<1>6. /\ cq2 \in Seq(Completions) /\ Len(cq) \in Nat /\ Len(cq2) = Len(cq) + 1
      /\ DOMAIN cq = 1..Len(cq) /\ DOMAIN cq2 = 1..(Len(cq) + 1)
      /\ cq2[Len(cq) + 1] = d /\ \A i \in DOMAIN cq : cq2[i] = cq[i]
  <2> HIDE DEF cq
  <2> QED BY <1>1, <1>2, AppendOne
<1>7. q2 \in Rings
  BY <1>1, <1>6 DEF Rings
<1>y. /\ \A c, op : Out(q2, c, op) <=> OutIn(W, cq2, c, op)
      /\ \A c, op : Out(q, c, op) <=> OutIn(W, cq, c, op)
      /\ \A c, g : OfGen(q2, c, g) <=> OfGenIn(W, cq2, c, g)
      /\ \A c, g : OfGen(q, c, g) <=> OfGenIn(W, cq, c, g)
      /\ \A c, u, a : Sending(q2, c, u, a) <=> SendingIn(W, cq2, c, u, a)
      /\ \A c, u, a : Sending(q, c, u, a) <=> SendingIn(W, cq, c, u, a)
  BY <1>3, <1>5, Zenon DEF Out, OfGen, Sending
<1> HIDE DEF W, cq, cq2
<1>i. /\ \A i \in DOMAIN cq2 : (i \in DOMAIN cq /\ cq2[i] = cq[i]) \/ cq2[i] = d
      /\ \A i \in DOMAIN cq : i \in DOMAIN cq2 /\ cq2[i] = cq[i]
  <2>1. ASSUME NEW i \in DOMAIN cq2 PROVE (i \in DOMAIN cq /\ cq2[i] = cq[i]) \/ cq2[i] = d
    <3>1. i \in 1..Len(cq) \/ i = Len(cq) + 1
      BY <1>6
    <3> QED BY <3>1, <1>6
  <2>2. \A i \in DOMAIN cq : i \in DOMAIN cq2 /\ cq2[i] = cq[i]
    BY <1>6
  <2> QED BY <2>1, <2>2
<1>8. Orderly(W, cq2)
  <2>1. \A p, s \in W : p.c = s.c /\ p.op = s.op => p = s
    BY <1>1 DEF Orderly
  <2>2. \A i \in DOMAIN cq2 : ~Continues(cq2[i]) => \A p \in W : ~(p.c = cq2[i].c /\ p.op = cq2[i].op)
    BY <1>1, <1>i DEF Orderly
  <2>3. \A i, j \in DOMAIN cq2 : ~Continues(cq2[i]) /\ ~Continues(cq2[j])
          /\ cq2[i].c = cq2[j].c /\ cq2[i].op = cq2[j].op => i = j
    BY <1>1, <1>i DEF Orderly
  <2>4. ASSUME NEW i \in DOMAIN cq2, Continues(cq2[i])
        PROVE  \/ \E p \in W : p.c = cq2[i].c /\ p.op = "recv"
               \/ \E j \in DOMAIN cq2 : j > i /\ ~Continues(cq2[j]) /\ cq2[j].c = cq2[i].c /\ cq2[j].op = "recv"
    <3>1. CASE cq2[i] = d
      BY <3>1, <1>2, <1>5
    <3>2. CASE i \in DOMAIN cq /\ cq2[i] = cq[i]
      <4>1. CASE \E p \in W : p.c = cq[i].c /\ p.op = "recv"
        BY <3>2, <4>1
      <4>2. CASE \E j \in DOMAIN cq : j > i /\ ~Continues(cq[j]) /\ cq[j].c = cq[i].c /\ cq[j].op = "recv"
        BY <3>2, <4>2, <1>i
      <4> QED BY <3>2, <4>1, <4>2, <2>4, <1>1 DEF Orderly
    <3> QED BY <3>1, <3>2, <1>i
  <2> QED BY <2>1, <2>2, <2>3, <2>4 DEF Orderly
<1>9. RingSound(q2)
  BY <1>1, <1>3, <1>4, <1>5, <1>7, <1>8 DEF RingSound
<1>10. ASSUME NEW c, NEW op PROVE OutIn(W, cq2, c, op) <=> OutIn(W, cq, c, op)
  BY <1>i DEF OutIn
<1>11. ASSUME NEW c, NEW g, OfGenIn(W, cq, c, g) PROVE OfGenIn(W, cq2, c, g)
  BY <1>2, <1>5, <1>i, <1>11 DEF OfGenIn
<1>12. ASSUME NEW c, NEW u, NEW a, SendingIn(W, cq, c, u, a) PROVE SendingIn(W, cq2, c, u, a)
  BY <1>2, <1>i, <1>12 DEF SendingIn
<1> QED BY <1>9, <1>10, <1>11, <1>12, <1>y DEF Frame

LEMMA EndedFrame ==
  ASSUME NEW q, NEW o, NEW d, NEW q2, Ended(q, o, d, q2), NEW c, c # o.c \/ o.op # "send"
  PROVE  Frame(q, q2, c)
<1>1. \A op : Out(q2, c, op) <=> Out(q, c, op)
  BY Zenon DEF Ended
<1>2. \A g : OfGen(q, c, g) => OfGen(q2, c, g)
  BY Zenon DEF Ended
<1>3. \A u, a : Sending(q, c, u, a) => Sending(q2, c, u, a)
  BY Zenon DEF Ended
<1> QED BY <1>1, <1>2, <1>3 DEF Frame

\* An operation with the kernel refers to a connection, of its generation.
LEMMA Referred ==
  ASSUME NEW m, NEW q, NEW h, NEW run, Sound(m, q, h, run), NEW o \in q.ker
  PROVE  /\ o \in Operations /\ o.c \in Conn /\ m[o.c] \in Connections
         /\ m[o.c].st # "none" /\ m[o.c].g = o.g /\ Out(q, o.c, o.op) /\ m[o.c].inflight >= 1
<1>1. q \in Rings /\ m \in [Conn -> Connections] /\ \A c \in Conn : ConnSound(m[c], c, q, h[c], run)
  BY DEF Sound, RingSound
<1>2. o \in Operations /\ o \in Work(q)
  BY <1>1, RingParts DEF Work
<1>3. o.c \in Conn /\ o.op \in Kinds
  BY <1>2 DEF Operations
<1>4. m[o.c] \in Connections /\ ConnSound(m[o.c], o.c, q, h[o.c], run)
  BY <1>1, <1>3
<1>5. Out(q, o.c, o.op) /\ m[o.c].g = o.g
  <2>1. Out(q, o.c, o.op)
    BY <1>2 DEF Out, OutIn
  <2>2. OfGenIn(Work(q), q.cq, o.c, m[o.c].g)
    BY <1>4 DEF ConnSound, Booked, OfGen
  <2> QED BY <2>1, <2>2, <1>2 DEF OfGenIn
<1>6. m[o.c].inflight >= 1
  BY <1>3, <1>4, <1>5, OutCounted DEF ConnSound
<1>7. m[o.c].st # "none"
  BY <1>3, <1>4, <1>5, EmptySlot
<1> QED BY <1>2, <1>3, <1>4, <1>5, <1>6, <1>7

Says(d, res, n, more) == d.res = res /\ d.n = n /\ d.more = more

LEMMA DoneAnswers ==
  ASSUME NEW o \in Operations, NEW res \in Results, NEW n \in Nat, NEW more \in BOOLEAN,
         NEW d, d = Done(o, res, n, more)
  PROVE  Answers(o, d) /\ Says(d, res, n, more)
<1>1. d \in Completions
  BY DEF Done, Completions, Operations
<1> QED BY <1>1 DEF Done, Answers, Says

\* A step of the kernel that changes no bytes heard.
LEMMA QuietKernel ==
  ASSUME IInv, RingSound(r'), \A c : Frame(r, r', c), mode' = mode, stop' = stop, heard' = heard,
         \/ k' = k
         \/ \E c \in Conn : k[c].st # "none" /\ k' = [k EXCEPT ![c].reads = @ + 1]
  PROVE  IInv'
<1> DEFINE run == mode = "run"
<1>1. /\ Sound(k, r, heard, run) /\ heard \in [Conn -> Seq(Nat)] /\ stop \in SUBSET Conn
      /\ mode \in {"run", "drain", "ended", "quit"} /\ k \in [Conn -> Connections]
      /\ mode = "run" => Reading(k, {})
      /\ mode = "ended" => \A d \in Conn : k[d].inflight = 0
  BY Disassembled DEF IInv
<1> HIDE DEF run
<1>2. CASE k' = k
  <2>1. Sound(k', r', heard', run)
    BY <1>1, <1>2, FrameSound
  <2> QED BY <2>1, <1>1, <1>2, Assembled DEF run
<1>3. CASE \E c \in Conn : k[c].st # "none" /\ k' = [k EXCEPT ![c].reads = @ + 1]
  <2>1. PICK c \in Conn : k[c].st # "none" /\ k' = [k EXCEPT ![c].reads = @ + 1]
    BY <1>3
  <2> DEFINE x == k[c]
             y == [x EXCEPT !.reads = x.reads + 1]
  <2>2. x \in Connections /\ x.reads + 1 \in Nat
    BY <1>1, ConnTypes
  <2>3. y \in Connections /\ Aside(x, y) /\ y.paused = x.paused
    <3>1. y \in Connections
      BY <2>2 DEF Connections
    <3> QED BY <2>2, <3>1 DEF Connections, Aside, SameBooks
  <2>4. k' = [k EXCEPT ![c] = y]
    BY <2>1
  <2> HIDE DEF y
  <2>5. SameBooks(k[c], y) /\ y.st = k[c].st /\ y.mate = k[c].mate
    BY <2>3 DEF Aside
  <2>6. Sound([k EXCEPT ![c] = y], r', heard, run)
    BY <2>1, <2>3, <2>5, <1>1, AsideSound
  <2>7. Sound(k', r', heard', run)
    BY <2>4, <2>6
  <2>8. k'[c] = y /\ \A d \in Conn \ {c} : k'[d] = k[d]
    BY <2>4, <1>1
  <2>9. mode = "run" => Reading(k', {})
    BY <2>3, <2>5, <2>8, <1>1 DEF Reading, SameBooks
  <2>10. \A d \in Conn : k'[d].inflight = k[d].inflight
    BY <2>5, <2>8 DEF SameBooks
  <2> QED BY <2>7, <2>9, <2>10, <1>1, Assembled DEF run
<1> QED BY <1>2, <1>3

LEMMA KernelRecvKeeps ==
  ASSUME IInv, NEW o \in r.ker, KernelRecv(o) PROVE IInv'
<1> DEFINE c == o.c
           run == mode = "run"
<1>1. Sound(k, r, heard, run) /\ RingSound(r)
  BY Disassembled
<1>2. o \in Operations /\ c \in Conn /\ k[c].st # "none"
  <2> HIDE DEF run
  <2> QED BY <1>1, Referred
<1>3. o.op = "recv" /\ mode' = mode /\ stop' = stop /\ heard' = heard
  BY DEF KernelRecv
<1>4. ASSUME NEW d, Answers(o, d), ~Continues(d), Post(o, d, TRUE)
      PROVE  RingSound(r') /\ \A e : Frame(r, r', e)
  <2>1. r' = [r EXCEPT !.cq = Append(@, d), !.ker = @ \ {o}]
    BY <1>4 DEF Post
  <2>2. RingSound(r') /\ Ended(r, o, d, r')
    BY <1>1, <1>4, <2>1, PostedEnd
  <2> QED BY <2>2, <1>3, EndedFrame
<1>5. ASSUME NEW d, Answers(o, d), Continues(d), Post(o, d, FALSE)
      PROVE  RingSound(r') /\ \A e : Frame(r, r', e)
  <2>1. r' = [r EXCEPT !.cq = Append(@, d)]
    <3>1. r' = [r EXCEPT !.cq = Append(@, d), !.ker = @]
      BY <1>5 DEF Post
    <3>2. r \in Rings
      BY <1>1 DEF RingSound
    <3> QED BY <3>1, <3>2 DEF Rings
  <2> QED BY <1>1, <1>5, <2>1, PostedMore
<1>6. CASE /\ \E more \in BOOLEAN : Post(o, Done(o, "data", 0, more), ~more)
           /\ k' = [k EXCEPT ![c].reads = @ + 1]
  <2>1. PICK more \in BOOLEAN : Post(o, Done(o, "data", 0, more), ~more)
    BY <1>6
  <2> DEFINE d == Done(o, "data", 0, more)
  <2>2. Answers(o, d) /\ d.res = "data" /\ d.more = more
    <3>1. Answers(o, d) /\ Says(d, "data", 0, more)
      BY <1>2, DoneAnswers DEF Results
    <3> QED BY <3>1 DEF Says
  <2>3. Continues(d) <=> more
    BY <2>2, <1>3 DEF Continues, Answers
  <2>p. Post(o, d, ~more)
    BY <2>1
  <2> HIDE DEF d
  <2>4. RingSound(r') /\ \A e : Frame(r, r', e)
    <3>1. CASE more
      <4>1. (~more) = FALSE
        BY <3>1
      <4>2. Post(o, d, FALSE)
        BY <4>1, <2>p
      <4> QED BY <3>1, <4>2, <2>2, <2>3, <1>5
    <3>2. CASE ~more
      <4>1. (~more) = TRUE
        BY <3>2
      <4>2. Post(o, d, TRUE)
        BY <4>1, <2>p
      <4> QED BY <3>2, <4>2, <2>2, <2>3, <1>4
    <3> QED BY <3>1, <3>2
  <2> QED BY <2>4, <1>2, <1>3, <1>6, QuietKernel
<1>7. CASE Post(o, Done(o, "nobufs", 0, FALSE), TRUE) /\ k' = [k EXCEPT ![c].reads = @ + 1]
  <2> DEFINE d == Done(o, "nobufs", 0, FALSE)
  <2>1. Answers(o, d) /\ d.res = "nobufs"
    <3>1. Answers(o, d) /\ Says(d, "nobufs", 0, FALSE)
      BY <1>2, DoneAnswers DEF Results
    <3> QED BY <3>1 DEF Says
  <2>2. ~Continues(d) /\ Post(o, d, TRUE)
    BY <2>1, <1>7 DEF Continues
  <2> HIDE DEF d
  <2>3. RingSound(r') /\ \A e : Frame(r, r', e)
    BY <2>1, <2>2, <1>4
  <2> QED BY <2>3, <1>2, <1>3, <1>7, QuietKernel
<1>8. CASE (\E more \in BOOLEAN : Post(o, Done(o, "eof", 0, more), TRUE)) /\ k' = k
  <2>0. PICK more \in BOOLEAN : Post(o, Done(o, "eof", 0, more), TRUE)
    BY <1>8
  <2> DEFINE d == Done(o, "eof", 0, more)
  <2>1. Answers(o, d) /\ d.res = "eof"
    <3>1. Answers(o, d) /\ Says(d, "eof", 0, more)
      BY <1>2, DoneAnswers DEF Results
    <3> QED BY <3>1 DEF Says
  <2>2. ~Continues(d) /\ Post(o, d, TRUE)
    BY <2>0, <2>1 DEF Continues
  <2> HIDE DEF d
  <2>3. RingSound(r') /\ \A e : Frame(r, r', e)
    BY <2>1, <2>2, <1>4
  <2> QED BY <2>3, <1>3, <1>8, QuietKernel
<1> QED BY <1>6, <1>7, <1>8 DEF KernelRecv

LEMMA KernelConnectKeeps ==
  ASSUME IInv, NEW o \in r.ker, KernelConnect(o) PROVE IInv'
<1> DEFINE run == mode = "run"
<1>1. Sound(k, r, heard, run) /\ RingSound(r)
  BY Disassembled
<1>2. o \in Operations
  <2> HIDE DEF run
  <2> QED BY <1>1, Referred
<1>3. o.op = "connect" /\ k' = k /\ mode' = mode /\ stop' = stop /\ heard' = heard
  BY DEF KernelConnect
<1>4. PICK res \in {"data", "failed"} : Post(o, Done(o, res, 0, FALSE), TRUE)
  BY DEF KernelConnect
<1> DEFINE d == Done(o, res, 0, FALSE)
<1>5. Answers(o, d)
  BY <1>2, DoneAnswers DEF Results
<1>6. ~Continues(d)
  BY <1>3, <1>5 DEF Continues, Answers
<1>7. r' = [r EXCEPT !.cq = Append(@, d), !.ker = @ \ {o}]
  BY <1>4 DEF Post
<1> HIDE DEF d
<1>8. RingSound(r') /\ Ended(r, o, d, r')
  BY <1>1, <1>5, <1>6, <1>7, PostedEnd
<1>9. \A c : Frame(r, r', c)
  BY <1>3, <1>8, EndedFrame
<1> QED BY <1>3, <1>8, <1>9, QuietKernel

Joins(a, b, c) ==
  /\ c \in Seq(Nat) /\ Len(c) = Len(a) + Len(b)
  /\ \A i \in 1..Len(a) : c[i] = a[i]
  /\ \A i \in (Len(a) + 1)..(Len(a) + Len(b)) : c[i] = b[i - Len(a)]

LEMMA Joined ==
  ASSUME NEW a \in Seq(Nat), NEW b \in Seq(Nat), NEW c, c = a \o b
  PROVE  Joins(a, b, c)
BY DEF Joins

HearsOn(staged, front, off, back, h2, n) ==
  h2 \in Seq(Nat) /\ Counts(h2) /\ AheadOf(staged, front, off, back, h2) = n

\* The bytes the kernel reads are the next ones its peer is owed.
LEMMA HeardMore ==
  ASSUME NEW staged \in Nat, NEW front \in Seq(Nat), NEW back \in Seq(Nat), NEW off \in Nat, NEW pinned,
         NEW h \in Seq(Nat), Counts(h), Numbered(staged, front, off, back, pinned),
         AheadOf(staged, front, off, back, h) = 0, NEW n \in Nat, off + n <= Len(front),
         NEW h2, h2 = h \o SubSeq(front, off + 1, off + n)
  PROVE  HearsOn(staged, front, off, back, h2, n)
<1> DEFINE new == SubSeq(front, off + 1, off + n)
<1>1. /\ new \in Seq(Nat) /\ Len(new) = n /\ Len(front) \in Nat /\ Len(back) \in Nat /\ Len(h) \in Nat
      /\ \A i \in 1..n : new[i] = front[off + i]
  <2>1. new \in Seq(Nat) /\ Len(front) \in Nat /\ Len(back) \in Nat /\ Len(h) \in Nat
    BY SubSeqProperties
  <2>2. Len(new) = n
    BY <2>1, SubSeqProperties
  <2>3. ASSUME NEW i \in 1..n PROVE new[i] = front[off + i]
    <3>1. i \in 1..Len(new) /\ new[i] = front[(off + 1) + i - 1]
      BY <2>1, <2>2, SubSeqProperties
    <3>2. (off + 1) + i - 1 = off + i
      OBVIOUS
    <3> QED BY <3>1, <3>2
  <2> QED BY <2>1, <2>2, <2>3
<1>h. h2 = h \o new
  OBVIOUS
<1> HIDE DEF new
<1>2. /\ h2 \in Seq(Nat) /\ Len(h2) = Len(h) + n
      /\ \A i \in 1..Len(h) : h2[i] = h[i]
      /\ \A i \in (Len(h) + 1)..(Len(h) + n) : h2[i] = new[i - Len(h)]
  <2>1. new \in Seq(Nat) /\ Len(new) = n
    BY <1>1
  <2>2. Joins(h, new, h2)
    BY <2>1, <1>h, Joined
  <2> QED BY <2>1, <2>2 DEF Joins
<1>3. Len(h) = staged + off - Len(front) - Len(back)
  BY <1>1 DEF AheadOf
<1>4. ASSUME NEW i \in 1..Len(h2) PROVE h2[i] = i
  <2>1. CASE i \in 1..Len(h)
    BY <2>1, <1>2 DEF Counts
  <2>2. CASE i \in (Len(h) + 1)..(Len(h) + n)
    <3> DEFINE j == i - Len(h)
    <3>1. j \in 1..n /\ h2[i] = new[j] /\ i = Len(h) + j
      BY SMTT(60), <2>2, <1>1, <1>2
    <3> HIDE DEF j
    <3>2. new[j] = front[off + j] /\ off + j \in 1..Len(front)
      <4>1. off + j \in 1..Len(front)
        <5>1. j \in Nat /\ 1 <= j /\ j <= n /\ Len(front) \in Nat
          BY <3>1, <1>1
        <5> QED BY <5>1
      <4> QED BY <4>1, <3>1, <1>1
    <3>3. front[off + j] = staged - Len(front) - Len(back) + (off + j)
      BY <3>2 DEF Numbered
    <3> QED BY SMTT(60), <3>1, <3>2, <3>3, <1>1, <1>3
  <2> QED BY SMTT(60), <2>1, <2>2, <1>1, <1>2
<1>5. AheadOf(staged, front, off, back, h2) = n
  BY <1>1, <1>2, <1>3 DEF AheadOf
<1> QED BY <1>2, <1>4, <1>5 DEF Counts, HearsOn

LEMMA KernelSendKeeps ==
  ASSUME IInv, NEW o \in r.ker, KernelSend(o) PROVE IInv'
<1> DEFINE c == o.c
           x == k[c]
           run == mode = "run"
<1>1. /\ Sound(k, r, heard, run) /\ RingSound(r) /\ heard \in [Conn -> Seq(Nat)] /\ stop \in SUBSET Conn
      /\ mode \in {"run", "drain", "ended", "quit"} /\ k \in [Conn -> Connections]
      /\ mode = "run" => Reading(k, {})
      /\ mode = "ended" => \A d \in Conn : k[d].inflight = 0
  BY Disassembled DEF IInv
<1>2. k' = k /\ mode' = mode /\ stop' = stop /\ o.op = "send"
  BY DEF KernelSend
<1> HIDE DEF run
<1>3. /\ o \in Operations /\ c \in Conn /\ x \in Connections /\ Out(r, c, "send")
      /\ ConnSound(x, c, r, heard[c], run) /\ heard[c] \in Seq(Nat)
  <2>1. o \in Operations /\ c \in Conn /\ x \in Connections /\ Out(r, c, o.op)
    BY <1>1, Referred
  <2>2. ConnSound(x, c, r, heard[c], run)
    BY <2>1, <1>1 DEF Sound
  <2> QED BY <2>1, <2>2, <1>1, <1>2
<1>4. o.n \in Nat
  BY <1>3 DEF Operations
<1>5. ASSUME NEW d, Answers(o, d), d.n \in Nat, d.n <= o.n, Post(o, d, TRUE)
      PROVE  RingSound(r') /\ Ended(r, o, d, r')
  <2>1. r' = [r EXCEPT !.cq = Append(@, d), !.ker = @ \ {o}]
    BY <1>5 DEF Post
  <2>2. ~Continues(d)
    BY <1>2, <1>5 DEF Continues, Answers
  <2> QED BY <1>1, <1>5, <2>1, <2>2, PostedEnd
<1>6. CASE Post(o, Done(o, "failed", 0, FALSE), TRUE) /\ heard' = heard
  <2> DEFINE d == Done(o, "failed", 0, FALSE)
  <2>1. Answers(o, d) /\ d.n = 0
    <3>1. Answers(o, d) /\ Says(d, "failed", 0, FALSE)
      BY <1>3, DoneAnswers DEF Results
    <3> QED BY <3>1 DEF Says
  <2>p. Post(o, d, TRUE)
    BY <1>6
  <2> HIDE DEF d
  <2>2. RingSound(r') /\ Ended(r, o, d, r')
    <3>1. d.n \in Nat /\ d.n <= o.n
      BY <2>1, <1>4
    <3> QED BY <3>1, <2>1, <2>p, <1>5
  <2>3. \A e : Frame(r, r', e)
    <3> TAKE e
    <3>1. CASE e # c
      BY <3>1, <2>2, EndedFrame
    <3>2. CASE e = c
      <4>1. ASSUME NEW u, NEW a, Sending(r, c, u, a) PROVE Sending(r', c, u, a)
        <5>1. d.n <= o.n
          BY <2>1, <1>4
        <5>2. a = 0 /\ Sending(r', c, u, d.n)
          BY <4>1, <5>1, <2>2, <1>2 DEF Ended
        <5> QED BY <5>2, <2>1
      <4>2. (\A op : Out(r', c, op) <=> Out(r, c, op)) /\ (\A g : OfGen(r, c, g) => OfGen(r', c, g))
        BY <2>2, Zenon DEF Ended
      <4> QED BY <3>2, <4>1, <4>2 DEF Frame
    <3> QED BY <3>1, <3>2
  <2> QED BY <2>2, <2>3, <1>2, <1>6, QuietKernel
<1>7. ASSUME NEW n \in 1..o.n, Post(o, Done(o, "data", n, FALSE), TRUE),
             heard' = [heard EXCEPT ![c] = @ \o SubSeq(x.front, x.off + 1, x.off + n)]
      PROVE  IInv'
  <2> DEFINE d == Done(o, "data", n, FALSE)
             h == heard[c]
             h2 == heard'[c]
  <2>n. n \in Nat /\ n <= o.n
    BY <1>4, <1>7
  <2>1. Answers(o, d) /\ d.n = n
    <3>1. Answers(o, d) /\ Says(d, "data", n, FALSE)
      BY <2>n, <1>3, DoneAnswers DEF Results
    <3> QED BY <3>1 DEF Says
  <2>p. Post(o, d, TRUE)
    BY <1>7
  <2> HIDE DEF d
  <2>2. RingSound(r') /\ Ended(r, o, d, r')
    BY <2>1, <2>p, <2>n, <1>5
  <2>3. Booked(x, c, r) /\ InStep(x, c, r, h, run)
    BY <1>3 DEF ConnSound
  <2>4. Ahead(x, h) = 0 /\ Unsent(x) = o.n /\ Sending(r', c, Unsent(x), n)
    <3>1. Sending(r, c, Unsent(x), Ahead(x, h))
      BY <2>3 DEF InStep
    <3>2. d.n <= o.n
      BY <2>1, <2>n
    <3> QED BY <3>1, <3>2, <2>1, <2>2, <1>2 DEF Ended
  <2>5. /\ x.front \in Seq(Nat) /\ x.back \in Seq(Nat) /\ x.off \in Nat /\ x.staged \in Nat
        /\ x.pinned \in BOOLEAN
    BY <1>3, ConnTypes
  <2>6. /\ Counts(h) /\ Numbered(x.staged, x.front, x.off, x.back, x.pinned)
        /\ AheadOf(x.staged, x.front, x.off, x.back, h) = 0
    BY <2>3, <2>4 DEF InStep, Ahead
  <2>7. x.off + n <= Len(x.front)
    <3>1. Len(x.front) - x.off = o.n /\ Len(x.front) \in Nat
      BY <2>4, <2>5 DEF Unsent
    <3> QED BY <3>1, <2>n, <2>5, <1>4
  <2>8. h2 = h \o SubSeq(x.front, x.off + 1, x.off + n) /\ \A e \in Conn \ {c} : heard'[e] = heard[e]
    BY <1>1, <1>3, <1>7
  <2>w. heard' = [heard EXCEPT ![c] = h2]
    BY <1>1, <1>7, <2>8
  <2> HIDE DEF x, h, h2
  <2>9. h2 \in Seq(Nat) /\ Counts(h2) /\ AheadOf(x.staged, x.front, x.off, x.back, h2) = n
    <3> DEFINE st == x.staged
               f == x.front
               of == x.off
               b == x.back
    <3>1. /\ f \in Seq(Nat) /\ b \in Seq(Nat) /\ of \in Nat /\ st \in Nat /\ h \in Seq(Nat)
          /\ Counts(h) /\ Numbered(st, f, of, b, x.pinned) /\ AheadOf(st, f, of, b, h) = 0
          /\ of + n <= Len(f) /\ h2 = h \o SubSeq(f, of + 1, of + n)
      BY <2>5, <2>6, <2>7, <2>8, <1>3 DEF h
    <3> HIDE DEF st, f, of, b
    <3>2. HearsOn(st, f, of, b, h2, n)
      BY <3>1, <2>n, HeardMore
    <3> QED BY <3>2 DEF HearsOn, st, f, of, b
  <2>10. x.pinned
    BY <2>3, <1>3 DEF Booked
  <2>11. InStep(x, c, r', h2, run)
    BY <2>4, <2>6, <2>9, <2>10 DEF InStep, Ahead
  <2>12. Booked(x, c, r')
    <3>1. (\A op : Out(r', c, op) <=> Out(r, c, op)) /\ OfGen(r', c, x.g)
      BY <2>2, <2>3, Zenon DEF Ended, Booked
    <3>2. B(Out(r', c, "connect")) = B(Out(r, c, "connect"))
      BY <3>1 DEF B
    <3> QED BY <3>1, <3>2, <2>3 DEF Booked
  <2>13. heard' \in [Conn -> Seq(Nat)]
    BY <2>9, <2>w, <1>1, <1>3
  <2>14. \A e \in Conn \ {c} : Frame(r, r', e) /\ heard'[e] = heard[e]
    BY <2>2, <2>8, EndedFrame
  <2>15. ConnSound(x, c, r', heard'[c], run)
    BY <2>11, <2>12 DEF ConnSound, h2
  <2>16. x.mate = k[c].mate /\ (x.mate # None => x.st = "live")
    BY <1>1, <1>3 DEF Sound, Paired, x
  <2>17. Sound([k EXCEPT ![c] = x], r', heard', run)
    <3> DEFINE hh == heard'
    <3>1. /\ \A e \in Conn \ {c} : Frame(r, r', e) /\ hh[e] = heard[e]
          /\ ConnSound(x, c, r', hh[c], run)
      BY <2>14, <2>15
    <3> HIDE DEF hh, c
    <3>2. Sound([k EXCEPT ![c] = x], r', hh, run)
      BY <3>1, <2>2, <2>16, <1>1, <1>3, OneSound
    <3> QED BY <3>2 DEF hh
  <2>18. [k EXCEPT ![c] = x] = k
    BY <1>1, <1>3 DEF x
  <2>19. Sound(k', r', heard', run)
    BY <2>17, <2>18, <1>2
  <2> QED BY <2>13, <2>19, <1>1, <1>2, Assembled DEF run
<1> QED BY <1>6, <1>7 DEF KernelSend

LEMMA KernelKeeps ==
  ASSUME IInv, Kernel PROVE IInv'
<1>1. PICK o \in r.ker : KernelRecv(o) \/ KernelSend(o) \/ KernelConnect(o)
  BY DEF Kernel
<1> QED BY <1>1, KernelRecvKeeps, KernelSendKeeps, KernelConnectKeeps

-----------------------------------------------------------------------------
(* The theorems.                                                           *)

\* The invariant holds of the first state: empty rings, empty slots.
LEMMA InitSound ==
  ASSUME Init PROVE IInv
<1>1. /\ k = [c \in Conn |-> Vacant(0)] /\ r = [sq |-> <<>>, ker |-> {}, cq |-> <<>>, lost |-> {}]
      /\ mode = "run" /\ stop = {} /\ heard = [c \in Conn |-> <<>>]
  BY DEF Init
<1>2. /\ <<>> \in Seq(Nat) /\ <<>> \in Seq(Entries) /\ <<>> \in Seq(Completions) /\ Len(<<>>) = 0
      /\ DOMAIN <<>> = {}
  OBVIOUS
<1>3. r \in Rings /\ r.sq = <<>> /\ r.ker = {} /\ r.cq = <<>>
  BY <1>1, <1>2 DEF Rings
<1>4. Taken(r) = {} /\ Work(r) = {}
  BY <1>2, <1>3 DEF Taken, Work
<1>5. RingSound(r)
  <2>1. Orderly({}, <<>>)
    BY <1>2 DEF Orderly
  <2>2. IsFiniteSet({})
    BY FS_EmptySet
  <2>3. Len(r.sq) <= Depth
    BY <1>2, <1>3, UringConstants
  <2> QED BY <2>1, <2>2, <2>3, <1>3, <1>4 DEF RingSound
<1>6. \A c, op : ~Out(r, c, op)
  BY <1>2, <1>3, <1>4 DEF Out, OutIn
<1>7. k \in [Conn -> Connections] /\ \A c \in Conn : k[c] = Vacant(0)
  BY <1>1, VacantType
<1>8. heard \in [Conn -> Seq(Nat)] /\ \A c \in Conn : heard[c] = <<>>
  BY <1>1, <1>2
<1>9. ASSUME NEW c \in Conn PROVE ConnSound(k[c], c, r, heard[c], (mode = "run"))
  <2> DEFINE run == mode = "run"
             h == heard[c]
  <2>1. Counts(<<>>)
    BY <1>2 DEF Counts
  <2>2. h \in Seq(Nat) /\ Counts(h)
    BY <2>1, <1>2, <1>8
  <2> HIDE DEF run, h
  <2>3. ConnSound(Vacant(0), c, r, h, run)
    BY <2>2, <1>5, <1>6, VacantSound
  <2> QED BY <2>3, <1>7 DEF run, h
<1>10. Paired(k)
  <2>1. \A c \in Conn : k[c].mate = None
    BY <1>7 DEF Vacant
  <2> QED BY <2>1 DEF Paired
<1>11. Reading(k, {})
  <2>1. \A c \in Conn : k[c].st = "none"
    BY <1>7 DEF Vacant
  <2> QED BY <2>1 DEF Reading
<1>12. Sound(k, r, heard, (mode = "run"))
  BY <1>5, <1>7, <1>9, <1>10 DEF Sound
<1>13. TypeOK
  BY <1>1, <1>2, <1>3, <1>7, <1>8, UringConstants DEF TypeOK
<1> QED BY <1>1, <1>11, <1>12, <1>13 DEF IInv

\* Every step of the backend, of the engine and of the kernel keeps it.
LEMMA NextSound ==
  ASSUME IInv, [Next]_vars PROVE IInv'
<1>1. CASE \E c \in Conn : Accept(c)
  BY <1>1, AcceptKeeps
<1>2. CASE \E c \in Conn : StageAndSend(c)
  BY <1>2, StageAndSendKeeps
<1>3. CASE \E c \in Conn : SetRead(c)
  BY <1>3, SetReadKeeps
<1>4. CASE \E c \in Conn : CloseConn(c)
  BY <1>4, CloseConnKeeps
<1>5. CASE \E c \in Conn : \E d \in Conn : Connect(c, d)
  BY <1>5, ConnectKeeps
<1>6. CASE Enter
  BY <1>6, EnterKeeps
<1>7. CASE Kernel
  BY <1>7, KernelKeeps
<1>8. CASE Reap
  BY <1>8, ReapKeeps
<1>9. CASE BeginDrain \/ EndDrain \/ QuitDrain
  BY <1>9, ModeKeeps
<1>10. CASE \E c \in Conn : StopConn(c)
  BY <1>10, StopConnKeeps
<1>11. CASE UNCHANGED vars
  BY <1>11 DEF vars, IInv, TypeOK
<1> QED BY <1>1, <1>2, <1>3, <1>4, <1>5, <1>6, <1>7, <1>8, <1>9, <1>10, <1>11 DEF Next

\* The backend's books agree with the rings in every reachable state: flags,
\* counts, generations and buffers say exactly what the kernel still holds or
\* has completed (io/uring_io.cpp).
THEOREM UringInvariant == Spec => []IInv
<1>1. Init => IInv
  BY InitSound
<1>2. IInv /\ [Next]_vars => IInv'
  BY NextSound
<1> QED BY <1>1, <1>2, PTL DEF Spec

\* Every variable keeps its type, and the submission ring its depth.
THEOREM UringTypeCorrect == Spec => []TypeOK
<1>1. IInv => TypeOK
  BY DEF IInv
<1> QED BY <1>1, UringInvariant, PTL

\* A completion unread refers to a connection that is there, of its generation.
LEMMA Unread ==
  ASSUME NEW m, NEW q, NEW h, NEW run, Sound(m, q, h, run), NEW i \in 1..Len(q.cq)
  PROVE  m[q.cq[i].c].st # "none" /\ m[q.cq[i].c].g = q.cq[i].g
<1> DEFINE d == q.cq[i]
           c == d.c
<1>1. q \in Rings /\ m \in [Conn -> Connections] /\ \A e \in Conn : ConnSound(m[e], e, q, h[e], run)
  BY DEF Sound, RingSound
<1>2. q.cq \in Seq(Completions) /\ i \in DOMAIN q.cq /\ Orderly(Work(q), q.cq)
  BY <1>1, RingParts DEF Sound, RingSound
<1>3. d \in Completions
  BY <1>2
<1>4. c \in Conn /\ d.op \in Kinds
  BY <1>3 DEF Completions
<1>5. m[c] \in Connections /\ ConnSound(m[c], c, q, h[c], run)
  BY <1>1, <1>4
<1>6. \E op \in Kinds : Out(q, c, op)
  <2>1. CASE Continues(d)
    BY <2>1, <1>2 DEF Orderly, Out, OutIn, Kinds
  <2>2. CASE ~Continues(d)
    BY <2>2, <1>2, <1>4 DEF Out, OutIn
  <2> QED BY <2>1, <2>2
<1>7. m[c].g = d.g
  BY <1>2, <1>5 DEF ConnSound, Booked, OfGen, OfGenIn
<1> HIDE DEF c
<1>8. m[c].st # "none"
  BY <1>5, <1>6, EmptySlot
<1> QED BY <1>7, <1>8 DEF c

\* maybe_free frees a connection only once nothing refers to it: what the
\* kernel holds or has completed is never of a freed connection, nor of the
\* one that took its place (io/uring_io.cpp, on_cqe and maybe_free).
THEOREM NothingOutlivesItsConnection == Spec => []NoUseAfterFree
<1>1. IInv => NoUseAfterFree
  <2> SUFFICES ASSUME IInv PROVE NoUseAfterFree
    OBVIOUS
  <2> DEFINE run == mode = "run"
  <2>1. Sound(k, r, heard, run)
    BY Disassembled
  <2> HIDE DEF run
  <2>2. \A o \in r.ker : k[o.c].st # "none" /\ k[o.c].g = o.g
    BY <2>1, Referred
  <2>3. \A i \in 1..Len(r.cq) : k[r.cq[i].c].st # "none" /\ k[r.cq[i].c].g = r.cq[i].g
    BY <2>1, Unread
  <2> QED BY <2>2, <2>3 DEF NoUseAfterFree
<1> QED BY <1>1, UringInvariant, PTL

\* A live connection that is not paused has its receive out, however pauses,
\* resumes and the kernel's own endings cross (set_read, on_recv, arm_recv).
THEOREM ReadsStayHeld == Spec => []ReadsHeld
<1>1. IInv => ReadsHeld
  BY DEF IInv, Reading, ReadsHeld
<1> QED BY <1>1, UringInvariant, PTL

\* A peer hears a connection's bytes in the order they were staged, none twice
\* and none skipped, however sends are cut and staged over (core/outbuf.hpp).
THEOREM BytesStayInOrder == Spec => []InOrder
<1>1. IInv => InOrder
  <2> SUFFICES ASSUME IInv, NEW c \in Conn PROVE heard[c] = [i \in 1..Len(heard[c]) |-> i]
    BY DEF InOrder
  <2> DEFINE h == heard[c]
  <2>1. h \in Seq(Nat) /\ Counts(h)
    BY Disassembled DEF Sound, ConnSound, InStep
  <2>2. h = [i \in 1..Len(h) |-> h[i]]
    BY <2>1
  <2>3. \A i \in 1..Len(h) : h[i] = i
    BY <2>1 DEF Counts
  <2> HIDE DEF h
  <2>4. h = [i \in 1..Len(h) |-> i]
    BY <2>2, <2>3
  <2> QED BY <2>4 DEF h
<1> QED BY <1>1, UringInvariant, PTL

LEMMA NextSteady ==
  ASSUME IInv, [Next]_vars PROVE Steady
<1>1. CASE \E c \in Conn : Accept(c) \/ StageAndSend(c) \/ SetRead(c) \/ CloseConn(c)
  BY <1>1, AcceptKeeps, StageAndSendKeeps, SetReadKeeps, CloseConnKeeps
<1>2. CASE \E c \in Conn : \E d \in Conn : Connect(c, d)
  BY <1>2, ConnectKeeps
<1>3. CASE Reap
  BY <1>3, ReapKeeps
<1>4. CASE k' = k
  BY <1>4, Disassembled, ConnTypes DEF Steady, StillAt
<1>5. CASE Kernel
  <2>1. PICK o \in r.ker : KernelRecv(o) \/ KernelSend(o) \/ KernelConnect(o)
    BY <1>5 DEF Kernel
  <2>2. CASE KernelRecv(o) /\ k' # k
    <3>1. k' = [k EXCEPT ![o.c].reads = @ + 1]
      BY <2>2 DEF KernelRecv
    <3>2. k \in [Conn -> Connections] /\ k' = [k EXCEPT ![o.c] = [k[o.c] EXCEPT !.reads = k[o.c].reads + 1]]
      BY <3>1, Disassembled
    <3>3. \A c \in Conn : k'[c].g = k[c].g /\ k'[c].front = k[c].front /\ k'[c].off = k[c].off
      BY <3>2 DEF Connections
    <3> QED BY <3>2, <3>3, ConnTypes DEF Steady, StillAt
  <2>3. CASE KernelSend(o) \/ KernelConnect(o)
    BY <2>3, <1>4 DEF KernelSend, KernelConnect
  <2> QED BY <2>1, <2>2, <2>3, <1>4
<1>6. CASE Enter \/ BeginDrain \/ (\E c \in Conn : StopConn(c)) \/ EndDrain \/ QuitDrain \/ UNCHANGED vars
  BY <1>6, <1>4 DEF Enter, BeginDrain, StopConn, EndDrain, QuitDrain, vars
<1> QED BY <1>1, <1>2, <1>3, <1>5, <1>6 DEF Next

\* From the submission of a send to its completion the bytes it points at stay
\* where they are: what is staged meanwhile goes to the other half, and nothing
\* is compacted or reset (core/outbuf.hpp, stage and sent).
THEOREM PinnedBytesStay == Spec => PinnedStill
<1>1. IInv /\ [Next]_vars =>
        [\A c \in Conn : (k[c].pinned /\ k'[c].pinned /\ k'[c].g = k[c].g
                           /\ (\E o \in r.ker \cap r'.ker : o.c = c /\ o.op = "send"))
                          => k'[c].front = k[c].front /\ k'[c].off = k[c].off]_vars
  BY NextSteady DEF Steady, StillAt
<1> QED BY <1>1, UringInvariant, PTL DEF Spec, PinnedStill

\* run() returns with an operation still with the kernel only when a wait of the
\* drain was refused, whatever the kernel refuses (uring_io.cpp:567-572); and what
\* it leaves is of a connection still counted in flight, which the engine frees.
THEOREM DrainLeavesNothing == Spec => []DrainedAtEnd
<1>1. IInv => DrainedAtEnd
  <2> SUFFICES ASSUME IInv, mode \in {"ended", "quit"}, NEW o \in r.ker
               PROVE  mode = "quit" /\ k[o.c].st # "none" /\ k[o.c].g = o.g /\ k[o.c].inflight > 0
    BY DEF DrainedAtEnd
  <2> DEFINE run == mode = "run"
  <2>1. Sound(k, r, heard, run)
    BY Disassembled
  <2> HIDE DEF run
  <2>2. o.c \in Conn /\ k[o.c].inflight >= 1 /\ k[o.c].st # "none" /\ k[o.c].g = o.g
    BY <2>1, Referred
  <2>3. mode # "ended"
    BY <2>2 DEF IInv
  <2>4. k[o.c].inflight > 0
    BY <2>2, Disassembled, ConnTypes
  <2> QED BY <2>2, <2>3, <2>4
<1> QED BY <1>1, UringInvariant, PTL
=============================================================================
