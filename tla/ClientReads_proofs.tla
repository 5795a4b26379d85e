------------------------- MODULE ClientReads_proofs -------------------------
(***************************************************************************)
(* Lifecycle's clients read their own replies: the proof, for any clients, *)
(* venues, requests and bounds, on top of the invariant of                 *)
(* Lifecycle_proofs.                                                       *)
(***************************************************************************)
EXTENDS Lifecycle_proofs, NaturalsInduction, WellFoundedInduction

-----------------------------------------------------------------------------
(* The inductive invariant.                                                *)

Rx      == {s \in [n : Nat, mode : {"between", "body"}, raw : BOOLEAN] : s.raw => s.mode = "body"}
Ending  == {"w", "err", "end"}
Opening == {"100", "head", "w", "err"}
Inner   == {"t", "raw", "done", "end"}

\* Item i of what is owed, `o', is one the client can parse where it comes: a
\* message starts between two, an event or a chunk comes inside a stream, and
\* the end of an answer only of one a venue finished.  Behind bytes outside any
\* chunk there is nothing else to read.
Fits(s, o, i, fn) ==
  \/ /\ o[i].k \in Opening /\ s.mode = "between"
     /\ \A j \in 1..(i - 1) : o[j].k = "100"
  \/ /\ o[i].k \in Inner
     /\ s.mode = "body" \/ \E j \in 1..(i - 1) : o[j].k = "head"
     /\ o[i].k \in {"done", "end"} => o[i].r \in fn
     /\ o[i].k # "raw" => ~s.raw /\ \A j \in 1..(i - 1) : o[j].k # "raw"

\* A client that has read up to s, and is owed o, is in its m-th reply: o is
\* the rest of that reply and nothing else.
Owing(c, m, s, o, fn) ==
  /\ s.n + 1 = m \/ (s.n = m /\ s.mode = "between" /\ o = <<>>)
  /\ \A i \in 1..Len(o) :
       o[i].r = <<c, m>> /\ Fits(s, o, i, fn) /\ (o[i].k \in Ending => i = Len(o))

\* The reply the client is in: to the request in hand, or to the next.
Hand(n, phase, at) == IF phase # "Idle" \/ at \in {"dispatch", "error"} THEN n ELSE n + 1

Interim(s, o) == s.mode = "between" /\ \A i \in 1..Len(o) : o[i].k = "100"
Inside(s, o)   == s.mode = "body" \/ \E i \in 1..Len(o) : o[i].k = "head"
Bare(s, o)     == ~s.raw /\ \A i \in 1..Len(o) : o[i].k # "raw"
Unsaid(x)     == ~x.said /\ ~x.bodyDone /\ ~x.bad /\ ~x.ended /\ ~x.terminated

\* What a client's phase says of what it has read and is owed.
Told(s, x, at) ==
  /\ x.phase \in {"Idle", "Dispatched", "Responding"} => Interim(s, x.out)
  /\ x.phase \notin {"Streaming", "Replying"} /\ Hand(x.n, x.phase, at) = x.n => Unsaid(x)
  /\ x.phase = "Replying" => Last(x.out).k \in {"w", "err"}
  /\ x.phase = "Streaming" =>
       /\ Inside(s, x.out)
       /\ Bare(s, x.out) \/ (x.bad /\ x.closeAfter)
       /\ \A i \in 1..Len(x.out) :
            x.out[i].k \notin {"w", "err"} /\ (x.out[i].k = "end" => x.terminated)
       /\ x.terminated => x.ended /\ ~x.closeAfter
       /\ x.terminated /\ x.chunkedOut => x.out # <<>> /\ Last(x.out).k = "end"

\* What a stream has seen of its venue's answer, y being its upstream.
Heard(r, x, fn) == x.phase = "Streaming" => (x.said \/ (x.ended /\ ~x.closeAfter) => r \in fn)
Hearing(r, x, y, fn) ==
  x.phase = "Streaming" =>
    /\ x.ended /\ ~x.closeAfter => x.bodyDone /\ x.body # "se" /\ ~x.bad
    /\ y.venue \notin Translated =>
         /\ x.bodyDone => r \in fn
         /\ x.body = "se" => y.ans = "se" \/ r \in fn

Reads(c, s, x, at, fn) ==
  /\ s \in Rx
  /\ x.st # "closed" =>
       /\ s.n + 1 = Hand(x.n, x.phase, at)
       /\ Owing(c, Hand(x.n, x.phase, at), s, x.out, fn)
       /\ Told(s, x, at)
       /\ Heard(<<c, x.n>>, x, fn)

\* What an upstream holds is its own request's answer, its last item only of
\* a finished one.
Sends(y, fn) ==
  \A i \in 1..Len(y.rbuf) :
    /\ y.rbuf[i].r = y.ask
    /\ y.rbuf[i].k = "z" => y.ask \in fn
    /\ y.venue \notin Translated =>
         /\ y.rbuf[i].k = "y" => y.ask \in fn
         /\ y.rbuf[i].k = "se" => y.ans = "se" \/ y.ask \in fn

\* An EOF that ends a body without framing has finished the answer.
EofTold(y, fn) == y.venue \notin Translated /\ y.ans = "se" => y.ask \in fn
Eofs(td) == Owed(td) \cup {u \in Up : td # <<>> /\ td[1] \in {<<"upEof", u>>, <<"pumpEof", u>>}}

ReadInv ==
  /\ DOMAIN rx = Client
  /\ \A c \in Client : Reads(c, rx[c], cl[c], At(todo, c), fin)
  /\ \A c \in Client : cl[c].up # NoUp => Hearing(<<c, cl[c].n>>, cl[c], us[cl[c].up], fin)
  /\ \A u \in Up : Sends(us[u], fin)
  /\ \A u \in Eofs(todo) : EofTold(us[u], fin)

-----------------------------------------------------------------------------
(* What a client has read.                                                 *)

LEMMA LeastOf ==
  ASSUME NEW T, T \subseteq Nat, T # {}
  PROVE  \E n \in T : \A m \in T : n <= m
<1> DEFINE R == OpToRel(<, Nat)
<1>1. IsWellFoundedOn(R, Nat)
  BY NatLessThanWellFounded
<1>2. \A n, m \in Nat : n < m => <<n, m>> \in R
  BY DEF OpToRel
<1> HIDE DEF R
<1>3. PICK n \in T : \A m \in T : ~(<<m, n>> \in R)
  BY <1>1, WFMin
<1>4. \A m \in T : m \in Nat /\ n \in Nat /\ ~(m < n)
  BY <1>2, <1>3
<1> QED BY <1>3, <1>4

\* The client after i items of o, in closed form.
Seen(s, o, i) ==
  [n    |-> IF i # 0 /\ o[i].k \in Ending THEN s.n + 1 ELSE s.n,
   mode |-> IF i # 0 /\ o[i].k \in Ending THEN "between"
            ELSE IF s.mode = "body" \/ \E j \in 1..i : o[j].k = "head" THEN "body" ELSE "between",
   raw  |-> s.raw \/ \E j \in 1..i : o[j].k = "raw"]

LEMMA SeenNone ==
  ASSUME NEW s \in Rx, NEW o
  PROVE  Seen(s, o, 0) = s
<1>1. \A j : j \notin 1..0
  OBVIOUS
<1>2. s = [n |-> s.n, mode |-> s.mode, raw |-> s.raw] /\ s.mode \in {"between", "body"}
      /\ s.raw \in BOOLEAN
  BY DEF Rx
<1>3. (s.raw \/ \E j \in 1..0 : o[j].k = "raw") = s.raw
  BY <1>1, <1>2
<1> QED BY <1>1, <1>2, <1>3 DEF Seen

LEMMA NoRawBefore ==
  ASSUME NEW c, NEW m, NEW s \in Rx, NEW o, NEW fn, Owing(c, m, s, o, fn),
         NEW i \in 1..Len(o), o[i].k # "raw"
  PROVE  ~s.raw /\ \A j \in 1..(i - 1) : o[j].k # "raw"
<1>1. Fits(s, o, i, fn)
  BY DEF Owing
<1>2. s.mode = "between" => ~s.raw
  BY DEF Rx
<1> QED BY <1>1, <1>2 DEF Fits

LEMMA SeeOne ==
  ASSUME NEW c, NEW m, NEW s \in Rx, NEW o, IsSeq(o), Owing(c, m, s, o, fin),
         NEW i \in 1..Len(o)
  PROVE  See(c, Seen(s, o, i - 1), o[i]) = Seen(s, o, i)
<1> DEFINE q == Seen(s, o, i - 1)
           k == o[i].k
           h(j) == \E l \in 1..j : o[l].k = "head"
           w(j) == \E l \in 1..j : o[l].k = "raw"
<1>1. Len(o) \in Nat /\ i \in Nat \ {0} /\ i - 1 \in Nat /\ i <= Len(o)
  BY DEF IsSeq
<1>2. s.n \in Nat /\ s.mode \in {"between", "body"} /\ s.raw \in BOOLEAN
  BY DEF Rx
<1>3. o[i].r = <<c, m>> /\ Fits(s, o, i, fin) /\ o # <<>> /\ s.n + 1 = m
  <2>1. o # <<>>
    BY <1>1
  <2> QED BY <2>1 DEF Owing
<1>4. i - 1 # 0 => o[i - 1].k \notin Ending
  <2>1. i - 1 # 0 => i - 1 \in 1..Len(o) /\ i - 1 # Len(o)
    BY <1>1
  <2> QED BY <2>1 DEF Owing
<1>5. q = [n |-> s.n, mode |-> IF s.mode = "body" \/ h(i - 1) THEN "body" ELSE "between",
           raw |-> s.raw \/ w(i - 1)]
  BY <1>4 DEF Seen
<1>6. (h(i) <=> h(i - 1) \/ k = "head") /\ (w(i) <=> w(i - 1) \/ k = "raw")
  <2>1. \A l : l \in 1..i <=> l \in 1..(i - 1) \/ l = i
    BY <1>1
  <2> QED BY <2>1
<1>7. Seen(s, o, i) = [n |-> IF k \in Ending THEN s.n + 1 ELSE s.n,
                       mode |-> IF k \in Ending THEN "between"
                                ELSE IF s.mode = "body" \/ h(i) THEN "body" ELSE "between",
                       raw |-> s.raw \/ w(i)]
  BY <1>1 DEF Seen
<1>8. \/ k \in Opening /\ s.mode = "between" /\ ~h(i - 1)
      \/ k \in Inner /\ (s.mode = "body" \/ h(i - 1)) /\ (k \in {"done", "end"} => o[i].r \in fin)
  BY <1>3 DEF Fits
<1> DEFINE H == h(i - 1)
           H2 == h(i)
           W == s.raw \/ w(i - 1)
           W2 == s.raw \/ w(i)
<1>9. W \in BOOLEAN /\ W2 \in BOOLEAN /\ H \in BOOLEAN /\ H2 \in BOOLEAN
      /\ (W2 <=> W \/ k = "raw") /\ (H2 <=> H \/ k = "head")
  BY <1>6
<1>10. q = [n |-> s.n, mode |-> IF s.mode = "body" \/ H THEN "body" ELSE "between", raw |-> W]
  BY <1>5
<1>11. Seen(s, o, i) = [n |-> IF k \in Ending THEN s.n + 1 ELSE s.n,
                        mode |-> IF k \in Ending THEN "between"
                                 ELSE IF s.mode = "body" \/ H2 THEN "body" ELSE "between",
                        raw |-> W2]
  BY <1>7
<1>12. \/ k \in Opening /\ s.mode = "between" /\ ~H
       \/ k \in Inner /\ (s.mode = "body" \/ H) /\ (k \in {"done", "end"} => o[i].r \in fin)
  BY <1>8
<1>13. o[i].r = <<c, q.n + 1>> /\ q.mode # "bad"
  BY <1>3, <1>10
<1> SUFFICES See(c, q, o[i]) = Seen(s, o, i)
  BY DEF q
<1> HIDE DEF q, H, H2, W, W2, h, w
<1>14. (W # W2 => k = "raw") /\ (k # "raw" => ~q.raw)
  <2>1. k # "raw" => ~W
    BY NoRawBefore DEF W, w
  <2> QED BY <1>9, <1>10, <2>1
<1>20. CASE k = "100"
  BY <1>2, <1>9, <1>10, <1>11, <1>12, <1>13, <1>14, <1>20 DEF See, Opening, Inner, Ending
<1>21. CASE k \in {"w", "err"}
  BY <1>2, <1>9, <1>10, <1>11, <1>12, <1>13, <1>14, <1>21 DEF See, Opening, Inner, Ending
<1>22. CASE k = "head"
  BY <1>2, <1>9, <1>10, <1>11, <1>12, <1>13, <1>14, <1>22 DEF See, Opening, Inner, Ending
<1>23. CASE k = "t"
  BY <1>2, <1>9, <1>10, <1>11, <1>12, <1>13, <1>14, <1>23 DEF See, Opening, Inner, Ending
<1>24. CASE k = "raw"
  <2>1. W2 = TRUE
    BY <1>9, <1>24
  <2>2. q = [n |-> s.n, mode |-> "body", raw |-> W]
    BY <1>10, <1>12, <1>24 DEF Opening
  <2>3. See(c, q, o[i]) = [q EXCEPT !.raw = TRUE]
    BY <1>13, <1>24, <2>2 DEF See
  <2>4. Seen(s, o, i) = [n |-> s.n, mode |-> "body", raw |-> TRUE]
    <3>1. s.mode = "body" \/ H2
      BY <1>9, <1>12, <1>24 DEF Opening
    <3> QED BY <1>11, <1>24, <2>1, <3>1 DEF Ending
  <2> QED BY <2>2, <2>3, <2>4
<1>25. CASE k = "done"
  BY <1>2, <1>9, <1>10, <1>11, <1>12, <1>13, <1>14, <1>25 DEF See, Opening, Inner, Ending
<1>26. CASE k = "end"
  <2>1. W2 = W
    BY <1>14, <1>26
  <2>2. q = [n |-> s.n, mode |-> "body", raw |-> W] /\ o[i].r \in fin
    BY <1>10, <1>12, <1>26 DEF Opening
  <2>3. See(c, q, o[i]) = [q EXCEPT !.n = q.n + 1, !.mode = "between"]
    BY <1>13, <1>14, <1>26, <2>2 DEF See
  <2>4. Seen(s, o, i) = [n |-> s.n + 1, mode |-> "between", raw |-> W]
    BY <1>11, <1>26, <2>1 DEF Ending
  <2> QED BY <2>2, <2>3, <2>4
<1> QED BY <1>12, <1>20, <1>21, <1>22, <1>23, <1>24, <1>25, <1>26 DEF Opening, Inner

LEMMA SeeAllIs ==
  ASSUME NEW c, NEW m, NEW s \in Rx, NEW o, IsSeq(o), Owing(c, m, s, o, fin),
         NEW k \in 0..Len(o)
  PROVE  SeeAll(c, s, o, k) = Seen(s, o, k)
<1>1. Len(o) \in Nat /\ k \in Nat
  BY DEF IsSeq
<1> DEFINE body(f) == [i \in 0..k |-> IF i = 0 THEN s ELSE See(c, f[i - 1], o[i])]
           g == [i \in 0..k |-> Seen(s, o, i)]
           read == CHOOSE f : f = body(f)
<1>2. \A i \in 1..k : See(c, g[i - 1], o[i]) = g[i]
  <2> TAKE i \in 1..k
  <2>1. i \in 1..Len(o) /\ i \in 0..k /\ i - 1 \in 0..k
    BY <1>1
  <2>2. g[i] = Seen(s, o, i) /\ g[i - 1] = Seen(s, o, i - 1)
    BY <2>1
  <2> QED BY <2>1, <2>2, SeeOne
<1>3. g = body(g)
  <2>1. ASSUME NEW i \in 0..k
        PROVE  g[i] = IF i = 0 THEN s ELSE See(c, g[i - 1], o[i])
    <3>1. i = 0 \/ i \in 1..k
      BY <1>1
    <3>2. g[0] = s
      BY <1>1, SeenNone
    <3> HIDE DEF g
    <3> QED BY <1>2, <3>1, <3>2
  <2>2. g = [i \in 0..k |-> g[i]]
    OBVIOUS
  <2> HIDE DEF g
  <2> QED BY <2>1, <2>2
<1>4. read = body(read)
  <2> HIDE DEF g
  <2> QED BY <1>3
<1>5. \A i \in 0..k : read[i] = IF i = 0 THEN s ELSE See(c, read[i - 1], o[i])
  <2> HIDE DEF read
  <2> QED BY <1>4
<1> HIDE DEF body
<1> DEFINE T == {i \in 0..k : read[i] # g[i]}
<1>6. T = {}
  <2> SUFFICES ASSUME T # {} PROVE FALSE
    OBVIOUS
  <2>1. T \subseteq Nat
    BY <1>1
  <2>2. PICK n \in T : \A l \in T : n <= l
    BY <2>1, LeastOf
  <2>3. g[0] = s /\ read[0] = s
    BY <1>1, <1>5, SeenNone
  <2>4. n \in 1..k /\ n - 1 \in 0..k /\ n \in 0..k
    <3> HIDE DEF g, read
    <3> QED BY <1>1, <2>2, <2>3
  <2>5. n - 1 \notin T
    <3> HIDE DEF T
    <3> QED BY <2>2, <2>4
  <2>6. read[n - 1] = g[n - 1]
    BY <2>4, <2>5
  <2> HIDE DEF g, read
  <2>7. read[n] = g[n]
    BY <1>2, <1>5, <2>4, <2>6
  <2> QED BY <2>2, <2>7
<1>7. k \in 0..k
  BY <1>1
<1>8. read[k] = g[k]
  <2> HIDE DEF g, read
  <2> QED BY <1>6, <1>7
<1>9. g[k] = Seen(s, o, k)
  BY <1>7
<1> QED BY <1>8, <1>9 DEF SeeAll, body

LEMMA UnsentAt ==
  ASSUME NEW o, IsSeq(o), NEW k \in 0..Len(o)
  PROVE  /\ IsSeq(Unsent(o, k)) /\ Len(Unsent(o, k)) = Len(o) - k
         /\ \A i \in 1..Len(Unsent(o, k)) : Unsent(o, k)[i] = o[i + k] /\ i + k \in 1..Len(o)
         /\ k # Len(o) => Last(Unsent(o, k)) = Last(o)
<1> DEFINE S == {o[i] : i \in 1..Len(o)}
           t == Unsent(o, k)
<1>1. o \in Seq(S) /\ Len(o) \in Nat
  BY IsSeqOf DEF IsSeq
<1> HIDE DEF S
<1>2. /\ t \in Seq(S) /\ Len(t) = Len(o) - k
      /\ \A i \in 1..Len(t) : t[i] = o[i + k] /\ i + k \in 1..Len(o)
  BY <1>1 DEF Unsent
<1> HIDE DEF t
<1>3. k # Len(o) => Len(t) \in 1..Len(t) /\ Len(t) + k = Len(o)
  BY <1>1, <1>2
<1>4. k # Len(o) => Last(t) = Last(o)
  BY <1>2, <1>3 DEF Last
<1> QED BY <1>2, <1>4, SeqIs DEF t

\* The first k items delivered: the client is further in the same reply, and
\* has it whole when its last item, one that ends it, is among them.
Further(m, s, o, s2, o2, k) ==
  /\ k = Len(o) /\ o # <<>> /\ Last(o).k \in Ending => s2.n = m /\ s2.mode = "between"
  /\ k # Len(o) \/ (\A i \in 1..Len(o) : o[i].k \notin Ending) =>
       s2.n + 1 = m /\ (Inside(s, o) => Inside(s2, o2))
  /\ Interim(s, o) => Interim(s2, o2)
  /\ Bare(s, o) => Bare(s2, o2)
  /\ \A i \in 1..Len(o2) : \E j \in 1..Len(o) : o2[i] = o[j]
  /\ k # Len(o) => o2 # <<>> /\ Last(o2) = Last(o)

LEMMA Delivered ==
  ASSUME NEW c, NEW m \in Nat, NEW s \in Rx, NEW o, IsSeq(o), Owing(c, m, s, o, fin),
         s.n + 1 = m, NEW k \in 0..Len(o)
  PROVE  /\ SeeAll(c, s, o, k) \in Rx /\ IsSeq(Unsent(o, k))
         /\ Owing(c, m, SeeAll(c, s, o, k), Unsent(o, k), fin)
         /\ Further(m, s, o, SeeAll(c, s, o, k), Unsent(o, k), k)
<1> DEFINE s2 == Seen(s, o, k)
           o2 == Unsent(o, k)
           h  == \E j \in 1..k : o[j].k = "head"
           e  == k # 0 /\ o[k].k \in Ending
<1>1. SeeAll(c, s, o, k) = s2
  BY SeeAllIs
<1>2. Len(o) \in Nat /\ k \in Nat /\ k <= Len(o) /\ s.n \in Nat /\ s.mode \in {"between", "body"}
      /\ s.raw \in BOOLEAN
  BY DEF IsSeq, Rx
<1>3. /\ IsSeq(o2) /\ Len(o2) = Len(o) - k
      /\ \A i \in 1..Len(o2) : o2[i] = o[i + k] /\ i + k \in 1..Len(o)
      /\ k # Len(o) => Last(o2) = Last(o)
  BY UnsentAt
<1>4. s2.n = (IF e THEN s.n + 1 ELSE s.n)
      /\ s2.mode = (IF e THEN "between" ELSE IF s.mode = "body" \/ h THEN "body" ELSE "between")
  BY DEF Seen
<1>5. s2 \in Rx
  <2>1. (s.raw \/ \E j \in 1..k : o[j].k = "raw") \in BOOLEAN
    OBVIOUS
  <2> DEFINE rw == s.raw \/ \E j \in 1..k : o[j].k = "raw"
             nn == IF e THEN s.n + 1 ELSE s.n
             mm == IF e THEN "between" ELSE IF s.mode = "body" \/ h THEN "body" ELSE "between"
  <2>2. s2 = [n |-> nn, mode |-> mm, raw |-> rw]
    BY DEF Seen
  <2>3. nn \in Nat /\ mm \in {"between", "body"} /\ rw \in BOOLEAN
    BY <1>2
  <2>4. ~e => (rw => mm = "body")
    <3> SUFFICES ASSUME ~e, rw PROVE s.mode = "body" \/ h
      OBVIOUS
    <3>1. CASE s.raw
      BY <3>1 DEF Rx
    <3>2. ASSUME NEW j \in 1..k, o[j].k = "raw" PROVE s.mode = "body" \/ h
      <4>1. j \in 1..Len(o) /\ 1..(j - 1) \subseteq 1..k
        BY <1>2
      <4>2. Fits(s, o, j, fin)
        BY <4>1 DEF Owing
      <4> QED BY <3>2, <4>1, <4>2 DEF Fits, Opening
    <3> QED BY <3>1, <3>2
  <2>5. e => ~rw
    <3> SUFFICES ASSUME e PROVE ~rw
      OBVIOUS
    <3>1. k \in 1..Len(o) /\ o[k].k # "raw" /\ \A j \in 1..k : j \in 1..(k - 1) \/ j = k
      BY <1>2 DEF Ending
    <3> QED BY <3>1, NoRawBefore
  <2> HIDE DEF nn, mm, rw, s2
  <2>6. rw => mm = "body"
    BY <2>4, <2>5
  <2> QED BY <2>2, <2>3, <2>6 DEF Rx
<1>r. s2.raw <=> s.raw \/ \E j \in 1..k : o[j].k = "raw"
  BY <1>2 DEF Seen
<1> HIDE DEF s2, o2
<1>6. e => k = Len(o) /\ o # <<>> /\ Last(o) = o[k]
  BY <1>2 DEF Owing, Last
<1>7. k = Len(o) /\ o # <<>> /\ Last(o).k \in Ending => e
  <2>1. o # <<>> => Len(o) # 0
    BY IsSeqOf, EmptySeq
  <2> QED BY <1>2, <2>1 DEF Last
<1>8. k = Len(o) => o2 = <<>>
  <2>1. k = Len(o) => Len(o2) = 0
    BY <1>2, <1>3
  <2> QED BY <1>3, <2>1, IsSeqOf, EmptySeq
<1>9. k # Len(o) => o2 # <<>>
  BY UnsentIs DEF o2
<1>10. Owing(c, m, s2, o2, fin)
  <2>1. s2.n + 1 = m \/ (s2.n = m /\ s2.mode = "between" /\ o2 = <<>>)
    BY <1>2, <1>4, <1>6, <1>8
  <2>2. ASSUME NEW i \in 1..Len(o2)
        PROVE  o2[i].r = <<c, m>> /\ Fits(s2, o2, i, fin) /\ (o2[i].k \in Ending => i = Len(o2))
    <3> DEFINE l == i + k
    <3>1. /\ l \in 1..Len(o) /\ o2[i] = o[l] /\ ~e /\ i \in Nat \ {0} /\ l > k
          /\ l = Len(o) => i = Len(o2)
      BY <1>2, <1>3, <1>6
    <3>2. o[l].r = <<c, m>> /\ Fits(s, o, l, fin) /\ (o[l].k \in Ending => l = Len(o))
      BY <3>1 DEF Owing
    <3>3. \A j \in 1..(i - 1) : j + k \in 1..(l - 1) /\ o2[j] = o[j + k]
      BY <1>2, <1>3, <3>1
    <3>4. \A j \in 1..(l - 1) : j \in 1..k \/ (j - k \in 1..(i - 1) /\ o2[j - k] = o[j])
      <4> TAKE j \in 1..(l - 1)
      <4>1. j \in 1..k \/ (j - k \in 1..(i - 1) /\ j - k \in 1..Len(o2) /\ (j - k) + k = j)
        BY <1>2, <1>3, <3>1
      <4> QED BY <1>3, <4>1
    <3>5. 1..k \subseteq 1..(l - 1)
      BY <1>2, <3>1
    <3> HIDE DEF l
    <3>6. CASE o[l].k \in Opening /\ s.mode = "between" /\ \A j \in 1..(l - 1) : o[j].k = "100"
      <4>1. \A j \in 1..(i - 1) : o2[j].k = "100"
        BY <3>3, <3>6
      <4>2. s2.mode = "between"
        BY <1>4, <3>1, <3>5, <3>6
      <4> QED BY <3>1, <3>2, <3>6, <4>1, <4>2 DEF Fits
    <3>7. CASE /\ o[l].k \in Inner
               /\ s.mode = "body" \/ \E j \in 1..(l - 1) : o[j].k = "head"
               /\ o[l].k \in {"done", "end"} => o[l].r \in fin
               /\ o[l].k # "raw" => ~s.raw /\ \A j \in 1..(l - 1) : o[j].k # "raw"
      <4>2. o[l].k # "raw" => ~s2.raw /\ \A j \in 1..(i - 1) : o2[j].k # "raw"
        BY <1>r, <3>3, <3>5, <3>7
      <4>1. s2.mode = "body" \/ \E j \in 1..(i - 1) : o2[j].k = "head"
        BY <1>4, <3>1, <3>4, <3>7
      <4> QED BY <3>1, <3>2, <3>7, <4>1, <4>2 DEF Fits
    <3> QED BY <3>2, <3>6, <3>7 DEF Fits
  <2> QED BY <2>1, <2>2 DEF Owing
<1>11. k # Len(o) \/ (\A i \in 1..Len(o) : o[i].k \notin Ending) => ~e
  <2>1. k # 0 => k \in 1..Len(o)
    BY <1>2
  <2> QED BY <1>6, <2>1
<1>12. ~e /\ Inside(s, o) => Inside(s2, o2)
  <2> SUFFICES ASSUME ~e, Inside(s, o), s2.mode # "body" PROVE \E i \in 1..Len(o2) : o2[i].k = "head"
    BY DEF Inside
  <2>1. ~h /\ s.mode # "body"
    BY <1>4
  <2>2. PICK j \in 1..Len(o) : o[j].k = "head"
    BY <2>1 DEF Inside
  <2>3. j \notin 1..k
    BY <2>1, <2>2
  <2>4. j - k \in 1..Len(o2) /\ (j - k) + k = j
    BY <1>2, <1>3, <2>3
  <2> QED BY <1>3, <2>2, <2>4
<1>13. Interim(s, o) => Interim(s2, o2)
  <2> SUFFICES ASSUME Interim(s, o) PROVE Interim(s2, o2)
    OBVIOUS
  <2>1. \A i \in 1..k : i \in 1..Len(o) /\ o[i].k = "100"
    BY <1>2 DEF Interim
  <2>2. k # 0 => k \in 1..k
    BY <1>2
  <2>3. s2.mode = "between"
    BY <1>4, <2>1, <2>2 DEF Interim, Ending
  <2> QED BY <1>3, <2>3 DEF Interim
<1>b. Bare(s, o) => Bare(s2, o2)
  <2>1. 1..k \subseteq 1..Len(o)
    BY <1>2
  <2> QED BY <1>3, <1>r, <2>1 DEF Bare
<1>14. Further(m, s, o, s2, o2, k)
  <2>1. k = Len(o) /\ o # <<>> /\ Last(o).k \in Ending => s2.n = m /\ s2.mode = "between"
    BY <1>4, <1>7
  <2>2. k # Len(o) \/ (\A i \in 1..Len(o) : o[i].k \notin Ending) => s2.n + 1 = m /\ ~e
    BY <1>4, <1>11
  <2> QED BY <1>3, <1>9, <1>12, <1>13, <1>b, <2>1, <2>2 DEF Further
<1> QED BY <1>1, <1>3, <1>5, <1>10, <1>14 DEF o2

-----------------------------------------------------------------------------
(* What is staged.                                                         *)

More(o, e)   == Append(o, e)
Joined(o, q) == o \o q
EndsIn(t, e) == Last(t) = e
Of(e, c, m)  == e.r = <<c, m>>
Grown(t, o, e) == \A i \in 1..Len(t) : (i \in 1..Len(o) /\ t[i] = o[i]) \/ t[i] = e
Due(s, m)    == s.n + 1 = m
Unended(o)   == \A i \in 1..Len(o) : o[i].k \notin Ending
Inward(q, c, m, fn) ==
  \A i \in 1..Len(q) : /\ q[i].r = <<c, m>> /\ q[i].k \in Inner \ {"end"}
                       /\ q[i].k = "done" => q[i].r \in fn
Widened(t, o, q) ==
  /\ \A i \in 1..Len(t) : (i \in 1..Len(o) /\ t[i] = o[i])
                          \/ (q # <<>> /\ t[i].k \in Inner \ {"end"})
  /\ q = <<>> => t = o
MayCome(s, o, e, fn) ==
  \/ e.k \in Opening /\ Interim(s, o)
  \/ e.k \in Inner /\ Inside(s, o) /\ (e.k \in {"done", "end"} => e.r \in fn)
     /\ (e.k # "raw" => Bare(s, o))

\* What a step adds to o: bytes outside any chunk alone, or, if there are none
\* yet, items without any.
Level(s, o, q) ==
  (\A i \in 1..Len(q) : q[i].k = "raw") \/ (Bare(s, o) /\ \A i \in 1..Len(q) : q[i].k # "raw")

LEMMA OwingAppend ==
  ASSUME NEW c, NEW m, NEW s, NEW o, IsSeq(o), NEW fn, Owing(c, m, s, o, fn), Due(s, m),
         Unended(o), NEW e, Of(e, c, m), MayCome(s, o, e, fn),
         NEW t, t = More(o, e)
  PROVE  /\ Owing(c, m, s, t, fn) /\ IsSeq(t) /\ t # <<>> /\ EndsIn(t, e)
         /\ Inside(s, o) \/ e.k = "head" => Inside(s, t)
         /\ Bare(s, o) /\ e.k # "raw" => Bare(s, t)
         /\ Grown(t, o, e)
<1> DEFINE S == {o[i] : i \in 1..Len(o)} \cup {e}
<1>1. o \in Seq(S) /\ e \in S /\ Len(o) \in Nat
  BY IsSeqOf, SeqMonotonic DEF IsSeq
<1> HIDE DEF S
<1>2. /\ t \in Seq(S) /\ Len(t) = Len(o) + 1 /\ t[Len(o) + 1] = e
      /\ \A i \in 1..Len(o) : t[i] = o[i]
  BY <1>1 DEF More
<1>3. IsSeq(t) /\ t # <<>>
  BY AppendIs DEF More
<1>4. \A i \in 1..Len(t) : i \in 1..Len(o) \/ i = Len(o) + 1
  BY <1>1, <1>2
<1>5. ASSUME NEW i \in 1..Len(t)
      PROVE  t[i].r = <<c, m>> /\ Fits(s, t, i, fn) /\ (t[i].k \in Ending => i = Len(t))
  <2>1. \A j \in 1..(i - 1) : j \in 1..Len(o) /\ t[j] = o[j]
    BY <1>1, <1>2
  <2>2. CASE i \in 1..Len(o)
    <3>1. t[i] = o[i] /\ o[i].r = <<c, m>> /\ Fits(s, o, i, fn) /\ o[i].k \notin Ending
      BY <1>2, <2>2 DEF Owing, Unended
    <3>2. Fits(s, t, i, fn)
      BY <2>1, <3>1 DEF Fits
    <3> QED BY <3>1, <3>2
  <2>3. CASE i = Len(o) + 1
    <3>1. t[i] = e /\ i = Len(t) /\ 1..(i - 1) = 1..Len(o)
      BY <1>1, <1>2, <2>3
    <3>2. Fits(s, t, i, fn)
      BY <2>1, <3>1 DEF Fits, Interim, Inside, MayCome, Bare
    <3> QED BY <3>1, <3>2 DEF Of
  <2> QED BY <1>4, <2>2, <2>3
<1>6. Owing(c, m, s, t, fn)
  BY <1>5 DEF Owing, Due
<1>7. EndsIn(t, e)
  BY <1>2 DEF Last, EndsIn
<1>8. Len(o) + 1 \in 1..Len(t) /\ \A i \in 1..Len(o) : i \in 1..Len(t)
  BY <1>1, <1>2
<1>9. Inside(s, o) \/ e.k = "head" => Inside(s, t)
  BY <1>2, <1>8 DEF Inside
<1>10. Grown(t, o, e)
  BY <1>2, <1>4 DEF Grown
<1>11. Bare(s, o) /\ e.k # "raw" => Bare(s, t)
  BY <1>2, <1>4 DEF Bare
<1> QED BY <1>3, <1>6, <1>7, <1>9, <1>10, <1>11

LEMMA OwingConcat ==
  ASSUME NEW c, NEW m, NEW s, NEW o, IsSeq(o), NEW fn, Owing(c, m, s, o, fn), Due(s, m),
         Inside(s, o), NEW q, IsSeq(q), q = <<>> \/ Unended(o), Inward(q, c, m, fn),
         Level(s, o, q), NEW t, t = Joined(o, q)
  PROVE  /\ Owing(c, m, s, t, fn) /\ Inside(s, t) /\ Widened(t, o, q)
         /\ Bare(s, o) /\ (\A i \in 1..Len(q) : q[i].k # "raw") => Bare(s, t)
<1> DEFINE A == {o[i] : i \in 1..Len(o)}
           B == {q[i] : i \in 1..Len(q)}
           S == A \cup B
<1>a. o \in Seq(A) /\ q \in Seq(B) /\ Len(o) \in Nat /\ Len(q) \in Nat
  BY IsSeqOf DEF IsSeq
<1> HIDE DEF A, B
<1>1. o \in Seq(S) /\ q \in Seq(S)
  BY <1>a, SeqMonotonic
<1> HIDE DEF S
<1>2. /\ t \in Seq(S) /\ Len(t) = Len(o) + Len(q)
      /\ \A i \in 1..(Len(o) + Len(q)) : t[i] = IF i <= Len(o) THEN o[i] ELSE q[i - Len(o)]
  BY <1>1, ConcatProperties DEF Joined
<1>3. \A i \in 1..Len(o) : t[i] = o[i] /\ i \in 1..Len(t)
  BY <1>a, <1>2
<1>4. \A i \in 1..Len(t) : i \notin 1..Len(o) => /\ i - Len(o) \in 1..Len(q) /\ t[i] = q[i - Len(o)]
                                                 /\ 1..Len(o) \subseteq 1..(i - 1)
  BY <1>a, <1>2
<1>5. Len(q) # 0 => q # <<>>
  OBVIOUS
<1>6. ASSUME NEW i \in 1..Len(t)
      PROVE  t[i].r = <<c, m>> /\ Fits(s, t, i, fn) /\ (t[i].k \in Ending => i = Len(t))
  <2>1. CASE i \in 1..Len(o)
    <3>1. t[i] = o[i] /\ o[i].r = <<c, m>> /\ Fits(s, o, i, fn) /\ (o[i].k \in Ending => i = Len(o))
      BY <1>3, <2>1 DEF Owing
    <3>2. \A j \in 1..(i - 1) : t[j] = o[j]
      BY <1>a, <1>3, <2>1
    <3>3. Fits(s, t, i, fn)
      BY <3>1, <3>2 DEF Fits
    <3>4. o[i].k \in Ending => i = Len(t)
      BY <1>a, <1>2, <1>5, <2>1, <3>1 DEF Unended
    <3> QED BY <3>1, <3>3, <3>4
  <2>2. CASE i \notin 1..Len(o)
    <3>1. /\ t[i].r = <<c, m>> /\ t[i].k \in Inner \ {"end"} /\ (t[i].k = "done" => t[i].r \in fn)
          /\ 1..Len(o) \subseteq 1..(i - 1)
      BY <1>4, <2>2 DEF Inward
    <3>2. s.mode = "body" \/ \E j \in 1..(i - 1) : t[j].k = "head"
      BY <1>3, <3>1 DEF Inside
    <3>4. t[i].k # "raw" => ~s.raw /\ \A j \in 1..(i - 1) : t[j].k # "raw"
      <4> SUFFICES ASSUME t[i].k # "raw" PROVE ~s.raw /\ \A j \in 1..(i - 1) : t[j].k # "raw"
        OBVIOUS
      <4>1. Bare(s, o) /\ \A j \in 1..Len(q) : q[j].k # "raw"
        BY <1>4, <2>2 DEF Level
      <4>2. 1..(i - 1) \subseteq 1..Len(t)
        BY <1>a, <1>2
      <4> QED BY <1>3, <1>4, <4>1, <4>2 DEF Bare
    <3>3. Fits(s, t, i, fn)
      BY <3>1, <3>2, <3>4 DEF Fits
    <3> QED BY <3>1, <3>3 DEF Ending, Inner
  <2> QED BY <2>1, <2>2
<1>7. s.n + 1 = m \/ (s.n = m /\ s.mode = "between" /\ t = <<>>)
  BY DEF Due
<1>8. Owing(c, m, s, t, fn)
  BY <1>6, <1>7 DEF Owing
<1>9. Inside(s, t)
  BY <1>3 DEF Inside
<1>10. ASSUME NEW i \in 1..Len(t)
       PROVE  (i \in 1..Len(o) /\ t[i] = o[i]) \/ (q # <<>> /\ t[i].k \in Inner \ {"end"})
  <2>1. i \notin 1..Len(o) => q # <<>>
    BY <1>a, <1>4, <1>5
  <2> QED BY <1>3, <1>4, <2>1 DEF Inward
<1>11. q = <<>> => t = o
  BY <1>1, ConcatEmptySeq DEF Joined
<1>12. Bare(s, o) /\ (\A i \in 1..Len(q) : q[i].k # "raw") => Bare(s, t)
  BY <1>3, <1>4 DEF Bare
<1> QED BY <1>8, <1>9, <1>10, <1>11, <1>12 DEF Widened

LEMMA OwingGrows ==
  ASSUME NEW c, NEW m, NEW s, NEW o, NEW fn, NEW fn2, fn \subseteq fn2, Owing(c, m, s, o, fn)
  PROVE  Owing(c, m, s, o, fn2)
BY DEF Owing, Fits

LEMMA OwingNone ==
  ASSUME NEW c, NEW m, NEW s, NEW fn, s.n + 1 = m
  PROVE  Owing(c, m, s, <<>>, fn) /\ (s.mode = "between" => Interim(s, <<>>))
<1>1. \A i : i \notin 1..Len(<<>>)
  OBVIOUS
<1> QED BY <1>1 DEF Owing, Interim

-----------------------------------------------------------------------------
(* A step, of a client, of its upstreams and of the stack.                 *)

\* The routine running is done, and op on c is called ("none": no one).
Turns(c, op) ==
  /\ Alone(todo, c) /\ Alone(todo', c) /\ At(todo', c) = op
  /\ Eofs(todo') \subseteq Eofs(todo)

LEMMA EofsLeave ==
  ASSUME NEW td, NEW r, RestSound(r), OwedIn(r) = Owed(td)
  PROVE  Eofs(r) \subseteq Eofs(td)
<1>2. /\ Owed(r) \subseteq Owed(td)
      /\ r # <<>> => r[1] \in Entries /\ (r[1][1] = "gate" \/ (r[1][1] = "upEof" /\ r[1][2] \in Owed(td)))
  BY RestStack
<1>3. ASSUME NEW u \in Up, r # <<>>, r[1] \in {<<"upEof", u>>, <<"pumpEof", u>>}
      PROVE  u \in Owed(td)
  <2>1. r[1][2] = u /\ r[1][1] \in {"upEof", "pumpEof"}
    BY <1>3
  <2> QED BY <1>2, <1>3, <2>1
<1> QED BY <1>2, <1>3 DEF Eofs

LEMMA EofsGo ==
  ASSUME NEW td, NEW t, NEW x, NEW op, Goes(td, t, x, op), t # <<>>,
         t[1][1] \notin {"upEof", "pumpEof"}
  PROVE  Eofs(t) \subseteq Eofs(td)
<1>1. Owed(t) \subseteq Owed(td)
  BY DEF Goes
<1>2. ASSUME NEW u \in Up PROVE t[1] \notin {<<"upEof", u>>, <<"pumpEof", u>>}
  <2>1. <<"upEof", u>>[1] = "upEof" /\ <<"pumpEof", u>>[1] = "pumpEof"
    OBVIOUS
  <2> QED BY <2>1
<1> QED BY <1>1, <1>2 DEF Eofs

LEMMA TurnsLeave ==
  ASSUME NEW c \in Client, Alone(todo, c), Leaves(todo, todo')
  PROVE  Turns(c, "none")
<1>1. \A d \in Client : At(todo', d) = "none"
  BY RestStack DEF Leaves
<1> QED BY <1>1, EofsLeave DEF Turns, Alone, Leaves

LEMMA TurnsGo ==
  ASSUME NEW c \in Client, Alone(todo, c), NEW op, Goes(todo, todo', c, op), todo' # <<>>,
         todo'[1][1] \notin {"upEof", "pumpEof"}
  PROVE  Turns(c, op)
BY EofsGo DEF Turns, Goes, Alone

LEMMA TurnsReturn ==
  ASSUME NEW c \in Client, Alone(todo, c), StackSound(todo), todo # <<>>, todo[1][1] # "gate", Return
  PROVE  Turns(c, "none")
BY HeadReturns, TurnsLeave

LEMMA TurnsCall ==
  ASSUME NEW c \in Client, Alone(todo, c), StackSound(todo), todo # <<>>, todo[1][1] # "gate",
         NEW op \in ClientOps \ {"gate"}, Then(<<<<op, c>>>>)
  PROVE  Turns(c, op)
<1>1. Goes(todo, todo', c, op) /\ todo' # <<>> /\ todo'[1] = <<op, c>>
  BY HeadCalls
<1>2. todo'[1][1] = op /\ op \notin {"upEof", "pumpEof"}
  BY <1>1 DEF ClientOps
<1> QED BY <1>1, <1>2, TurnsGo

LEMMA TurnsCallUp ==
  ASSUME NEW c \in Client, Alone(todo, c), StackSound(todo), todo # <<>>, todo[1][1] # "gate",
         NEW u \in Up, NEW op \in UpOps \ {"upEof", "pumpEof"}, Then(<<<<op, u>>>>)
  PROVE  Turns(c, "none")
<1>1. Goes(todo, todo', c, "none") /\ todo' # <<>> /\ todo'[1] = <<op, u>>
  BY HeadCallsUp
<1>2. todo'[1][1] = op
  BY <1>1
<1> QED BY <1>1, <1>2, TurnsGo

LEMMA TurnsNext ==
  ASSUME NEW c \in Client, Alone(todo, c), StackSound(todo), todo # <<>>, todo[1][1] # "gate",
         Then(Bytes(c))
  PROVE  Turns(c, "frame")
<1>1. Goes(todo, todo', c, "frame") /\ todo' # <<>> /\ todo'[1] = <<"frame", c>>
  BY HeadNexts
<1>2. todo'[1][1] = "frame"
  BY <1>1
<1> QED BY <1>1, <1>2, TurnsGo

\* An upstream anew, or with no more than it had.
UpLess(y2, y) ==
  \/ y2.rbuf = <<>> /\ y2.ans = "none"
  \/ /\ y2.venue = y.venue /\ y2.ask = y.ask /\ y2.ans = y.ans
     /\ \A i \in 1..Len(y2.rbuf) : \E j \in 1..Len(y.rbuf) : y2.rbuf[i] = y.rbuf[j]

LEMMA LessSends ==
  ASSUME NEW y, NEW y2, UpLess(y2, y), NEW fn
  PROVE  (Sends(y, fn) => Sends(y2, fn)) /\ (EofTold(y, fn) => EofTold(y2, fn))
<1>1. CASE y2.rbuf = <<>> /\ y2.ans = "none"
  <2>1. \A i : i \notin 1..Len(y2.rbuf)
    BY <1>1
  <2> QED BY <1>1, <2>1 DEF Sends, EofTold
<1>2. CASE /\ y2.venue = y.venue /\ y2.ask = y.ask /\ y2.ans = y.ans
           /\ \A i \in 1..Len(y2.rbuf) : \E j \in 1..Len(y.rbuf) : y2.rbuf[i] = y.rbuf[j]
  <2>1. Sends(y, fn) => Sends(y2, fn)
    BY <1>2 DEF Sends
  <2> QED BY <1>2, <2>1 DEF EofTold
<1> QED BY <1>1, <1>2 DEF UpLess

LEMMA LessNew == \A y : UpLess(NewUp, y)
BY DEF UpLess, NewUp

LEMMA LessSame == \A y : UpLess(y, y)
BY DEF UpLess

\* Upstreams have no more than they had, and those of other clients than c
\* are left alone.
UpsLess(c) ==
  /\ \A u \in Up : UpLess(us'[u], us[u])
  /\ \A d \in Client : d # c /\ cl[d].up # NoUp => us'[cl[d].up] = us[cl[d].up]

LEMMA UpsSame ==
  ASSUME us' = us
  PROVE  \A c : UpsLess(c)
BY LessSame DEF UpsLess

LEMMA UpsLessOne ==
  ASSUME Inv, NEW u, ButUp(us', us, u), NEW c,
         u \in Up => UpLess(us'[u], us[u]) /\ us[u].c \in {c, NoClient}
  PROVE  UpsLess(c)
<1>1. ASSUME NEW x \in Up PROVE UpLess(us'[x], us[x])
  BY LessSame DEF ButUp
<1>2. ASSUME NEW d \in Client, d # c, cl[d].up # NoUp
      PROVE  us'[cl[d].up] = us[cl[d].up]
  <2>1. cl[d].up \in Up /\ us[cl[d].up].c = d
    BY <1>2, PairOf DEF Inv, Pair
  <2>2. cl[d].up # u
    BY <1>2, <2>1, NoUpOut
  <2> QED BY <2>1, <2>2 DEF ButUp
<1> QED BY <1>1, <1>2 DEF UpsLess

LEMMA UpsDrop ==
  ASSUME Inv, NEW c \in Client, us' = DropUp(c)
  PROVE  UpsLess(c)
<1>1. ButUp(us', us, cl[c].up) /\ (cl[c].up # NoUp => us'[cl[c].up] = NewUp)
  BY DropsUp
<1>2. cl[c].up \in Up => cl[c].up # NoUp
  BY NoUpOut
<1>3. cl[c].up # NoUp => us[cl[c].up].c = c
  BY PairOf DEF Inv, Pair
<1> QED BY <1>1, <1>2, <1>3, LessNew, UpsLessOne

\* Of the clients only c's side of things changes.
OnlyReads(c) ==
  /\ ButClient(cl', cl, c)
  /\ DOMAIN rx' = Client /\ \A d \in Client : d # c => rx'[d] = rx[d]
  /\ fin' = fin

LEMMA ReadSteps ==
  ASSUME Inv, ReadInv, NEW c \in Client, OnlyReads(c), NEW op, Turns(c, op), UpsLess(c),
         Reads(c, rx'[c], cl'[c], op, fin),
         cl'[c].up # NoUp => Hearing(<<c, cl'[c].n>>, cl'[c], us'[cl'[c].up], fin)
  PROVE  ReadInv'
<1>1. ASSUME NEW d \in Client
      PROVE  Reads(d, rx'[d], cl'[d], At(todo', d), fin')
  <2>1. CASE d = c
    BY <2>1 DEF Turns, OnlyReads
  <2>2. CASE d # c
    <3>1. cl'[d] = cl[d] /\ rx'[d] = rx[d] /\ At(todo', d) = At(todo, d) /\ fin' = fin
      BY <2>2 DEF OnlyReads, ButClient, Turns, Alone
    <3> QED BY <3>1 DEF ReadInv
  <2> QED BY <2>1, <2>2
<1>2. ASSUME NEW d \in Client, cl'[d].up # NoUp
      PROVE  Hearing(<<d, cl'[d].n>>, cl'[d], us'[cl'[d].up], fin')
  <2>1. CASE d = c
    BY <1>2, <2>1 DEF OnlyReads
  <2>2. CASE d # c
    <3>1. cl'[d] = cl[d] /\ fin' = fin /\ us'[cl[d].up] = us[cl[d].up]
      BY <1>2, <2>2 DEF OnlyReads, ButClient, UpsLess
    <3> QED BY <1>2, <3>1 DEF ReadInv
  <2> QED BY <2>1, <2>2
<1>3. ASSUME NEW u \in Up PROVE Sends(us'[u], fin')
  BY LessSends DEF ReadInv, UpsLess, OnlyReads
<1>4. ASSUME NEW u \in Eofs(todo') PROVE EofTold(us'[u], fin')
  <2>1. u \in Eofs(todo) /\ u \in Up
    BY DEF Turns, Eofs, Owed
  <2> QED BY <2>1, LessSends DEF ReadInv, UpsLess, OnlyReads
<1> QED BY <1>1, <1>2, <1>3, <1>4 DEF ReadInv, OnlyReads

\* The client is closed.
LEMMA ReadShuts ==
  ASSUME Inv, ReadInv, NEW c \in Client, OnlyReads(c), Turns(c, "none"), UpsLess(c),
         rx'[c] \in Rx, cl'[c] = Closed(c)
  PROVE  ReadInv'
<1>1. cl'[c].st = "closed" /\ cl'[c].up = NoUp
  BY DEF Closed, NewClient
<1>2. Reads(c, rx'[c], cl'[c], "none", fin)
  BY <1>1 DEF Reads
<1> QED BY <1>1, <1>2, ReadSteps

LEMMA ReadCloses ==
  ASSUME Inv, ReadInv, NEW c \in Client, Turns(c, "none"), CloseClient(c)
  PROVE  ReadInv'
<1>1. DOMAIN cl = Client /\ DOMAIN rx = Client /\ rx[c] \in Rx
  BY DEF Inv, ReadInv, Reads
<1>2. rx' = rx /\ fin' = fin /\ us' = DropUp(c) /\ cl' = [cl EXCEPT ![c] = Closed(c)]
  BY DEF CloseClient
<1>3. OnlyReads(c) /\ cl'[c] = Closed(c) /\ rx'[c] \in Rx
  BY <1>1, <1>2 DEF OnlyReads, ButClient
<1>4. UpsLess(c)
  BY <1>2, UpsDrop
<1> QED BY <1>3, <1>4, ReadShuts

-----------------------------------------------------------------------------
(* Steps that leave what a client reads and is owed as it was.             *)

SameStream(y, x) ==
  /\ y.said = x.said /\ y.bodyDone = x.bodyDone /\ y.bad = x.bad /\ y.ended = x.ended
  /\ y.terminated = x.terminated /\ y.chunkedOut = x.chunkedOut /\ y.body = x.body
  /\ y.closeAfter = x.closeAfter
Alike(y, x) ==
  /\ y.st = x.st /\ y.n = x.n /\ y.phase = x.phase /\ y.out = x.out
  /\ SameStream(y, x)

\* Whether a request is in hand with no phase to say so.
InHand(at) == at \in {"dispatch", "error"}

LEMMA ReadsAlike ==
  ASSUME NEW c, NEW s, NEW x, NEW y, NEW at, NEW op, NEW fn, Reads(c, s, x, at, fn),
         Alike(y, x), x.phase # "Idle" \/ (InHand(op) <=> InHand(at))
  PROVE  Reads(c, s, y, op, fn)
<1>1. Hand(y.n, y.phase, op) = Hand(x.n, x.phase, at)
  BY DEF Hand, Alike, InHand
<1>2. Told(s, x, at) /\ x.st # "closed" => Told(s, y, op)
  BY <1>1 DEF Told, Alike, SameStream, Unsaid
<1>3. Heard(<<c, x.n>>, x, fn) => Heard(<<c, y.n>>, y, fn)
  BY DEF Heard, Alike, SameStream
<1> QED BY <1>1, <1>2, <1>3 DEF Reads, Alike

LEMMA ReadAlike ==
  ASSUME Inv, ReadInv, NEW c \in Client, OnlyReads(c), rx'[c] = rx[c], NEW op, Turns(c, op),
         UpsLess(c), Alike(cl'[c], cl[c]),
         cl[c].phase # "Idle" \/ (InHand(op) <=> InHand(At(todo, c))),
         cl'[c].up # NoUp /\ cl[c].phase = "Streaming" =>
           /\ cl'[c].up = cl[c].up /\ us'[cl[c].up].venue = us[cl[c].up].venue
           /\ us'[cl[c].up].ans = us[cl[c].up].ans
  PROVE  ReadInv'
<1>1. Reads(c, rx'[c], cl'[c], op, fin)
  <2>1. Reads(c, rx[c], cl[c], At(todo, c), fin)
    BY DEF ReadInv
  <2> QED BY <2>1, ReadsAlike
<1>2. cl'[c].up # NoUp => Hearing(<<c, cl'[c].n>>, cl'[c], us'[cl'[c].up], fin)
  <2>1. CASE cl[c].phase # "Streaming"
    BY <2>1 DEF Hearing, Alike
  <2>2. CASE cl[c].phase = "Streaming"
    <3> SUFFICES ASSUME cl'[c].up # NoUp PROVE Hearing(<<c, cl'[c].n>>, cl'[c], us'[cl'[c].up], fin)
      OBVIOUS
    <3>1. Hearing(<<c, cl[c].n>>, cl[c], us[cl[c].up], fin) /\ cl'[c].up = cl[c].up
      BY <2>2 DEF ReadInv
    <3> QED BY <2>2, <3>1 DEF Hearing, Alike, SameStream
  <2> QED BY <2>1, <2>2
<1> QED BY <1>1, <1>2, ReadSteps

\* Only the stack changes.
LEMMA ReadStays ==
  ASSUME Inv, ReadInv, NEW c \in Client, cl' = cl, us' = us, rx' = rx, fin' = fin, NEW op,
         Turns(c, op), cl[c].phase # "Idle" \/ (InHand(op) <=> InHand(At(todo, c)))
  PROVE  ReadInv'
<1>1. OnlyReads(c) /\ Alike(cl'[c], cl[c])
  BY DEF OnlyReads, ButClient, ReadInv, Alike, SameStream
<1>2. UpsLess(c)
  BY UpsSame
<1> QED BY <1>1, <1>2, ReadAlike

\* A client's record, as the invariant has it.
LEMMA InvShape ==
  ASSUME Inv, NEW c \in Client
  PROVE  /\ ClientShape(cl[c]) /\ IsSeq(cl[c].out) /\ cl[c].n \in Nat
         /\ Mode(cl[c].st, cl[c].phase, cl[c].up, cl[c].n, cl[c].streaming, cl[c].ended,
                 cl[c].closeAfter, cl[c].sunk, cl[c].mute, At(todo, c))
         /\ Pipe(cl[c].st, cl[c].rbuf, cl[c].sent, cl[c].n, cl[c].saved, cl[c].phase,
                 cl[c].closeAfter, At(todo, c))
<1>1. Local(c, cl[c], At(todo, c), Gated(todo, c), recs, answered)
  BY DEF Inv
<1>2. ClientShape(cl[c])
  BY <1>1 DEF Local, ClientSound
<1>3. cl[c].n \in Nat
  BY <1>2 DEF ClientShape
<1> QED BY <1>1, <1>2, <1>3 DEF Local, ClientSound

LEMMA GateReads ==
  ASSUME Inv, ReadInv, NEW c \in Client, Gate(c)
  PROVE  ReadInv'
<1>1. todo # <<>> /\ StackSound(todo) /\ Head(todo) = <<"gate", c>> /\ DOMAIN cl = Client
  BY DEF Inv, Gate, Runs
<1>2. todo[1] = <<"gate", c>> /\ RestSound(Tail(todo)) /\ OwedIn(Tail(todo)) = Owed(todo)
  BY <1>1, TailRest
<1>3. todo' = Tail(todo)
  BY <1>2, EmptySeq DEF Gate, Return, Then, RestSound
<1>4. \A d \in Client : At(todo, d) = "none" /\ At(todo', d) = "none"
  <2>1. \A d \in Client : At(todo', d) = "none"
    BY <1>2, <1>3, RestStack
  <2>2. \A d \in Client : At(todo, d) = "none"
    BY <1>2 DEF At
  <2> QED BY <2>1, <2>2
<1>5. Turns(c, "none")
  BY <1>2, <1>3, <1>4, EofsLeave DEF Turns, Alone
<1>6. us' = us /\ rx' = rx /\ fin' = fin /\ ClientShape(cl[c])
  BY InvShape DEF Gate, hist
<1>7. OnlyReads(c) /\ Alike(cl'[c], cl[c]) /\ cl'[c].up = cl[c].up
  <2>1. OnlyReads(c)
    BY <1>1, <1>6 DEF Gate, OnlyReads, ButClient, ReadInv
  <2>2. cl'[c] = cl[c] \/ cl'[c] = [cl[c] EXCEPT !.paused = Over(c)]
    BY <1>1 DEF Gate
  <2> HIDE DEF Over
  <2> QED BY <1>6, <2>1, <2>2 DEF Alike, SameStream, ClientShape
<1>8. UpsLess(c)
  BY <1>6, UpsSame
<1> QED BY <1>4, <1>5, <1>6, <1>7, <1>8, ReadAlike DEF InHand

LEMMA FrameNothingReads ==
  ASSUME Inv, ReadInv, NEW c \in Client, FrameNothing(c)
  PROVE  ReadInv'
<1>1. /\ todo # <<>> /\ StackSound(todo) /\ todo[1][1] # "gate" /\ Alone(todo, c)
      /\ At(todo, c) = "frame"
  BY RunsClient DEF FrameNothing, ClientOps
<1>2. Turns(c, "none")
  BY <1>1, TurnsReturn DEF FrameNothing
<1>3. cl' = cl /\ us' = us /\ rx' = rx /\ fin' = fin
  BY DEF FrameNothing, hist
<1> QED BY <1>1, <1>2, <1>3, ReadStays DEF InHand

LEMMA DispatchRefusedReads ==
  ASSUME Inv, ReadInv, NEW c \in Client, DispatchRefused(c)
  PROVE  ReadInv'
<1>1. /\ todo # <<>> /\ StackSound(todo) /\ todo[1][1] # "gate" /\ Alone(todo, c)
      /\ At(todo, c) = "dispatch"
  BY RunsClient DEF DispatchRefused, ClientOps
<1>2. Turns(c, "error")
  BY <1>1, TurnsCall DEF DispatchRefused, ClientOps
<1>3. cl' = cl /\ us' = us /\ rx' = rx /\ fin' = fin
  BY DEF DispatchRefused, hist
<1> QED BY <1>1, <1>2, <1>3, ReadStays DEF InHand

LEMMA FailedReads ==
  ASSUME Inv, ReadInv, NEW c \in Client, Failed(c)
  PROVE  ReadInv'
<1>1. /\ todo # <<>> /\ StackSound(todo) /\ todo[1][1] # "gate" /\ Alone(todo, c)
      /\ At(todo, c) = "failed"
  BY RunsClient DEF Failed, ClientOps
<1>2. rx' = rx /\ fin' = fin /\ DOMAIN cl = Client /\ ClientShape(cl[c]) /\ cl[c].phase # "Idle"
  BY <1>1, InvShape DEF Failed, hist, Inv, Mode
<1>3. ASSUME NEW v \in Venue, us' = DropUp(c), Then(<<<<"dispatch", c>>>>),
             cl' = [cl EXCEPT ![c].up = NoUp, ![c].attempts = @ + 1, ![c].slot = v,
                              ![c].rbuf = <<cl[c].saved>> \o @]
      PROVE  ReadInv'
  <2>1. Turns(c, "dispatch")
    BY <1>1, <1>3, TurnsCall DEF ClientOps
  <2>2. cl'[c] = FailedOver(cl[c], v) /\ OnlyReads(c)
    BY <1>2, <1>3 DEF FailedOver, OnlyReads, ButClient, ReadInv
  <2>3. Alike(cl'[c], cl[c]) /\ cl'[c].up = NoUp
    BY <1>2, <2>2 DEF FailedOver, Alike, SameStream, ClientShape
  <2>4. UpsLess(c)
    BY <1>3, UpsDrop
  <2> QED BY <1>2, <2>1, <2>2, <2>3, <2>4, ReadAlike
<1>4. CASE Then(<<<<"error", c>>>>) /\ UNCHANGED <<cl, us>>
  <2>1. Turns(c, "error")
    BY <1>1, <1>4, TurnsCall DEF ClientOps
  <2> QED BY <1>2, <1>4, <2>1, ReadStays
<1> QED BY <1>3, <1>4 DEF Failed

-----------------------------------------------------------------------------
(* The client side.                                                        *)

\* Some of what is owed before a reply is delivered.
LEMMA ReadsInterim ==
  ASSUME NEW c, NEW s, NEW x, NEW at, Reads(c, s, x, at, fin), x.st # "closed", x.n \in Nat,
         x.phase \in {"Idle", "Dispatched", "Responding"}, NEW o, IsSeq(o),
         Owing(c, Hand(x.n, x.phase, at), s, o, fin), Interim(s, o), NEW k \in 0..Len(o),
         NEW y, y.n = x.n, y.phase = x.phase, SameStream(y, x), y.out = Unsent(o, k),
         NEW op, x.phase # "Idle" \/ (InHand(op) <=> InHand(at))
  PROVE  Reads(c, SeeAll(c, s, o, k), y, op, fin)
<1> DEFINE m == Hand(x.n, x.phase, at)
           s2 == SeeAll(c, s, o, k)
           o2 == Unsent(o, k)
<1>1. m \in Nat /\ s \in Rx /\ s.n + 1 = m /\ Told(s, x, at)
  BY DEF Reads, Hand
<1>2. Hand(y.n, y.phase, op) = m
  BY DEF Hand, InHand
<1> HIDE DEF m
<1>3. s2 \in Rx /\ IsSeq(o2) /\ Owing(c, m, s2, o2, fin) /\ Further(m, s, o, s2, o2, k)
  BY <1>1, Delivered DEF m
<1>4. \A i \in 1..Len(o) : o[i].k \notin Ending
  BY DEF Interim, Ending
<1> HIDE DEF s2, o2
<1>5. s2.n + 1 = m /\ Interim(s2, o2)
  BY <1>3, <1>4 DEF Further
<1>6. y.out = o2
  BY DEF o2
<1>7. Told(s2, y, op)
  BY <1>1, <1>2, <1>5, <1>6 DEF Told, SameStream, Unsaid, m
<1>8. Heard(<<c, y.n>>, y, fin)
  BY DEF Heard
<1>9. Reads(c, s2, y, op, fin)
  BY <1>2, <1>3, <1>5, <1>6, <1>7, <1>8 DEF Reads
<1> QED BY <1>9 DEF s2

\* Some of a reply, not all of it.
LEMMA ReadsSome ==
  ASSUME NEW c, NEW s, NEW x, NEW at, Reads(c, s, x, at, fin), x.st # "closed", x.n \in Nat,
         x.phase = "Replying", IsSeq(x.out), NEW k \in 0..Len(x.out), k # Len(x.out),
         NEW y, y.n = x.n, y.phase = x.phase, y.out = Unsent(x.out, k), NEW op
  PROVE  Reads(c, SeeAll(c, s, x.out, k), y, op, fin)
<1> DEFINE o == x.out
           s2 == SeeAll(c, s, o, k)
           o2 == Unsent(o, k)
<1>1. /\ s \in Rx /\ s.n + 1 = x.n /\ Owing(c, x.n, s, o, fin) /\ Last(o).k \in {"w", "err"}
  BY DEF Reads, Hand, Told
<1>2. s2 \in Rx /\ IsSeq(o2) /\ Owing(c, x.n, s2, o2, fin) /\ Further(x.n, s, o, s2, o2, k)
  BY <1>1, Delivered
<1> HIDE DEF s2, o2
<1>3. s2.n + 1 = x.n /\ Last(o2) = Last(o)
  BY <1>2 DEF Further
<1>4. y.out = o2 /\ Hand(y.n, y.phase, op) = x.n
  BY DEF o2, Hand
<1>5. Told(s2, y, op) /\ Heard(<<c, y.n>>, y, fin)
  BY <1>1, <1>3, <1>4 DEF Told, Heard
<1>6. Reads(c, s2, y, op, fin)
  BY <1>2, <1>3, <1>4, <1>5 DEF Reads
<1> QED BY <1>6 DEF s2

\* All of a reply that has its end.
LEMMA ReadsWhole ==
  ASSUME NEW c, NEW s, NEW o, NEW n \in Nat, s \in Rx, IsSeq(o), Owing(c, n, s, o, fin),
         s.n + 1 = n, o # <<>>, Last(o).k \in Ending,
         NEW y, y.n = n, y.phase = "Idle", y.out = <<>>
  PROVE  Reads(c, SeeAll(c, s, o, Len(o)), y, "frame", fin)
<1> DEFINE k == Len(o)
           s2 == SeeAll(c, s, o, k)
<1>1. k \in 0..Len(o)
  BY DEF IsSeq
<1>2. s2 \in Rx /\ Further(n, s, o, s2, Unsent(o, k), k)
  BY <1>1, Delivered
<1> HIDE DEF s2
<1>3. s2.n = n /\ s2.mode = "between"
  BY <1>2 DEF Further
<1>4. Hand(y.n, y.phase, "frame") = n + 1 /\ n + 1 # n
  BY DEF Hand
<1>5. Owing(c, n + 1, s2, <<>>, fin) /\ Interim(s2, <<>>)
  BY <1>3, OwingNone
<1>6. Told(s2, y, "frame") /\ Heard(<<c, y.n>>, y, fin)
  BY <1>4, <1>5 DEF Told, Heard
<1>7. Reads(c, s2, y, "frame", fin)
  BY <1>2, <1>3, <1>4, <1>5, <1>6 DEF Reads
<1> QED BY <1>7 DEF s2

\* A request in hand, told to a venue or heard of.
LEMMA ReadsMoves ==
  ASSUME NEW c, NEW s, NEW x, NEW at, NEW fn, Reads(c, s, x, at, fn), x.st # "closed", x.n \in Nat,
         x.phase \in {"Idle", "Dispatched", "Responding"}, x.phase # "Idle" \/ InHand(at),
         NEW y, y.n = x.n, y.phase \in {"Dispatched", "Responding"}, y.out = x.out,
         SameStream(y, x), NEW op
  PROVE  Reads(c, s, y, op, fn)
<1>1. Hand(x.n, x.phase, at) = x.n /\ Hand(y.n, y.phase, op) = x.n
  BY DEF Hand, InHand
<1>2. Told(s, y, op) /\ Heard(<<c, y.n>>, y, fn)
  BY <1>1 DEF Reads, Told, Heard, SameStream, Unsaid
<1> QED BY <1>1, <1>2 DEF Reads

\* Our own reply.
LEMMA ReadsError ==
  ASSUME NEW c, NEW s, NEW x, Reads(c, s, x, "error", fin), x.st # "closed",
         x.phase \in {"Idle", "Dispatched", "Responding"}, x.out = <<>>,
         NEW y, y.n = x.n, y.phase = "Replying", y.out = <<[r |-> <<c, x.n>>, k |-> "err"]>>, NEW op
  PROVE  Reads(c, s, y, op, fin)
<1> DEFINE e == [r |-> <<c, x.n>>, k |-> "err"]
           o == x.out
<1>1. s \in Rx /\ s.n + 1 = x.n /\ Interim(s, o) /\ Owing(c, x.n, s, o, fin)
  BY DEF Reads, Hand, Told
<1>2. e.r = <<c, x.n>> /\ e.k = "err" /\ e.k \in Opening
  BY DEF Opening
<1>3. IsSeq(o) /\ Unended(o)
  BY EmptyIs DEF Unended
<1>4. Hand(y.n, y.phase, op) = x.n /\ y.out = More(o, e)
  BY DEF Hand, More
<1> HIDE DEF e, o
<1>5. Owing(c, x.n, s, y.out, fin) /\ Last(y.out) = e
  <2> DEFINE m == x.n
             t == y.out
  <2>1. /\ Owing(c, m, s, o, fin) /\ Due(s, m) /\ Of(e, c, m) /\ MayCome(s, o, e, fin)
        /\ t = More(o, e)
    BY <1>1, <1>2, <1>4 DEF Due, MayCome, Of
  <2> HIDE DEF m, t
  <2>2. Owing(c, m, s, t, fin) /\ EndsIn(t, e)
    BY ONLY <2>1, <1>3, OwingAppend
  <2> QED BY <2>2 DEF m, t, EndsIn
<1>6. Told(s, y, op) /\ Heard(<<c, y.n>>, y, fin)
  BY <1>2, <1>5 DEF Told, Heard
<1> QED BY <1>1, <1>4, <1>5, <1>6 DEF Reads

\* The interim continue, staged behind what is owed.
LEMMA InterimAppend ==
  ASSUME NEW c, NEW m, NEW s, NEW o, IsSeq(o), NEW fn, Owing(c, m, s, o, fn), s.n + 1 = m,
         Interim(s, o), NEW e, e.r = <<c, m>>, e.k = "100", NEW t, t = More(o, e)
  PROVE  Owing(c, m, s, t, fn) /\ Interim(s, t) /\ IsSeq(t)
<1>1. /\ Of(e, c, m) /\ Unended(o) /\ IsSeq(o) /\ Owing(c, m, s, o, fn) /\ Due(s, m)
      /\ MayCome(s, o, e, fn) /\ t = More(o, e)
  BY DEF Opening, Ending, Interim, Unended, Due, MayCome, Of
<1>2. Owing(c, m, s, t, fn) /\ IsSeq(t) /\ Grown(t, o, e)
  BY ONLY <1>1, OwingAppend
<1>3. Interim(s, t)
  BY <1>2 DEF Interim, Grown
<1> QED BY <1>2, <1>3

LEMMA FrameContinueReads ==
  ASSUME Inv, ReadInv, NEW c \in Client, FrameContinue(c)
  PROVE  ReadInv'
<1> DEFINE i == [r |-> <<c, Head(cl[c].rbuf)>>, k |-> "100"]
           out == More(cl[c].out, i)
<1>1. /\ todo # <<>> /\ StackSound(todo) /\ todo[1][1] # "gate" /\ Alone(todo, c)
      /\ At(todo, c) = "frame"
  BY RunsClient DEF FrameContinue, ClientOps
<1>2. Turns(c, "none")
  BY <1>1, TurnsReturn DEF FrameContinue
<1>3. /\ Head(cl[c].rbuf) = cl[c].n + 1 /\ cl[c].n \in Nat /\ cl[c].phase = "Idle"
      /\ cl[c].st = "open" /\ DOMAIN cl = Client /\ ClientShape(cl[c]) /\ IsSeq(cl[c].out)
      /\ DOMAIN rx = Client /\ cl[c].up = NoUp
  BY <1>1, NextInLine, InvShape DEF FrameContinue, Inv, ReadInv, Mode
<1>4. /\ Reads(c, rx[c], cl[c], "frame", fin) /\ Hand(cl[c].n, cl[c].phase, "frame") = cl[c].n + 1
  BY <1>1, <1>3 DEF ReadInv, Hand
<1>5. /\ rx[c].n + 1 = cl[c].n + 1 /\ Owing(c, cl[c].n + 1, rx[c], cl[c].out, fin)
      /\ Interim(rx[c], cl[c].out)
  BY <1>3, <1>4 DEF Reads, Told
<1>6. i.r = <<c, cl[c].n + 1>> /\ i.k = "100"
  BY <1>3
<1> HIDE DEF i
<1>7. Owing(c, cl[c].n + 1, rx[c], out, fin) /\ Interim(rx[c], out) /\ IsSeq(out)
  BY ONLY <1>3, <1>5, <1>6, InterimAppend
<1> HIDE DEF out
<1>8. CASE CloseClient(c)
  BY <1>2, <1>8, ReadCloses
<1>9. ASSUME NEW k \in Written(out), Deliver(c, out, k), UNCHANGED <<us, pool, asks, recs, answered, fin>>,
             cl' = [cl EXCEPT ![c].out = Unsent(out, k), ![c].told = TRUE]
      PROVE  ReadInv'
  <2> DEFINE o == Unsent(out, k)
  <2>1. cl'[c] = Continued(cl[c], o) /\ OnlyReads(c) /\ rx'[c] = SeeAll(c, rx[c], out, k)
    <3> HIDE DEF o
    <3>1. cl'[c] = Continued(cl[c], o) /\ ButClient(cl', cl, c)
      BY <1>3, <1>9 DEF Continued, ButClient, o
    <3>2. rx' = [rx EXCEPT ![c] = SeeAll(c, rx[c], out, k)] /\ fin' = fin
      BY <1>9 DEF Deliver
    <3> QED BY <1>3, <3>1, <3>2 DEF OnlyReads
  <2> HIDE DEF o
  <2>2. /\ cl'[c].n = cl[c].n /\ cl'[c].phase = cl[c].phase /\ SameStream(cl'[c], cl[c])
        /\ cl'[c].out = o /\ cl'[c].up = NoUp
    BY <1>3, <2>1 DEF ClientShape, Continued, SameStream
  <2>3. Reads(c, rx'[c], cl'[c], "none", fin)
    <3>1. k \in 0..Len(out) /\ (InHand("none") <=> InHand("frame")) /\ cl'[c].out = Unsent(out, k)
          /\ cl[c].st # "closed" /\ cl[c].phase \in {"Idle", "Dispatched", "Responding"}
          /\ Owing(c, Hand(cl[c].n, cl[c].phase, "frame"), rx[c], out, fin)
      BY <1>3, <1>4, <1>7, <1>9, <2>2 DEF Written, InHand, o
    <3>2. Reads(c, SeeAll(c, rx[c], out, k), cl'[c], "none", fin)
      BY ONLY <1>3, <1>4, <1>7, <2>2, <3>1, ReadsInterim
    <3> QED BY <2>1, <3>2
  <2>4. UpsLess(c)
    BY <1>9, UpsSame
  <2> QED BY <1>2, <2>1, <2>2, <2>3, <2>4, ReadSteps
<1> QED BY <1>8, <1>9 DEF FrameContinue, i, out, More

LEMMA FrameReads ==
  ASSUME Inv, ReadInv, NEW c \in Client, Frame(c)
  PROVE  ReadInv'
<1>1. /\ todo # <<>> /\ StackSound(todo) /\ todo[1][1] # "gate" /\ Alone(todo, c)
      /\ At(todo, c) = "frame"
  BY RunsClient DEF Frame, ClientOps
<1>2. us' = us /\ rx' = rx /\ fin' = fin
  BY DEF Frame, hist
<1>3. /\ Head(cl[c].rbuf) = cl[c].n + 1 /\ cl[c].n \in Nat /\ cl[c].phase = "Idle"
      /\ cl[c].st = "open" /\ DOMAIN cl = Client /\ ClientShape(cl[c]) /\ IsSeq(cl[c].out)
      /\ DOMAIN rx = Client /\ cl[c].up = NoUp
  BY <1>1, NextInLine, InvShape DEF Frame, Inv, ReadInv, Mode
<1>4. PICK version \in Versions, v \in Venue, op \in {"error", "dispatch"} :
        cl' = [cl EXCEPT ![c] = Opened(cl[c], version, v)] /\ Then(<<<<op, c>>>>)
  <2>1. PICK version \in Versions :
          \/ /\ cl' = [cl EXCEPT ![c] = OpenRequest(c, version)]
             /\ Then(<<<<"error", c>>>>)
          \/ \E v \in IF Policy THEN Venue ELSE {FirstVenue} :
               /\ cl' = [cl EXCEPT ![c] = [OpenRequest(c, version) EXCEPT !.slot = v]]
               /\ Then(<<<<"dispatch", c>>>>)
    BY DEF Frame
  <2>2. CASE /\ cl' = [cl EXCEPT ![c] = OpenRequest(c, version)]
             /\ Then(<<<<"error", c>>>>)
    <3>1. OpenRequest(c, version) = Opened(cl[c], version, cl[c].slot) /\ cl[c].slot \in Venue
      BY <1>3 DEF OpenRequest, Opened, ClientShape
    <3> QED BY <2>2, <3>1
  <2>3. ASSUME NEW v \in IF Policy THEN Venue ELSE {FirstVenue},
               cl' = [cl EXCEPT ![c] = [OpenRequest(c, version) EXCEPT !.slot = v]],
               Then(<<<<"dispatch", c>>>>)
        PROVE  \E x \in Venue : cl' = [cl EXCEPT ![c] = Opened(cl[c], version, x)]
    <3>1. v \in Venue
      BY LifecycleConstants
    <3>2. [OpenRequest(c, version) EXCEPT !.slot = v] = Opened(cl[c], version, v)
      BY <1>3 DEF OpenRequest, Opened, ClientShape
    <3> QED BY <2>3, <3>1, <3>2
  <2> QED BY <2>1, <2>2, <2>3
<1>5. Turns(c, op)
  BY <1>1, <1>4, TurnsCall DEF ClientOps
<1>6. OnlyReads(c) /\ cl'[c] = Opened(cl[c], version, v)
  BY <1>2, <1>3, <1>4 DEF OnlyReads, ButClient
<1>7. /\ cl'[c].n = cl[c].n + 1 /\ cl'[c].phase = "Idle" /\ cl'[c].out = cl[c].out
      /\ cl'[c].up = NoUp /\ Unsaid(cl'[c]) /\ cl'[c].st = "open"
  BY <1>3, <1>6 DEF ClientShape, Opened, Unsaid
<1>8. /\ Reads(c, rx[c], cl[c], "frame", fin) /\ Hand(cl[c].n, cl[c].phase, "frame") = cl[c].n + 1
      /\ Hand(cl'[c].n, cl'[c].phase, op) = cl[c].n + 1
  BY <1>1, <1>3, <1>7 DEF ReadInv, Hand
<1>9. Reads(c, rx'[c], cl'[c], op, fin)
  <2>1. /\ rx[c] \in Rx /\ rx[c].n + 1 = cl[c].n + 1 /\ Owing(c, cl[c].n + 1, rx[c], cl[c].out, fin)
        /\ Interim(rx[c], cl[c].out)
    BY <1>3, <1>8 DEF Reads, Told
  <2>2. Told(rx[c], cl'[c], op) /\ Heard(<<c, cl'[c].n>>, cl'[c], fin)
    BY <1>7, <2>1 DEF Told, Heard
  <2> QED BY <1>2, <1>7, <1>8, <2>1, <2>2 DEF Reads
<1>10. UpsLess(c)
  BY <1>2, UpsSame
<1> QED BY <1>5, <1>6, <1>7, <1>9, <1>10, ReadSteps

LEMMA ReadDispatches ==
  ASSUME Inv, ReadInv, NEW c \in Client, At(todo, c) = "dispatch", OnlyReads(c), rx'[c] = rx[c],
         NEW op, Turns(c, op), UpsLess(c), cl'[c].n = cl[c].n, cl'[c].phase = "Dispatched",
         cl'[c].out = cl[c].out, SameStream(cl'[c], cl[c])
  PROVE  ReadInv'
<1> DEFINE x == cl[c]
           y == cl'[c]
           s == rx[c]
<1>1. /\ x.st # "closed" /\ x.n \in Nat /\ x.phase \in {"Idle", "Dispatched", "Responding"}
      /\ x.phase # "Idle" \/ InHand("dispatch")
  BY InvShape DEF Mode, InHand
<1>2. Reads(c, s, x, "dispatch", fin)
  BY DEF ReadInv
<1>3. /\ y.n = x.n /\ y.phase \in {"Dispatched", "Responding"} /\ y.out = x.out /\ SameStream(y, x)
  OBVIOUS
<1> HIDE DEF x, y, s
<1>4. Reads(c, s, y, op, fin)
  BY ONLY <1>1, <1>2, <1>3, ReadsMoves
<1>5. \A r, z : Hearing(r, y, z, fin)
  BY DEF Hearing, y
<1> QED BY <1>4, <1>5, ReadSteps DEF s, y

LEMMA DispatchNoConnReads ==
  ASSUME Inv, ReadInv, NEW c \in Client, DispatchNoConn(c)
  PROVE  ReadInv'
<1>1. /\ todo # <<>> /\ StackSound(todo) /\ todo[1][1] # "gate" /\ Alone(todo, c)
      /\ At(todo, c) = "dispatch"
  BY RunsClient DEF DispatchNoConn, ClientOps
<1>2. us' = us /\ rx' = rx /\ fin' = fin /\ DOMAIN cl = Client /\ ClientShape(cl[c])
  BY InvShape DEF DispatchNoConn, hist, Inv
<1>3. CASE /\ cl' = [cl EXCEPT ![c].phase = "Dispatched",
                               ![c].rbuf = IF cl[c].saved # 0 THEN Tail(@) ELSE @]
           /\ Then(<<<<"error", c>>>>)
  <2> DEFINE r == IF cl[c].saved # 0 THEN Tail(cl[c].rbuf) ELSE cl[c].rbuf
  <2>1. cl'[c] = NotConnected(cl[c], r) /\ OnlyReads(c)
    BY <1>2, <1>3 DEF NotConnected, OnlyReads, ButClient, ReadInv
  <2> HIDE DEF r
  <2>2. /\ cl'[c].n = cl[c].n /\ cl'[c].phase = "Dispatched" /\ cl'[c].out = cl[c].out
        /\ SameStream(cl'[c], cl[c])
    BY <1>2, <2>1 DEF NotConnected, ClientShape, SameStream
  <2>3. Turns(c, "error")
    BY <1>1, <1>3, TurnsCall DEF ClientOps
  <2>4. UpsLess(c)
    BY <1>2, UpsSame
  <2> QED BY <1>1, <1>2, <2>1, <2>2, <2>3, <2>4, ReadDispatches
<1>4. CASE /\ cl' = [cl EXCEPT ![c] = [TakeRequest(@) EXCEPT !.phase = "Dispatched"]]
           /\ Then(<<<<"failed", c>>>>)
  <2> DEFINE s == IF cl[c].saved # 0 \/ ~Policy \/ Cardinality(Venue) < 2 THEN cl[c].saved ELSE Head(cl[c].rbuf)
  <2>1. cl'[c] = Taken(cl[c], s) /\ OnlyReads(c)
    BY <1>2, <1>4 DEF OnlyReads, ButClient, Taken, TakeRequest, ReadInv
  <2> HIDE DEF s
  <2>2. /\ cl'[c].n = cl[c].n /\ cl'[c].phase = "Dispatched" /\ cl'[c].out = cl[c].out
        /\ SameStream(cl'[c], cl[c])
    BY <1>2, <2>1 DEF Taken, ClientShape, SameStream
  <2>3. Turns(c, "failed")
    BY <1>1, <1>4, TurnsCall DEF ClientOps
  <2>4. UpsLess(c)
    BY <1>2, UpsSame
  <2> QED BY <1>1, <1>2, <2>1, <2>2, <2>3, <2>4, ReadDispatches
<1> QED BY <1>3, <1>4 DEF DispatchNoConn

LEMMA DispatchReads ==
  ASSUME Inv, ReadInv, NEW c \in Client, Dispatch(c)
  PROVE  ReadInv'
<1> DEFINE v == cl[c].slot
           r == <<c, Head(cl[c].rbuf)>>
           s == IF cl[c].saved # 0 \/ ~Policy \/ Cardinality(Venue) < 2 THEN cl[c].saved ELSE Head(cl[c].rbuf)
<1>1. /\ todo # <<>> /\ StackSound(todo) /\ todo[1] = <<"dispatch", c>> /\ todo[1][1] # "gate"
      /\ Alone(todo, c) /\ At(todo, c) = "dispatch"
  BY RunsClient DEF Dispatch, ClientOps
<1>2. /\ DOMAIN cl = Client /\ DOMAIN us = Up /\ Owned(cl, us, pool, Owed(todo)) /\ v \in Venue
      /\ ClientShape(cl[c]) /\ rx' = rx /\ fin' = fin
  BY InvShape DEF Inv, ClientShape, Dispatch
<1>3. ASSUME NEW u, cl' = [cl EXCEPT ![c] = [TakeRequest(@) EXCEPT !.phase = "Dispatched", !.up = u,
                                                                   !.framed = TRUE]],
             Turns(c, "none"), UpsLess(c)
      PROVE  ReadInv'
  <2>1. cl'[c] = SentOff(cl[c], s, u) /\ OnlyReads(c)
    BY <1>2, <1>3 DEF OnlyReads, ButClient, SentOff, TakeRequest, ReadInv
  <2> HIDE DEF s
  <2>2. /\ cl'[c].n = cl[c].n /\ cl'[c].phase = "Dispatched" /\ cl'[c].out = cl[c].out
        /\ SameStream(cl'[c], cl[c])
    BY <1>2, <2>1 DEF SentOff, ClientShape, SameStream
  <2> QED BY <1>1, <1>2, <1>3, <2>1, <2>2, ReadDispatches
<1>4. CASE pool[v] # <<>>
  <2> DEFINE u == Head(pool[v])
  <2>1. PICK y : y = [us[u] EXCEPT !.st = "open", !.venue = v, !.c = c, !.fromPool = TRUE,
                                   !.retried = FALSE,
                                   !.ask = r, !.wire = "none", !.ans = "none", !.toks = 0, !.extra = FALSE]
    OBVIOUS
  <2>2. /\ cl' = [cl EXCEPT ![c] = [TakeRequest(@) EXCEPT !.phase = "Dispatched", !.up = u,
                                                          !.framed = TRUE]]
        /\ us' = [us EXCEPT ![u] = y] /\ Then(<<<<"send", u>>>>)
    BY <1>4, <2>1 DEF Dispatch
  <2>3. u \in Up /\ UpSound(us[u], u \in Owed(todo)) /\ Fit(us[u], v)
    <3>1. pool[v] \in Seq(Up) /\ (\A i \in 1..Len(pool[v]) : Fit(us[pool[v][i]], v))
          /\ \A x \in Up : UpSound(us[x], x \in Owed(todo))
      BY <1>2 DEF Owned, PoolSound
    <3> HIDE DEF v
    <3>2. u \in Up /\ u = pool[v][1] /\ 1 \in 1..Len(pool[v])
      BY <1>4, <3>1
    <3> QED BY <3>1, <3>2
  <2> HIDE DEF u, v, r
  <2>4. y.rbuf = <<>> /\ y.ans = "none" /\ us[u].c = NoClient
    BY <2>1, <2>3 DEF UpSound, UpShape, Fit
  <2>5. ButUp(us', us, u) /\ us'[u] = y
    BY <1>2, <2>2, <2>3 DEF ButUp
  <2>6. UpsLess(c)
    BY <2>4, <2>5, UpsLessOne DEF UpLess
  <2>7. Turns(c, "none")
    BY <1>1, <2>2, <2>3, TurnsCallUp DEF UpOps
  <2> QED BY <1>3, <2>2, <2>6, <2>7
<1>5. CASE pool[v] = <<>>
  <2> DEFINE u == Fresh
  <2>1. PICK y : y = [NewUp EXCEPT !.st = "connecting", !.venue = v, !.c = c, !.fromPool = FALSE,
                                   !.retried = FALSE,
                                   !.ask = r, !.wire = "none", !.ans = "none", !.toks = 0, !.extra = FALSE]
    OBVIOUS
  <2>2. /\ cl' = [cl EXCEPT ![c] = [TakeRequest(@) EXCEPT !.phase = "Dispatched", !.up = u,
                                                          !.framed = TRUE]]
        /\ us' = [us EXCEPT ![u] = y] /\ Return
    BY <1>5, <2>1 DEF Dispatch
  <2>3. u \in Up /\ us[u].st = "free" /\ us[u].c = NoClient
    <3>1. todo[1][2] \notin Up
      BY <1>1, Apart
    <3>2. u \in Up /\ us[u].st = "free"
      BY <1>1, <1>2, <3>1, FreshFree
    <3> QED BY <1>2, <3>2 DEF Owned, UpSound
  <2> HIDE DEF u, v, r
  <2>4. y.rbuf = <<>> /\ y.ans = "none"
    BY <2>1 DEF NewUp
  <2>5. ButUp(us', us, u) /\ us'[u] = y
    BY <1>2, <2>2, <2>3 DEF ButUp
  <2>6. UpsLess(c)
    BY <2>3, <2>4, <2>5, UpsLessOne DEF UpLess
  <2>7. Turns(c, "none")
    BY <1>1, <2>2, TurnsReturn
  <2> QED BY <1>3, <2>2, <2>6, <2>7
<1> QED BY <1>4, <1>5

LEMMA ErrorReads ==
  ASSUME Inv, ReadInv, NEW c \in Client, Error(c)
  PROVE  ReadInv'
<1>1. /\ todo # <<>> /\ StackSound(todo) /\ todo[1][1] # "gate" /\ Alone(todo, c)
      /\ At(todo, c) = "error"
  BY RunsClient DEF Error, ClientOps
<1>2. /\ Open(c) /\ cl[c].st = "open" /\ DOMAIN cl = Client /\ ClientShape(cl[c])
  BY <1>1, InvShape DEF Open, Mode, Inv
<1>3. CASE cl[c].phase \in {"Streaming", "Replying"} \/ cl[c].out # <<>>
  <2>1. Return /\ CloseClient(c)
    BY <1>2, <1>3 DEF Error
  <2>2. Turns(c, "none")
    BY <1>1, <2>1, TurnsReturn
  <2> QED BY <2>1, <2>2, ReadCloses
<1>4. CASE ~(cl[c].phase \in {"Streaming", "Replying"} \/ cl[c].out # <<>>)
  <2> DEFINE i == [r |-> <<c, cl[c].n>>, k |-> "err"]
             x == cl[c]
             y == cl'[c]
             s == rx[c]
  <2>1. /\ cl' = [cl EXCEPT ![c].out = <<i>>, ![c].phase = "Replying", ![c].closeAfter = TRUE,
                            ![c].up = NoUp]
        /\ us' = DropUp(c) /\ Then(<<<<"respond", c>>>>) /\ rx' = rx /\ fin' = fin
    BY <1>2, <1>4 DEF Error, hist, Req
  <2>2. Turns(c, "respond")
    BY <1>1, <2>1, TurnsCall DEF ClientOps
  <2>3. y = Answering(x, i) /\ OnlyReads(c)
    BY <1>2, <2>1 DEF Answering, OnlyReads, ButClient, ReadInv
  <2>4. y.n = x.n /\ y.phase = "Replying" /\ y.out = <<i>> /\ y.up = NoUp
    <3> HIDE DEF i
    <3> QED BY <1>2, <2>3 DEF Answering, ClientShape
  <2>5. /\ Reads(c, s, x, "error", fin) /\ x.st # "closed" /\ x.out = <<>>
        /\ x.phase \in {"Idle", "Dispatched", "Responding"}
    BY <1>1, <1>2, <1>4 DEF ReadInv, ClientShape, Phases
  <2>6. Reads(c, s, y, "respond", fin)
    <3> HIDE DEF x, y, s
    <3>1. i = [r |-> <<c, x.n>>, k |-> "err"]
      BY DEF x
    <3> HIDE DEF i
    <3> QED BY ONLY <2>4, <2>5, <3>1, ReadsError
  <2>7. UpsLess(c)
    BY <2>1, UpsDrop
  <2> QED BY <2>1, <2>2, <2>3, <2>4, <2>6, <2>7, ReadSteps
<1> QED BY <1>3, <1>4

LEMMA UnsentAll ==
  ASSUME NEW o, IsSeq(o)
  PROVE  Unsent(o, Len(o)) = <<>> /\ Len(o) \in 0..Len(o)
<1>1. Len(o) \in Nat
  BY DEF IsSeq
<1>2. IsSeq(Unsent(o, Len(o))) /\ Len(Unsent(o, Len(o))) = 0
  BY <1>1, UnsentAt
<1> QED BY <1>1, <1>2, IsSeqOf, EmptySeq

LEMMA DeliverIs ==
  ASSUME NEW c \in Client, NEW out, NEW k, Deliver(c, out, k), DOMAIN rx = Client
  PROVE  /\ rx'[c] = SeeAll(c, rx[c], out, k) /\ DOMAIN rx' = Client
         /\ \A d \in Client : d # c => rx'[d] = rx[d]
BY DEF Deliver

LEMMA RespondReads ==
  ASSUME Inv, ReadInv, NEW c \in Client, Respond(c)
  PROVE  ReadInv'
<1> DEFINE x == cl[c]
           y == cl'[c]
           s == rx[c]
           out == cl[c].out
<1>1. /\ todo # <<>> /\ StackSound(todo) /\ todo[1][1] # "gate" /\ Alone(todo, c)
      /\ At(todo, c) = "respond"
  BY RunsClient DEF Respond, ClientOps
<1>2. /\ x.phase # "Streaming" /\ x.phase \in Phases /\ x.st = "open" /\ DOMAIN cl = Client
      /\ ClientShape(x) /\ x.n \in Nat
      /\ IsSeq(out) /\ DOMAIN rx = Client /\ (x.phase = "Replying" => x.up = NoUp /\ out # <<>>)
  <2>1. Awake(x.st, x.phase, x.up, x.rbuf, x.half, x.out, x.ended, x.paused, "respond", Gated(todo, c))
    BY <1>1 DEF Inv, Local, ClientSound
  <2> QED BY <1>1, <2>1, InvShape DEF Mode, Inv, ReadInv, Awake, ClientShape
<1>3. Reads(c, s, x, "respond", fin) /\ s \in Rx /\ x.st # "closed"
  BY <1>1, <1>2 DEF ReadInv, Reads
<1>4. /\ s.n + 1 = Hand(x.n, x.phase, "respond") /\ Owing(c, Hand(x.n, x.phase, "respond"), s, out, fin)
      /\ Hand(x.n, x.phase, "respond") \in Nat /\ Told(s, x, "respond")
      /\ (x.phase = "Replying" => Hand(x.n, x.phase, "respond") = x.n)
  BY <1>2, <1>3 DEF Reads, Hand
<1>5. ASSUME NEW k \in 0..Len(out), Deliver(c, out, k), UNCHANGED fin, ButClient(cl', cl, c)
      PROVE  OnlyReads(c) /\ rx'[c] = SeeAll(c, s, out, k) /\ rx'[c] \in Rx
  <2> DEFINE m == Hand(x.n, x.phase, "respond")
  <2>1. m \in Nat /\ s \in Rx /\ IsSeq(out) /\ Owing(c, m, s, out, fin) /\ s.n + 1 = m
    BY <1>2, <1>3, <1>4
  <2>2. rx'[c] = SeeAll(c, s, out, k) /\ OnlyReads(c)
    BY <1>2, <1>5, DeliverIs DEF OnlyReads
  <2> HIDE DEF m, s, out
  <2>3. SeeAll(c, s, out, k) \in Rx
    BY ONLY <2>1, k \in 0..Len(out), Delivered
  <2> QED BY <2>2, <2>3
<1>6. ASSUME NEW k \in 0..Len(out), x.phase # "Replying", y = SentSome(x, Unsent(out, k)),
             rx'[c] = SeeAll(c, s, out, k), OnlyReads(c), us' = us, Return
      PROVE  ReadInv'
  <2> DEFINE o == Unsent(out, k)
  <2> HIDE DEF o
  <2>1. y.n = x.n /\ y.phase = x.phase /\ SameStream(y, x) /\ y.out = o
    <3>1. y = SentSome(x, o)
      BY <1>6 DEF o
    <3> HIDE DEF x, y
    <3> QED BY <1>2, <3>1 DEF SentSome, ClientShape, SameStream
  <2>2. Interim(s, out) /\ x.phase \in {"Idle", "Dispatched", "Responding"}
    BY <1>2, <1>4, <1>6 DEF Told, Phases
  <2>3. x.phase # "Idle" \/ (InHand("none") <=> InHand("respond"))
    BY DEF InHand
  <2>4. k \in 0..Len(out) /\ y.out = Unsent(out, k)
    BY <2>1 DEF o
  <2>5. Reads(c, rx'[c], y, "none", fin)
    <3> HIDE DEF x, y, out, s
    <3>1. Reads(c, SeeAll(c, s, out, k), y, "none", fin)
      BY ONLY <1>2, <1>3, <1>4, <2>1, <2>2, <2>3, <2>4, ReadsInterim
    <3> QED BY <1>6, <3>1
  <2>6. Turns(c, "none") /\ UpsLess(c)
    BY <1>1, <1>6, TurnsReturn, UpsSame
  <2>7. \A r, z : Hearing(r, y, z, fin)
    BY <1>2, <2>1 DEF Hearing
  <2> HIDE DEF s
  <2> QED BY <1>6, <2>5, <2>6, <2>7, ReadSteps
<1>7. CASE Deliver(c, out, Len(out)) /\ Finish(c)
  <2>1. fin' = fin /\ Len(out) \in 0..Len(out) /\ Unsent(out, Len(out)) = <<>>
    BY <1>2, <1>7, UnsentAll DEF Finish
  <2>2. CASE x.phase # "Replying"
    <3>1. cl' = [cl EXCEPT ![c].out = <<>>] /\ Return /\ us' = us
      BY <1>7, <2>2 DEF Finish
    <3>2. ButClient(cl', cl, c) /\ y = SentSome(x, <<>>)
      BY <1>2, <3>1 DEF ButClient, SentSome
    <3>3. OnlyReads(c) /\ rx'[c] = SeeAll(c, s, out, Len(out))
      <4> HIDE DEF out, s
      <4> QED BY <1>5, <1>7, <2>1, <3>2
    <3> HIDE DEF x, y, s, out
    <3> QED BY <1>6, <2>1, <2>2, <3>1, <3>2, <3>3
  <2>3. CASE x.phase = "Replying" /\ (x.closeAfter \/ x.msg = "close")
    <3>1. cl' = [cl EXCEPT ![c] = Closed(c)] /\ us' = DropUp(c) /\ Return
      BY <1>7, <2>3 DEF Finish
    <3>2. ButClient(cl', cl, c) /\ cl'[c] = Closed(c)
      BY <1>2, <3>1 DEF ButClient
    <3>3. OnlyReads(c) /\ rx'[c] \in Rx
      <4> HIDE DEF out, s
      <4> QED BY <1>5, <1>7, <2>1, <3>2
    <3>4. Turns(c, "none") /\ UpsLess(c)
      BY <1>1, <3>1, TurnsReturn, UpsDrop
    <3> QED BY <3>2, <3>3, <3>4, ReadShuts
  <2>4. CASE x.phase = "Replying" /\ ~(x.closeAfter \/ x.msg = "close")
    <3>1. cl' = [cl EXCEPT ![c] = [SinkEmit(cl[c]) EXCEPT !.out = <<>>, !.phase = "Idle"]]
          /\ us' = us /\ Then(Bytes(c))
      BY <1>7, <2>4 DEF Finish
    <3>2. ButClient(cl', cl, c) /\ y = Nexts(x)
      BY <1>2, <3>1 DEF ButClient, Nexts, SinkEmit
    <3>3. OnlyReads(c) /\ rx'[c] = SeeAll(c, s, out, Len(out))
      <4> HIDE DEF out, s
      <4> QED BY <1>5, <1>7, <2>1, <3>2
    <3>4. y.n = x.n /\ y.phase = "Idle" /\ y.out = <<>> /\ y.up = NoUp
      <4> HIDE DEF x, y
      <4> QED BY <1>2, <2>4, <3>2 DEF Nexts, ClientShape
    <3>5. Reads(c, rx'[c], y, "frame", fin)
      <4> DEFINE n == x.n
      <4>1. /\ n \in Nat /\ s \in Rx /\ IsSeq(out) /\ Owing(c, n, s, out, fin) /\ s.n + 1 = n
            /\ out # <<>> /\ Last(out).k \in Ending /\ y.n = n
        BY <1>2, <1>3, <1>4, <2>4, <3>4 DEF Told, Ending
      <4> HIDE DEF n, y, s, out
      <4>2. Reads(c, SeeAll(c, s, out, Len(out)), y, "frame", fin)
        BY ONLY <3>4, <4>1, ReadsWhole
      <4> QED BY <3>3, <4>2
    <3>6. Turns(c, "frame") /\ UpsLess(c)
      BY <1>1, <3>1, TurnsNext, UpsSame
    <3> QED BY <3>3, <3>4, <3>5, <3>6, ReadSteps
  <2> QED BY <2>2, <2>3, <2>4
<1>8. ASSUME NEW k \in Written(out) \ {Len(out)}, Deliver(c, out, k), Return,
             cl' = [cl EXCEPT ![c].out = Unsent(out, k)],
             UNCHANGED <<us, pool, asks, recs, answered, fin>>
      PROVE  ReadInv'
  <2> DEFINE o == Unsent(out, k)
  <2>1. k \in 0..Len(out) /\ k # Len(out) /\ us' = us /\ fin' = fin
    BY <1>8 DEF Written
  <2>2. ButClient(cl', cl, c) /\ y = SentSome(x, o)
    <3> HIDE DEF o
    <3> QED BY <1>2, <1>8 DEF ButClient, SentSome, o
  <2>3. OnlyReads(c) /\ rx'[c] = SeeAll(c, s, out, k)
    <3> HIDE DEF out, s
    <3> QED BY <1>5, <1>8, <2>1, <2>2
  <2>4. CASE x.phase # "Replying"
    <3> HIDE DEF x, y, s, out
    <3> QED BY <1>6, <1>8, <2>1, <2>2, <2>3, <2>4
  <2>5. CASE x.phase = "Replying"
    <3> HIDE DEF o
    <3>1. y.n = x.n /\ y.phase = x.phase /\ y.out = o /\ y.up = NoUp
      <4> HIDE DEF x, y
      <4> QED BY <1>2, <2>2, <2>5 DEF SentSome, ClientShape
    <3>2. y.out = Unsent(x.out, k) /\ k \in 0..Len(x.out) /\ k # Len(x.out) /\ IsSeq(x.out)
      BY <1>2, <2>1, <3>1 DEF o
    <3>3. rx'[c] = SeeAll(c, s, x.out, k)
      BY <2>3
    <3>4. Reads(c, rx'[c], y, "none", fin)
      <4> HIDE DEF x, y, s
      <4>1. Reads(c, SeeAll(c, s, x.out, k), y, "none", fin)
        BY ONLY <1>2, <1>3, <2>5, <3>1, <3>2, ReadsSome
      <4> QED BY <3>3, <4>1
    <3>5. Turns(c, "none") /\ UpsLess(c)
      BY <1>1, <1>8, <2>1, TurnsReturn, UpsSame
    <3> HIDE DEF s
    <3> QED BY <2>3, <3>1, <3>4, <3>5, ReadSteps
  <2> QED BY <2>4, <2>5
<1>9. CASE MayFail(out) /\ CloseClient(c) /\ Return
  <2>1. Turns(c, "none")
    BY <1>1, <1>9, TurnsReturn
  <2> QED BY <1>9, <2>1, ReadCloses
<1> QED BY <1>7, <1>8, <1>9 DEF Respond

-----------------------------------------------------------------------------
(* The upstream side.                                                      *)

\* A routine of upstream u runs for its client c.
Runner(c, u) ==
  /\ c \in Client /\ us[u].c = c /\ cl[c].up = u /\ u # NoUp
  /\ UpShape(us[u]) /\ IsSeq(us[u].rbuf) /\ us[u].ask = <<c, cl[c].n>> /\ us[u].st # "free"
  /\ todo # <<>> /\ StackSound(todo) /\ todo[1][1] # "gate" /\ Alone(todo, c) /\ At(todo, c) = "none"
  /\ ClientShape(cl[c]) /\ IsSeq(cl[c].out) /\ cl[c].n \in Nat /\ cl[c].st = "open"
  /\ cl[c].phase \in {"Dispatched", "Responding", "Streaming"}
  /\ cl[c].streaming <=> cl[c].phase = "Streaming"
  /\ cl[c].closeAfter => cl[c].phase = "Streaming"
  /\ DOMAIN cl = Client /\ DOMAIN us = Up /\ DOMAIN rx = Client
  /\ Reads(c, rx[c], cl[c], "none", fin) /\ Hearing(<<c, cl[c].n>>, cl[c], us[u], fin)
  /\ Sends(us[u], fin)

LEMMA UpRuns ==
  ASSUME Inv, ReadInv, NEW u \in Up, NEW op \in UpOps \ {"upEof"}, Runs(op, u), NEW c, c = us[u].c
  PROVE  Runner(c, u) /\ todo[1] = <<op, u>> /\ (op \in {"pump", "pumpEof"} => cl[c].phase = "Streaming")
<1>1. /\ c \in Client /\ cl[c].up = u /\ u # NoUp /\ UpSound(us[u], u \in Owed(todo))
      /\ Pair(c, cl[c].n, cl[c].phase, cl[c].out, us[u])
      /\ op \in {"pump", "pumpEof"} => cl[c].phase = "Streaming"
  BY RunsPaired
<1>2. /\ todo # <<>> /\ StackSound(todo) /\ todo[1] = <<op, u>> /\ todo[1][1] # "gate"
      /\ Alone(todo, c) /\ At(todo, c) = "none"
  BY <1>1, RunsUp
<1>3. /\ ClientShape(cl[c]) /\ IsSeq(cl[c].out) /\ cl[c].n \in Nat
      /\ Mode(cl[c].st, cl[c].phase, cl[c].up, cl[c].n, cl[c].streaming, cl[c].ended,
              cl[c].closeAfter, cl[c].sunk, cl[c].mute, "none")
  BY <1>1, <1>2, InvShape
<1>4. cl[c].phase \in Phases
  BY <1>3 DEF ClientShape
<1>5. /\ cl[c].st = "open" /\ (cl[c].streaming <=> cl[c].phase = "Streaming")
      /\ cl[c].phase \in {"Dispatched", "Responding", "Streaming"}
      /\ cl[c].closeAfter => cl[c].phase = "Streaming"
  BY <1>1, <1>3, <1>4 DEF Mode, Phases
<1>6. /\ Reads(c, rx[c], cl[c], "none", fin) /\ Hearing(<<c, cl[c].n>>, cl[c], us[u], fin)
      /\ Sends(us[u], fin) /\ DOMAIN cl = Client /\ DOMAIN us = Up /\ DOMAIN rx = Client
  BY <1>1, <1>2 DEF ReadInv, Inv
<1>7. us[u].c = c /\ us[u].ask = <<c, cl[c].n>> /\ us[u].st # "free"
  BY <1>1 DEF Pair
<1> QED BY <1>1, <1>2, <1>3, <1>5, <1>6, <1>7 DEF Runner, UpSound

\* The upstream's own flags change.
LEMMA UpFlags ==
  ASSUME NEW y, NEW y2, y2.venue = y.venue, y2.ask = y.ask, y2.ans = y.ans, y2.rbuf = y.rbuf
  PROVE  UpLess(y2, y)
BY DEF UpLess

LEMMA SendUpstreamReads ==
  ASSUME Inv, ReadInv, NEW u \in Up, SendUpstream(u)
  PROVE  ReadInv'
<1> PICK c : c = us[u].c
  OBVIOUS
<1>1. Runner(c, u)
  BY UpRuns DEF SendUpstream, UpOps
<1>2. cl' = cl /\ rx' = rx /\ fin' = fin
  BY DEF SendUpstream, hist
<1>3. ASSUME NEW q \in {"all", "part"}, us' = [us EXCEPT ![u].wire = q], Return
      PROVE  ReadInv'
  <2>1. /\ us'[u].venue = us[u].venue /\ us'[u].ask = us[u].ask /\ us'[u].ans = us[u].ans
        /\ us'[u].rbuf = us[u].rbuf /\ ButUp(us', us, u)
    BY <1>1, <1>3 DEF Runner, UpShape, ButUp
  <2>2. UpsLess(c)
    BY <1>1, <2>1, UpFlags, UpsLessOne DEF Runner
  <2>3. Turns(c, "none")
    BY <1>1, <1>3, TurnsReturn DEF Runner
  <2>4. OnlyReads(c) /\ Alike(cl'[c], cl[c])
    BY <1>1, <1>2 DEF OnlyReads, ButClient, Runner, Alike, SameStream
  <2>5. cl'[c].up = cl[c].up /\ cl[c].up = u /\ c \in Client /\ rx'[c] = rx[c] /\ cl[c].phase # "Idle"
    BY <1>1, <1>2 DEF Runner
  <2> QED BY <2>1, <2>2, <2>3, <2>4, <2>5, ReadAlike
<1>4. CASE Then(<<<<"lost", u>>>>) /\ us' = us
  <2>1. Turns(c, "none") /\ c \in Client /\ cl[c].phase # "Idle"
    BY <1>1, <1>4, TurnsCallUp DEF Runner, UpOps
  <2> QED BY <1>2, <1>4, <2>1, ReadStays
<1> QED BY <1>3, <1>4 DEF SendUpstream

LEMMA UpstreamLostReads ==
  ASSUME Inv, ReadInv, NEW u \in Up, UpstreamLost(u)
  PROVE  ReadInv'
<1> PICK c : c = us[u].c
  OBVIOUS
<1>1. Runner(c, u) /\ todo[1] = <<"lost", u>>
  BY UpRuns DEF UpstreamLost, UpOps
<1>2. c # NoClient /\ c \in Client /\ cl[c].phase # "Idle"
  BY <1>1, NoUpOut DEF Runner
<1>3. CASE /\ MayRetry(u)
           /\ us' = [us EXCEPT ![u] = NewUp,
                               ![Fresh] = [NewUp EXCEPT !.st = "connecting", !.venue = us[u].venue,
                                                        !.c = c, !.retried = TRUE, !.ask = us[u].ask]]
           /\ cl' = [cl EXCEPT ![c].up = Fresh]
           /\ Return
           /\ UNCHANGED <<pool, rx, recs, answered, fin>>
  <2> PICK w : w = Fresh
    OBVIOUS
  <2>1. PICK y : y = [NewUp EXCEPT !.st = "connecting", !.venue = us[u].venue,
                                   !.c = c, !.retried = TRUE, !.ask = us[u].ask]
    OBVIOUS
  <2>2. y.rbuf = <<>> /\ y.ans = "none"
    BY <2>1 DEF NewUp
  <2>3. w \in Up /\ us[w].st = "free"
    <3>1. todo[1][2] = u /\ us[u].st # "free" /\ Owned(cl, us, pool, Owed(todo))
      BY <1>1 DEF Runner, Inv
    <3> QED BY <1>1, <3>1, FreshFree DEF Runner
  <2>4. w # u /\ us'[w] = y /\ us'[u] = NewUp /\ \A v \in Up : v # u /\ v # w => us'[v] = us[v]
    BY <1>1, <1>3, <2>1, <2>3 DEF Runner
  <2>5. UpsLess(c)
    <3>1. ASSUME NEW v \in Up PROVE UpLess(us'[v], us[v])
      <4>1. UpLess(y, us[v])
        BY <2>2 DEF UpLess
      <4> QED BY <2>4, <4>1, LessNew, LessSame
    <3>2. ASSUME NEW d \in Client, d # c, cl[d].up # NoUp PROVE us'[cl[d].up] = us[cl[d].up]
      <4>1. cl[d].up \in Up /\ us[cl[d].up].c = d /\ us[cl[d].up].st # "free"
        BY <3>2, PairOf DEF Inv, Pair
      <4> QED BY <2>3, <2>4, <3>2, <4>1
    <3> QED BY <3>1, <3>2 DEF UpsLess
  <2>6. cl'[c] = Moved(cl[c], w) /\ OnlyReads(c) /\ rx'[c] = rx[c]
    BY <1>1, <1>3 DEF Moved, OnlyReads, ButClient, Runner
  <2>7. Alike(cl'[c], cl[c]) /\ cl[c].phase = "Dispatched"
    BY <1>1, <1>3, <2>6 DEF Runner, Moved, ClientShape, Alike, SameStream, MayRetry, CanRedispatch
  <2>8. Turns(c, "none")
    BY <1>1, <1>3, TurnsReturn DEF Runner
  <2> QED BY <1>2, <2>5, <2>6, <2>7, <2>8, ReadAlike
<1>4. ASSUME NEW op \in {"error", "failed"}, Then(<<<<op, c>>>>), UNCHANGED <<cl, us, pool, hist>>
      PROVE  ReadInv'
  <2>1. Turns(c, op)
    BY <1>1, <1>4, TurnsCall DEF Runner, ClientOps
  <2>2. cl' = cl /\ us' = us /\ rx' = rx /\ fin' = fin
    BY <1>4 DEF hist
  <2> QED BY <1>2, <2>1, <2>2, ReadStays
<1> QED BY <1>2, <1>3, <1>4 DEF UpstreamLost

\* release_upstream.
LEMMA ReleasedLess ==
  ASSUME Inv, NEW c \in Client, NEW u \in Up, u = cl[c].up,
         NEW left, NEW b, NEW e, ReleaseUp(u, left, b, e)
  PROVE  UpsLess(c)
<1>1. u # NoUp /\ DOMAIN us = Up
  BY NoUpOut DEF Inv
<1>2. us[u].c = c /\ UpShape(us[u])
  BY <1>1, PairOf DEF Inv, Pair, UpSound
<1>3. CASE left = <<>> /\ Poolable(u, b, e)
  <2>1. us' = [us EXCEPT ![u].c = NoClient, ![u].rbuf = <<>>, ![u].paused = FALSE]
    BY <1>3 DEF ReleaseUp
  <2>2. /\ us'[u].venue = us[u].venue /\ us'[u].ask = us[u].ask /\ us'[u].ans = us[u].ans
        /\ us'[u].rbuf = <<>> /\ ButUp(us', us, u)
    BY <1>1, <1>2, <2>1 DEF UpShape, ButUp
  <2>3. \A i : i \notin 1..Len(us'[u].rbuf)
    BY <2>2
  <2>4. UpLess(us'[u], us[u])
    BY <2>2, <2>3 DEF UpLess
  <2> QED BY <1>2, <2>2, <2>4, UpsLessOne
<1>4. CASE ~(left = <<>> /\ Poolable(u, b, e))
  <2>1. us' = [us EXCEPT ![u] = NewUp]
    BY <1>4 DEF ReleaseUp, FreeUp
  <2>2. us'[u] = NewUp /\ ButUp(us', us, u)
    BY <1>1, <2>1 DEF ButUp
  <2> QED BY <1>2, <2>2, LessNew, UpsLessOne
<1> QED BY <1>3, <1>4

\* A venue's whole reply.
LEMMA ReadsReply ==
  ASSUME NEW c, NEW s, NEW x, Reads(c, s, x, "none", fin), x.st # "closed",
         x.phase \in {"Dispatched", "Responding"}, IsSeq(x.out),
         NEW e, e.r = <<c, x.n>>, e.k = "w",
         NEW y, y.n = x.n, y.phase = "Replying", y.out = More(x.out, e), NEW op
  PROVE  Reads(c, s, y, op, fin)
<1> DEFINE o == x.out
           m == x.n
           t == y.out
<1>0. s \in Rx
  BY DEF Reads, Hand, Told
<1>1. s.n + 1 = m /\ Interim(s, o) /\ Owing(c, m, s, o, fin)
  BY DEF Reads, Hand, Told
<1>2. IsSeq(o) /\ t = More(o, e) /\ Of(e, c, m)
  BY DEF Of
<1>3. Unended(o) /\ Due(s, m) /\ Owing(c, m, s, o, fin) /\ MayCome(s, o, e, fin)
  BY <1>1 DEF Interim, Ending, Opening, Unended, Due, MayCome
<1> HIDE DEF o, m, t
<1>4. Owing(c, m, s, t, fin) /\ EndsIn(t, e)
  BY ONLY <1>2, <1>3, OwingAppend
<1>5. Hand(y.n, y.phase, op) = m
  BY DEF Hand, m
<1>6. Told(s, y, op) /\ Heard(<<c, y.n>>, y, fin)
  BY <1>4 DEF Told, Heard, t, EndsIn
<1> QED BY <1>0, <1>1, <1>4, <1>5, <1>6 DEF Reads, t

\* The first item of what an upstream holds.
LEMMA FirstItem ==
  ASSUME NEW y, NEW fn, Sends(y, fn), IsSeq(y.rbuf), y.rbuf # <<>>
  PROVE  /\ Head(y.rbuf) = y.rbuf[1] /\ Head(y.rbuf).r = y.ask
         /\ y.venue \notin Translated /\ Head(y.rbuf).k = "se" => y.ans = "se" \/ y.ask \in fn
         /\ \A i \in 1..Len(Tail(y.rbuf)) : \E j \in 1..Len(y.rbuf) : Tail(y.rbuf)[i] = y.rbuf[j]
<1> DEFINE q == y.rbuf
           S == {q[i] : i \in 1..Len(q)}
<1>1. q \in Seq(S) /\ q # <<>>
  BY IsSeqOf
<1> HIDE DEF S, q
<1>2. /\ Head(q) = q[1] /\ 1 \in 1..Len(q) /\ Len(Tail(q)) = Len(q) - 1 /\ Len(q) \in Nat
      /\ \A i \in 1..Len(Tail(q)) : Tail(q)[i] = q[i + 1]
  BY <1>1, HeadTailProperties
<1>3. \A i \in 1..Len(Tail(q)) : i + 1 \in 1..Len(q)
  BY <1>2
<1>4. \A i \in 1..Len(Tail(q)) : \E j \in 1..Len(q) : Tail(q)[i] = q[j]
  BY <1>2, <1>3
<1> QED BY <1>2, <1>4 DEF q, Sends

LEMMA OnResponseReads ==
  ASSUME Inv, ReadInv, NEW u \in Up, Runs("upBytes", u), ~cl[us[u].c].streaming,
         us[u].rbuf # <<>>, NEW len, OnResponse(u, len)
  PROVE  ReadInv'
<1> PICK c : c = us[u].c
  OBVIOUS
<1>1. Runner(c, u)
  BY UpRuns DEF UpOps
<1>2. cl[c].phase \in {"Dispatched", "Responding"} /\ c \in Client /\ u = cl[c].up
  BY <1>1 DEF Runner
<1>3. rx' = rx /\ fin' = fin
  BY DEF OnResponse, hist
<1>4. UpsLess(c)
  <2>1. PICK b \in BOOLEAN : ReleaseUp(u, Unsent(us[u].rbuf, len), b, TRUE)
    BY DEF OnResponse
  <2> QED BY <1>2, <2>1, ReleasedLess
<1>5. CASE /\ cl' = [cl EXCEPT ![c].up = NoUp, ![c].phase = "Replying",
                               ![c].out = Append(@, [r |-> Head(us[u].rbuf).r, k |-> "w"])]
           /\ Then(<<<<"respond", c>>>>)
  <2> DEFINE e == [r |-> Head(us[u].rbuf).r, k |-> "w"]
             o == More(cl[c].out, e)
             x == cl[c]
             y == cl'[c]
             s == rx[c]
  <2>1. e.r = <<c, x.n>> /\ e.k = "w"
    BY <1>1, FirstItem DEF Runner
  <2>2. y = Replies(x, o) /\ OnlyReads(c) /\ rx'[c] = s
    <3> HIDE DEF e
    <3> QED BY <1>1, <1>3, <1>5 DEF Replies, More, OnlyReads, ButClient, Runner, e
  <2> HIDE DEF e
  <2>3. y.n = x.n /\ y.phase = "Replying" /\ y.out = More(x.out, e) /\ y.up = NoUp
    <3>1. y.n = x.n /\ y.phase = "Replying" /\ y.out = o /\ y.up = NoUp
      <4> HIDE DEF o
      <4> QED BY <1>1, <2>2 DEF Runner, Replies, ClientShape
    <3> QED BY <3>1
  <2>4. /\ Reads(c, s, x, "none", fin) /\ x.st # "closed" /\ x.phase \in {"Dispatched", "Responding"}
        /\ IsSeq(x.out)
    BY <1>1, <1>2 DEF Runner
  <2>5. Turns(c, "respond")
    BY <1>1, <1>5, TurnsCall DEF Runner, ClientOps
  <2> HIDE DEF x, y, s
  <2>6. Reads(c, s, y, "respond", fin)
    BY ONLY <2>1, <2>3, <2>4, ReadsReply
  <2> QED BY <1>2, <1>4, <2>2, <2>3, <2>5, <2>6, ReadSteps DEF y
<1>6. CASE cl' = [cl EXCEPT ![c].up = NoUp] /\ Then(<<<<"error", c>>>>)
  <2>1. cl'[c] = Unpairs(cl[c]) /\ OnlyReads(c) /\ rx'[c] = rx[c]
    BY <1>1, <1>3, <1>6 DEF Unpairs, OnlyReads, ButClient, Runner
  <2>2. Alike(cl'[c], cl[c]) /\ cl'[c].up = NoUp
    BY <1>1, <2>1 DEF Runner, Unpairs, ClientShape, Alike, SameStream
  <2>3. Turns(c, "error")
    BY <1>1, <1>6, TurnsCall DEF Runner, ClientOps
  <2> QED BY <1>2, <1>4, <2>1, <2>2, <2>3, ReadAlike
<1> QED BY <1>5, <1>6 DEF OnResponse

\* The head of a stream.
LEMMA ReadsBegin ==
  ASSUME NEW c, NEW s, NEW x, NEW fn, Reads(c, s, x, "none", fn), x.st # "closed",
         x.phase \in {"Dispatched", "Responding"}, IsSeq(x.out),
         NEW e, e.r = <<c, x.n>>, e.k = "head",
         NEW y, y.n = x.n, y.phase = "Streaming", y.out = More(x.out, e), NEW op,
         y.said = x.said, y.ended = x.ended, y.terminated = x.terminated
  PROVE  Reads(c, s, y, op, fn)
<1> DEFINE o == x.out
           m == x.n
           t == y.out
<1>0. s \in Rx /\ Unsaid(x)
  BY DEF Reads, Hand, Told
<1>1. s.n + 1 = m /\ Interim(s, o) /\ Owing(c, m, s, o, fn)
  BY DEF Reads, Hand, Told
<1>2. IsSeq(o) /\ t = More(o, e) /\ Of(e, c, m)
  BY DEF Of
<1>3. Unended(o) /\ Due(s, m) /\ Owing(c, m, s, o, fn) /\ MayCome(s, o, e, fn)
  BY <1>1 DEF Interim, Ending, Opening, Unended, Due, MayCome
<1>a. e.k = "head"
  OBVIOUS
<1> HIDE DEF o, m, t
<1>4. Owing(c, m, s, t, fn) /\ Inside(s, t) /\ Grown(t, o, e)
  BY ONLY <1>2, <1>3, <1>a, OwingAppend
<1>5. Hand(y.n, y.phase, op) = m
  BY DEF Hand, m
<1>6. \A i \in 1..Len(t) : t[i].k \in {"100", "head"}
  BY <1>1, <1>4 DEF Interim, Grown
<1>7. ~y.said /\ ~y.ended /\ ~y.terminated
  BY <1>0 DEF Unsaid
<1>b. Bare(s, t)
  BY <1>0, <1>1, <1>6 DEF Bare, Interim, Rx
<1>8. Told(s, y, op) /\ Heard(<<c, y.n>>, y, fn)
  BY <1>4, <1>6, <1>7, <1>b DEF Told, Heard, t
<1> QED BY <1>0, <1>1, <1>4, <1>5, <1>8 DEF Reads, t

LEMMA BeginStreamReads ==
  ASSUME Inv, ReadInv, NEW u \in Up, Runs("upBytes", u), ~cl[us[u].c].streaming,
         us[u].rbuf # <<>>, us[u].rbuf[1].k \in Bodies, BeginStream(u)
  PROVE  ReadInv'
<1> PICK c : c = us[u].c
  OBVIOUS
<1>1. Runner(c, u)
  BY UpRuns DEF UpOps
<1>2. cl[c].phase \in {"Dispatched", "Responding"} /\ c \in Client /\ u = cl[c].up
  BY <1>1 DEF Runner
<1>3. rx' = rx /\ fin' = fin
  BY DEF BeginStream, hist
<1>4. PICK i : i = Head(us[u].rbuf)
  OBVIOUS
<1>5. /\ i.r = us[u].ask /\ i = us[u].rbuf[1]
      /\ us[u].venue \notin Translated /\ i.k = "se" => us[u].ans = "se" \/ us[u].ask \in fin
      /\ \A j \in 1..Len(Tail(us[u].rbuf)) : \E h \in 1..Len(us[u].rbuf) : Tail(us[u].rbuf)[j] = us[u].rbuf[h]
  BY <1>1, <1>4, FirstItem DEF Runner
<1>6. PICK b \in BOOLEAN :
        cl' = [cl EXCEPT ![c].streaming = TRUE, ![c].phase = "Streaming",
                         ![c].body = i.k, ![c].keepUp = b,
                         ![c].chunkedOut = (cl[c].msg = "keep"),
                         ![c].out = Append(@, [r |-> i.r, k |-> "head"])]
  BY <1>4 DEF BeginStream
<1> DEFINE e == [r |-> i.r, k |-> "head"]
           o == More(cl[c].out, e)
           d == (cl[c].msg = "keep")
           k == i.k
           x == cl[c]
           y == cl'[c]
           s == rx[c]
<1>7. e.r = <<c, x.n>> /\ e.k = "head" /\ k \in Bodies /\ d \in BOOLEAN
  BY <1>1, <1>5 DEF Runner
<1>8. y = Begun(x, k, b, d, o) /\ OnlyReads(c) /\ rx'[c] = s
  <2> HIDE DEF e, d, k
  <2> QED BY <1>1, <1>3, <1>6 DEF Begun, More, OnlyReads, ButClient, Runner, e, d, k
<1> HIDE DEF e, d
<1>9. /\ y.n = x.n /\ y.phase = "Streaming" /\ y.out = More(x.out, e) /\ y.up = u
      /\ y.said = x.said /\ y.ended = x.ended /\ y.terminated = x.terminated
      /\ y.bodyDone = x.bodyDone /\ y.body = i.k
  <2>1. /\ y.n = x.n /\ y.phase = "Streaming" /\ y.out = o /\ y.up = u
        /\ y.said = x.said /\ y.ended = x.ended /\ y.terminated = x.terminated
        /\ y.bodyDone = x.bodyDone /\ y.body = k
    <3> HIDE DEF o, k
    <3> QED BY <1>1, <1>2, <1>7, <1>8 DEF Runner, Begun, ClientShape
  <2> QED BY <2>1
<1> HIDE DEF o, k
<1>10. /\ Reads(c, s, x, "none", fin) /\ x.st # "closed" /\ x.phase \in {"Dispatched", "Responding"}
       /\ IsSeq(x.out)
  BY <1>1, <1>2 DEF Runner
<1>11. Unsaid(x)
  BY <1>10 DEF Reads, Told, Hand
<1>12. Turns(c, "none")
  BY <1>1, TurnsCallUp DEF Runner, UpOps, BeginStream
<1>13. /\ us'[u].venue = us[u].venue /\ us'[u].ask = us[u].ask /\ us'[u].ans = us[u].ans
       /\ us'[u].rbuf = Tail(us[u].rbuf) /\ ButUp(us', us, u)
  <2>1. us' = [us EXCEPT ![u].rbuf = Tail(@)]
    BY DEF BeginStream
  <2> QED BY <1>1, <2>1 DEF Runner, UpShape, ButUp
<1>14. UpsLess(c)
  <2>1. UpLess(us'[u], us[u])
    BY <1>5, <1>13 DEF UpLess
  <2> QED BY <1>1, <1>13, <2>1, UpsLessOne DEF Runner
<1>15. Reads(c, s, y, "none", fin)
  <2> HIDE DEF x, y, s
  <2> QED BY ONLY <1>7, <1>9, <1>10, ReadsBegin
<1>16. Hearing(<<c, y.n>>, y, us'[u], fin)
  <2>1. us[u].ask = <<c, y.n>>
    BY <1>1, <1>9 DEF Runner
  <2> HIDE DEF x, y
  <2> QED BY <1>5, <1>9, <1>11, <1>13, <2>1 DEF Hearing, Unsaid
<1> QED BY <1>2, <1>8, <1>9, <1>12, <1>14, <1>15, <1>16, ReadSteps

LEMMA UpstreamBytesReads ==
  ASSUME Inv, ReadInv, NEW u \in Up, UpstreamBytes(u)
  PROVE  ReadInv'
<1> PICK c : c = us[u].c
  OBVIOUS
<1>1. Runs("upBytes", u)
  BY DEF UpstreamBytes
<1>2. Runner(c, u)
  BY <1>1, UpRuns DEF UpOps
<1>3. c # NoClient /\ c \in Client /\ cl[c].phase # "Idle"
  BY <1>2, NoUpOut DEF Runner
<1>4. ASSUME NEW op \in {"none", "error"}, Turns(c, op), UNCHANGED <<cl, us, pool, hist>>
      PROVE  ReadInv'
  <2>1. cl' = cl /\ us' = us /\ rx' = rx /\ fin' = fin
    BY <1>4 DEF hist
  <2> QED BY <1>3, <1>4, <2>1, ReadStays
<1>5. CASE Then(<<<<"pump", u>>>>) /\ UNCHANGED <<cl, us, pool, hist>>
  <2>1. Turns(c, "none")
    BY <1>2, <1>5, TurnsCallUp DEF Runner, UpOps
  <2> QED BY <1>4, <1>5, <2>1
<1>6. CASE Return /\ UNCHANGED <<cl, us, pool, hist>>
  <2>1. Turns(c, "none")
    BY <1>2, <1>6, TurnsReturn DEF Runner
  <2> QED BY <1>4, <1>6, <2>1
<1>7. CASE Then(<<<<"error", c>>>>) /\ UNCHANGED <<cl, us, pool, hist>>
  <2>1. Turns(c, "error")
    BY <1>2, <1>7, TurnsCall DEF Runner, ClientOps
  <2> QED BY <1>4, <1>7, <2>1
<1>8. ASSUME NEW len, ~cl[c].streaming, us[u].rbuf # <<>>, OnResponse(u, len)
      PROVE  ReadInv'
  BY <1>1, <1>8, OnResponseReads
<1>9. CASE ~cl[c].streaming /\ us[u].rbuf # <<>> /\ us[u].rbuf[1].k \in Bodies /\ BeginStream(u)
  BY <1>1, <1>9, BeginStreamReads
<1>10. Len(us[u].rbuf) > 1 => us[u].rbuf # <<>>
  OBVIOUS
<1> QED BY <1>3, <1>5, <1>6, <1>7, <1>8, <1>9, <1>10 DEF UpstreamBytes

\* No client does anything.
LEMMA ReadIdle ==
  ASSUME ReadInv, cl' = cl, rx' = rx, fin' = fin, \A d \in Client : At(todo', d) = At(todo, d),
         \A u \in Up : UpLess(us'[u], us[u]),
         \A d \in Client : cl[d].up # NoUp => us'[cl[d].up] = us[cl[d].up],
         Eofs(todo') \subseteq Eofs(todo)
  PROVE  ReadInv'
<1>1. \A d \in Client : Reads(d, rx'[d], cl'[d], At(todo', d), fin')
  BY DEF ReadInv
<1>2. \A d \in Client : cl'[d].up # NoUp => Hearing(<<d, cl'[d].n>>, cl'[d], us'[cl'[d].up], fin')
  BY DEF ReadInv
<1>3. \A u \in Up : Sends(us'[u], fin')
  BY LessSends DEF ReadInv
<1>4. ASSUME NEW u \in Eofs(todo') PROVE EofTold(us'[u], fin')
  <2>1. u \in Eofs(todo) /\ u \in Up
    BY DEF Eofs, Owed
  <2> QED BY <2>1, LessSends DEF ReadInv
<1> QED BY <1>1, <1>2, <1>3, <1>4 DEF ReadInv

LEMMA UpstreamEofReads ==
  ASSUME Inv, ReadInv, NEW u \in Up, UpstreamEof(u)
  PROVE  ReadInv'
<1> PICK c : c = us[u].c
  OBVIOUS
<1>1. /\ todo # <<>> /\ StackSound(todo) /\ todo[1] = <<"upEof", u>> /\ todo[1][1] # "gate"
      /\ \A d \in Client : Alone(todo, d) /\ At(todo, d) = "none"
  BY RunsUp DEF UpstreamEof, UpOps
<1>2. /\ DOMAIN us = Up /\ Owned(cl, us, pool, Owed(todo)) /\ HeadFit(cl, us, todo)
  BY DEF Inv
<1>3. us[u].st = "free" \/ c # NoClient
  BY <1>1, <1>2 DEF HeadFit
<1>4. cl' = cl /\ rx' = rx /\ fin' = fin
  BY DEF UpstreamEof, hist
<1>5. CASE ~Live(u) \/ (us[u].eof /\ c = NoClient)
  <2>1. Return /\ us' = us
    BY <1>5 DEF UpstreamEof
  <2>2. Leaves(todo, todo')
    BY <1>1, <2>1, HeadReturns
  <2>3. Eofs(todo') \subseteq Eofs(todo) /\ \A d \in Client : At(todo', d) = At(todo, d)
    BY <1>1, <2>2, RestStack, EofsLeave DEF Leaves
  <2> QED BY <1>4, <2>1, <2>3, LessSame, ReadIdle
<1>6. CASE ~(~Live(u) \/ (us[u].eof /\ c = NoClient))
  <2>1. c # NoClient /\ us' = [us EXCEPT ![u].eof = TRUE]
        /\ Then(IF cl[c].streaming THEN <<<<"pumpEof", u>>>> ELSE <<<<"lost", u>>>>)
    BY <1>3, <1>6 DEF UpstreamEof, Live
  <2>2. UpSound(us[u], u \in Owed(todo)) /\ Pairs(cl, us)
    BY <1>2 DEF Owned
  <2>3. c \in Client /\ UpShape(us[u])
    BY <2>1, <2>2 DEF UpSound, UpShape
  <2>4. cl[c].up = u /\ u # NoUp
    BY <2>1, <2>2, NoUpOut DEF Pairs
  <2>5. Pair(c, cl[c].n, cl[c].phase, cl[c].out, us[u])
    BY <2>2, <2>3, <2>4 DEF Pairs
  <2>6. /\ us'[u].rbuf = us[u].rbuf /\ us'[u].venue = us[u].venue /\ us'[u].ans = us[u].ans
        /\ us'[u].ask = us[u].ask /\ ButUp(us', us, u)
    BY <1>2, <2>1, <2>3 DEF UpShape, ButUp
  <2>7. PICK op \in {"pumpEof", "lost"} : Then(<<<<op, u>>>>)
    BY <2>1
  <2>8. Goes(todo, todo', c, "none") /\ todo' # <<>> /\ todo'[1] = <<op, u>>
    BY <1>1, <2>3, <2>7, HeadCallsUp DEF UpOps
  <2>9. Eofs(todo') \subseteq Eofs(todo)
    <3>1. u \in Eofs(todo) /\ Owed(todo') \subseteq Owed(todo)
      BY <1>1, <2>8 DEF Eofs, Goes
    <3>2. ASSUME NEW w \in Up, todo'[1] \in {<<"upEof", w>>, <<"pumpEof", w>>} PROVE w = u
      BY <2>8, <3>2
    <3> QED BY <3>1, <3>2 DEF Eofs
  <2>10. Turns(c, "none")
    BY <1>1, <2>3, <2>8, <2>9 DEF Turns, Goes, Alone
  <2>11. UpsLess(c)
    BY <2>6, UpFlags, UpsLessOne
  <2>12. OnlyReads(c) /\ Alike(cl'[c], cl[c]) /\ rx'[c] = rx[c] /\ cl'[c].up = cl[c].up
    BY <1>4 DEF OnlyReads, ButClient, ReadInv, Alike, SameStream
  <2>13. InHand("none") <=> InHand(At(todo, c))
    BY <1>1, <2>3
  <2> QED BY <2>3, <2>4, <2>6, <2>10, <2>11, <2>12, <2>13, ReadAlike
<1> QED BY <1>5, <1>6

-----------------------------------------------------------------------------
(* Streams.                                                                *)

\* Which of the positions I the position i is, and that there is a j-th one.
Rank(I, i) == Cardinality({h \in I : h <= i})

LEMMA RankedOne ==
  ASSUME NEW n \in Nat, NEW I, I \subseteq 1..n, NEW j \in 1..Cardinality(I)
  PROVE  \E i \in I : Rank(I, i) = j
<1> SUFFICES \E i \in I : Cardinality({h \in I : h <= i}) = j
  BY DEF Rank
<1> DEFINE B(i) == {h \in I : h <= i}
           f(i) == Cardinality(B(i))
           T == {i \in 0..n : j <= f(i)}
<1>1. IsFiniteSet(1..n) /\ IsFiniteSet(I)
  <2>1. IsFiniteSet(1..n)
    BY FS_Interval
  <2> QED BY <2>1, FS_Subset
<1>2. \A i : IsFiniteSet(B(i)) /\ f(i) \in Nat
  <2> TAKE i
  <2>1. B(i) \subseteq I
    OBVIOUS
  <2> HIDE DEF B
  <2> QED BY <1>1, <2>1, FS_Subset, FS_CardinalityType
<1>3. B(n) = I /\ B(0) = {}
  <2>1. \A h \in I : h \in Nat /\ h <= n /\ ~(h <= 0)
    OBVIOUS
  <2> QED BY <2>1
<1>4. f(0) = 0 /\ f(n) = Cardinality(I) /\ Cardinality(I) \in Nat /\ j \in Nat \ {0} /\ j <= Cardinality(I)
  <2>1. Cardinality({}) = 0 /\ Cardinality(I) \in Nat
    BY <1>1, FS_EmptySet, FS_CardinalityType
  <2> HIDE DEF B
  <2> QED BY <1>3, <2>1
<1>5. n \in T /\ T \subseteq Nat
  <2>1. n \in 0..n /\ j <= f(n)
    <3> HIDE DEF f
    <3> QED BY <1>4
  <2> HIDE DEF f
  <2> QED BY <2>1
<1>6. PICK i \in T : \A k \in T : i <= k
  <2> HIDE DEF T
  <2> QED BY <1>5, LeastOf
<1>7. i \in 0..n /\ j <= f(i) /\ i # 0
  <2> HIDE DEF f
  <2> QED BY <1>4, <1>6
<1>8. i - 1 \in 0..n /\ i - 1 \notin T /\ ~(j <= f(i - 1))
  <2> HIDE DEF f
  <2> QED BY <1>6, <1>7
<1>a. \A h \in I : (h <= i <=> h <= i - 1 \/ h = i) /\ ~(i <= i - 1)
  BY <1>7
<1>9. CASE i \in I
  <2>1. B(i) = B(i - 1) \cup {i} /\ i \notin B(i - 1)
    BY <1>a, <1>9
  <2>2. IsFiniteSet(B(i - 1)) /\ f(i - 1) \in Nat
    BY <1>2
  <2>3. f(i) = f(i - 1) + 1
    <3> DEFINE A == B(i - 1)
    <3>1. IsFiniteSet(A) /\ i \notin A /\ B(i) = A \cup {i}
      BY <2>1, <2>2
    <3> HIDE DEF A
    <3>2. Cardinality(A \cup {i}) = Cardinality(A) + 1
      BY <3>1, FS_AddElement
    <3> QED BY <3>1, <3>2 DEF A
  <2>4. f(i) = j
    <3> HIDE DEF f
    <3> QED BY <1>4, <1>7, <1>8, <2>2, <2>3
  <2> QED BY <1>9, <2>4
<1>10. CASE i \notin I
  <2>1. B(i) = B(i - 1)
    BY <1>a, <1>10
  <2> HIDE DEF B
  <2> QED BY <1>7, <1>8, <2>1
<1> QED BY <1>9, <1>10

LEMMA PickedOnes ==
  ASSUME NEW n \in Nat, NEW in, NEW I, I \subseteq 1..n
  PROVE  /\ IsSeq(Picked(in, I)) /\ Len(Picked(in, I)) = Cardinality(I)
         /\ \A j \in 1..Len(Picked(in, I)) : \E i \in I : Picked(in, I)[j] = in[i]
         /\ I = {} => Len(Picked(in, I)) = 0
<1> DEFINE q == Picked(in, I)
<1>1. Cardinality(I) \in Nat /\ (I = {} => Cardinality(I) = 0)
  <2>1. IsFiniteSet(1..n)
    BY FS_Interval
  <2> QED BY <2>1, FS_Subset, FS_CardinalityType, FS_EmptySet
<1>2. DOMAIN q = 1..Cardinality(I) /\ q = [j \in DOMAIN q |-> q[j]]
  BY DEF Picked
<1>3. ASSUME NEW j \in 1..Cardinality(I) PROVE \E i \in I : q[j] = in[i]
  <2>1. \E i \in I : Rank(I, i) = j
    BY <1>3, RankedOne
  <2>2. q[j] = in[CHOOSE i \in I : Rank(I, i) = j]
    BY DEF Picked, Rank
  <2> HIDE DEF q
  <2> QED BY <2>1, <2>2
<1> HIDE DEF q
<1>4. IsSeq(q) /\ Len(q) = Cardinality(I)
  BY <1>1, <1>2, FcnIs
<1> QED BY <1>1, <1>3, <1>4 DEF q

\* Nothing more can come of a stream that ended well.
Settled(x) == x.ended /\ ~x.closeAfter /\ x.bodyDone /\ x.body # "se" /\ ~x.bad

\* What a step of the stream x makes of its upstream y, r being the request.
StepMakes(st, x, y, r, atEof, fn) ==
  /\ \A i \in 1..Len(st.items) : /\ st.items[i].r = r /\ st.items[i].k \in Inner \ {"end"}
                                 /\ st.items[i].k = "done" => r \in fn
  /\ \A i \in 1..Len(st.left) : \E j \in 1..Len(y.rbuf) : st.left[i] = y.rbuf[j]
  /\ Settled(x) => st.items = <<>> /\ st.end = "Ended" /\ st.done /\ ~st.bad
  /\ st.said => r \in fn
  /\ ~x.ended /\ st.end \notin {"Ok", "Failed"} =>
       r \in fn /\ (~atEof => st.done /\ x.body # "se" /\ ~st.bad)
  /\ y.venue \notin Translated /\ st.done => r \in fn
  /\ (\A i \in 1..Len(st.items) : st.items[i].k # "raw")
     \/ (st.bad /\ \A i \in 1..Len(st.items) : st.items[i].k = "raw")
  /\ x.bad => st.items = <<>> /\ st.bad
  /\ st.bad => st.end = "Failed"

LEMMA StreamStepReads ==
  ASSUME NEW c, NEW u, NEW atEof \in BOOLEAN, IsSeq(us[u].rbuf),
         cl[c].bodyDone \in BOOLEAN, cl[c].said \in BOOLEAN, cl[c].bad \in BOOLEAN,
         cl[c].ended \in BOOLEAN, cl[c].phase = "Streaming", NEW r, us[u].ask = r,
         Sends(us[u], fin), Hearing(r, cl[c], us[u], fin), Heard(r, cl[c], fin),
         atEof => EofTold(us[u], fin)
  PROVE  StepMakes(StreamStep(c, u, atEof), cl[c], us[u], r, atEof, fin)
<1> DEFINE s     == cl[c]
           y     == us[u]
           in    == us[u].rbuf
           xlate == us[u].venue \in Translated
           cut   == IF s.body = "se" THEN Len(in)
                    ELSE IF s.bodyDone THEN 0
                    ELSE Cardinality({i \in 1..Len(in) : \A h \in 1..(i - 1) : in[h].k \notin {"z", "y"}})
           has(k) == \E i \in 1..cut : in[i].k = k
           done  == s.bodyDone \/ (s.body # "se" /\ (has("z") \/ has("y")))
           said  == s.said \/ has("z")
           bad   == s.bad \/ (s.body = "sc" /\ has("e")) \/ (xlate /\ has("f"))
           corrupt == s.bad \/ (s.body = "sc" /\ has("e"))
           I      == {i \in 1..cut : /\ in[i].k \in {"t", "z", "f"} /\ ~corrupt
                                     /\ bad => \A h \in 1..i : in[h].k # "f"}
           staged == Picked(in, I)
           complete == StreamComplete(s.body, done, atEof)
           left   == IF s.body = "sl" THEN Unsent(in, cut) ELSE <<>>
           items  == [i \in 1..Len(staged) |->
                       [r |-> staged[i].r, k |-> ChunkWrap(bad, s.chunkedOut, staged[i].k)]]
           end    == CASE bad -> "Failed"
                       [] ~bad /\ complete /\ ~s.ended ->
                            IF Unfinished(xlate, said) THEN "Failed" ELSE "Ended"
                       [] ~bad /\ ~complete /\ atEof /\ ~s.ended -> "Failed"
                       [] OTHER -> IF s.ended THEN "Ended" ELSE "Ok"
<1>1. StreamStep(c, u, atEof) = [left |-> left, items |-> items, done |-> done, said |-> said,
                                 bad |-> bad, end |-> end]
  BY DEF StreamStep
<1>2. done \in BOOLEAN /\ said \in BOOLEAN /\ bad \in BOOLEAN /\ s.ended \in BOOLEAN
  OBVIOUS
<1>3. Len(in) \in Nat /\ cut \in 0..Len(in) /\ cut \in Nat
  <2> DEFINE C == {i \in 1..Len(in) : \A h \in 1..(i - 1) : in[h].k \notin {"z", "y"}}
  <2>1. Len(in) \in Nat
    BY DEF IsSeq
  <2>2. IsFiniteSet(1..Len(in)) /\ Cardinality(1..Len(in)) = Len(in)
    BY <2>1, FS_Interval
  <2>3. C \subseteq 1..Len(in)
    OBVIOUS
  <2> HIDE DEF C
  <2>4. Cardinality(C) \in Nat /\ Cardinality(C) <= Len(in)
    BY <2>1, <2>2, <2>3, FS_Subset, FS_CardinalityType
  <2>5. cut = IF s.body = "se" THEN Len(in) ELSE IF s.bodyDone THEN 0 ELSE Cardinality(C)
    BY DEF C
  <2> HIDE DEF cut
  <2> QED BY <2>1, <2>4, <2>5
<1>4. s.body # "se" /\ s.bodyDone => cut = 0
  OBVIOUS
<1> HIDE DEF cut
<1>5. \A i \in 1..cut : i \in 1..Len(in)
  BY <1>3
<1>6. /\ has("z") => r \in fin
      /\ ~xlate /\ has("y") => r \in fin
  BY <1>5 DEF Sends
<1>7. (said => r \in fin) /\ (~xlate /\ done => r \in fin)
  BY <1>6 DEF Heard, Hearing
<1>8. Settled(s) => I = {} /\ ~bad /\ done /\ s.ended
  <2> SUFFICES ASSUME Settled(s) PROVE I = {} /\ ~bad /\ done /\ s.ended
    OBVIOUS
  <2>1. cut = 0 /\ ~s.bad /\ s.bodyDone /\ s.ended
    BY <1>4 DEF Settled
  <2>2. \A i : i \notin 1..cut
    BY <2>1
  <2> QED BY <2>1, <2>2
<1>9. /\ IsSeq(staged) /\ \A j \in 1..Len(staged) : \E i \in 1..Len(in) : staged[j] = in[i]
      /\ (I = {} => Len(staged) = 0)
  <2>1. I \subseteq 1..cut
    OBVIOUS
  <2>2. I \subseteq 1..Len(in)
    BY <1>5, <2>1
  <2> HIDE DEF I
  <2>3. /\ IsSeq(staged) /\ \A j \in 1..Len(staged) : \E i \in I : staged[j] = in[i]
        /\ (I = {} => Len(staged) = 0)
    <3> DEFINE n == Len(in)
               b == in
    <3>1. n \in Nat /\ I \subseteq 1..n /\ staged = Picked(b, I)
      BY <1>3, <2>2
    <3> HIDE DEF staged, n, b
    <3>2. /\ IsSeq(staged) /\ \A j \in 1..Len(staged) : \E i \in I : staged[j] = b[i]
          /\ (I = {} => Len(staged) = 0)
      BY ONLY <3>1, PickedOnes
    <3> QED BY <3>2 DEF b
  <2> HIDE DEF staged
  <2> QED BY <2>2, <2>3
<1>x. s.bad => I = {} /\ bad
  OBVIOUS
<1> HIDE DEF staged, bad, I
<1>10. /\ Len(items) = Len(staged) /\ Len(staged) \in Nat
       /\ \A i \in 1..Len(items) :
            items[i] = [r |-> staged[i].r, k |-> ChunkWrap(bad, s.chunkedOut, staged[i].k)]
  <2>1. DOMAIN items = 1..Len(staged) /\ items = [i \in DOMAIN items |-> items[i]] /\ Len(staged) \in Nat
    BY <1>9 DEF IsSeq
  <2>2. Len(items) = Len(staged)
    <3> HIDE DEF items
    <3> QED BY <2>1, FcnIs
  <2> QED BY <2>1, <2>2
<1>11. ASSUME NEW i \in 1..Len(items)
       PROVE  /\ items[i].r = r /\ items[i].k \in Inner \ {"end"}
              /\ items[i].k = "done" => r \in fin
  <2>1. PICK j \in 1..Len(in) : staged[i] = in[j]
    BY <1>9, <1>10
  <2>2. in[j].r = r /\ (in[j].k = "z" => r \in fin)
    BY DEF Sends
  <2>3. /\ items[i].r = in[j].r /\ items[i].k = ChunkWrap(bad, s.chunkedOut, in[j].k)
    BY <1>10, <2>1
  <2>4. ChunkWrap(bad, s.chunkedOut, in[j].k) \in {"raw", "done", "t"}
        /\ (ChunkWrap(bad, s.chunkedOut, in[j].k) = "done" => in[j].k = "z")
    BY DEF ChunkWrap
  <2> HIDE DEF items
  <2> QED BY <2>2, <2>3, <2>4 DEF Inner
<1>w. (\A i \in 1..Len(items) : items[i].k # "raw") \/ (bad /\ \A i \in 1..Len(items) : items[i].k = "raw")
  <2>1. \A i \in 1..Len(items) : items[i].k = ChunkWrap(bad, s.chunkedOut, staged[i].k)
    BY <1>10
  <2>2. \A k : ChunkWrap(bad, s.chunkedOut, k) = "raw" <=> bad /\ s.chunkedOut
    BY DEF ChunkWrap
  <2> HIDE DEF items
  <2> QED BY <2>1, <2>2
<1>12. I = {} => items = <<>>
  <2>1. IsSeq(items)
    <3>1. DOMAIN items = 1..Len(staged) /\ items = [i \in DOMAIN items |-> items[i]]
      OBVIOUS
    <3> HIDE DEF items
    <3> QED BY <1>10, <3>1, FcnIs
  <2> HIDE DEF items
  <2> QED BY <1>9, <1>10, <2>1, IsSeqOf, EmptySeq
<1>13. \A i \in 1..Len(left) : \E j \in 1..Len(in) : left[i] = in[j]
  <2>1. \A i : i \notin 1..Len(<<>>)
    OBVIOUS
  <2>2. \A i \in 1..Len(Unsent(in, cut)) : Unsent(in, cut)[i] = in[i + cut] /\ i + cut \in 1..Len(in)
    BY <1>3, UnsentAt
  <2> QED BY <2>1, <2>2
<1> HIDE DEF items, left
<1>14. Settled(s) => end = "Ended"
  <2> HIDE DEF done, said, xlate
  <2> QED BY <1>2, <1>8
<1>f. bad => end = "Failed"
  <2> HIDE DEF done, said, xlate, complete
  <2> QED BY <1>2
<1>15. ~s.ended /\ end \notin {"Ok", "Failed"} => ~bad /\ complete /\ ~(xlate /\ ~said)
  <2> HIDE DEF done, said, xlate, complete
  <2> QED BY <1>2 DEF Unfinished
<1>16. ASSUME ~s.ended, end \notin {"Ok", "Failed"}
       PROVE  r \in fin /\ (~atEof => done /\ s.body # "se" /\ ~bad)
  <2>1. ~bad /\ (xlate => said) /\ (s.body = "se" => atEof) /\ (s.body # "se" => done)
    <3> HIDE DEF done, said, xlate, end
    <3> QED BY <1>2, <1>15, <1>16 DEF StreamComplete
  <2>2. CASE xlate
    <3> HIDE DEF done, said, xlate
    <3> QED BY <1>7, <2>1, <2>2
  <2>3. CASE ~xlate /\ s.body # "se"
    <3> HIDE DEF done, said, xlate
    <3> QED BY <1>7, <2>1, <2>3
  <2>4. CASE ~xlate /\ s.body = "se"
    <3>1. y.ans = "se" \/ r \in fin
      BY <2>4 DEF Hearing
    <3>2. r \in fin
      BY <2>1, <2>4, <3>1 DEF EofTold
    <3> HIDE DEF done
    <3> QED BY <2>1, <2>4, <3>2
  <2> QED BY <2>2, <2>3, <2>4
<1> DEFINE st == [left |-> left, items |-> items, done |-> done, said |-> said,
                  bad |-> bad, end |-> end]
<1>17. /\ st.left = left /\ st.items = items /\ st.done = done /\ st.said = said /\ st.bad = bad
       /\ st.end = end
  <2> HIDE DEF done, said, end
  <2> QED OBVIOUS
<1>18. StreamStep(c, u, atEof) = st
  BY <1>1
<1> HIDE DEF done, said, end, st
<1>19. StepMakes(st, s, y, r, atEof, fin)
  BY <1>7, <1>8, <1>11, <1>12, <1>13, <1>14, <1>16, <1>17, <1>x, <1>w, <1>f DEF StepMakes
<1> QED BY <1>18, <1>19

\* A stream's step.
LEMMA ReadsStep ==
  ASSUME NEW c, NEW s, NEW x, Reads(c, s, x, "none", fin), x.st # "closed",
         x.phase = "Streaming", IsSeq(x.out), NEW z, Hearing(<<c, x.n>>, x, z, fin),
         NEW st, IsSeq(st.items), NEW atEof, StepMakes(st, x, z, <<c, x.n>>, atEof, fin),
         NEW y, y.n = x.n, y.phase = "Streaming", y.out = Joined(x.out, st.items),
         y.said = st.said, y.terminated = x.terminated, y.chunkedOut = x.chunkedOut,
         y.ended <=> x.ended \/ st.end # "Ok", y.closeAfter <=> x.closeAfter \/ st.end = "Failed",
         y.bad = st.bad, NEW op
  PROVE  /\ Reads(c, s, y, op, fin)
         /\ \A z2 : z2.venue = z.venue /\ z2.ans = z.ans /\ ~atEof /\ y.bodyDone = st.done
                     /\ y.bad = st.bad /\ y.body = x.body => Hearing(<<c, x.n>>, y, z2, fin)
<1> DEFINE o == x.out
           m == x.n
           t == y.out
           q == st.items
<1>1. /\ s \in Rx /\ s.n + 1 = m /\ Owing(c, m, s, o, fin) /\ Told(s, x, "none")
      /\ Heard(<<c, m>>, x, fin)
  BY DEF Reads, Hand
<1>2. /\ Inside(s, o)
      /\ \A i \in 1..Len(o) : o[i].k \notin {"w", "err"} /\ (o[i].k = "end" => x.terminated)
      /\ x.terminated => x.ended /\ ~x.closeAfter
      /\ x.terminated /\ x.chunkedOut => o # <<>> /\ Last(o).k = "end"
  BY <1>1 DEF Told
<1>3. x.ended /\ ~x.closeAfter => Settled(x)
  BY DEF Hearing, Settled
<1>4. x.terminated => q = <<>> /\ st.end = "Ended"
  BY <1>2, <1>3 DEF StepMakes
<1>5. q = <<>> \/ Unended(o)
  BY <1>2, <1>4 DEF Unended, Ending
<1>6. Inward(q, c, m, fin)
  BY DEF Inward, StepMakes
<1>a. Bare(s, o) \/ (x.bad /\ x.closeAfter)
  BY <1>1 DEF Told
<1>b. Level(s, o, q)
  <2>1. CASE x.bad
    <3>1. q = <<>> /\ \A i : i \notin 1..Len(<<>>)
      BY <2>1 DEF StepMakes
    <3> QED BY <3>1 DEF Level
  <2>2. CASE ~x.bad
    BY <1>a, <2>2 DEF Level, StepMakes
  <2> QED BY <2>1, <2>2
<1>c. (Bare(s, o) /\ \A i \in 1..Len(q) : q[i].k # "raw") \/ (y.bad /\ y.closeAfter)
  <2>1. CASE x.bad
    BY <2>1 DEF StepMakes
  <2>2. CASE ~x.bad
    BY <1>a, <2>2 DEF StepMakes
  <2> QED BY <2>1, <2>2
<1>7. Due(s, m) /\ IsSeq(o) /\ IsSeq(q) /\ t = Joined(o, q)
  BY <1>1 DEF Due
<1>8. Hand(y.n, y.phase, op) = m
  BY DEF Hand
<1>9. t = y.out /\ y.n = m
  OBVIOUS
<1>10. x.ended /\ ~x.closeAfter => st.end = "Ended" /\ st.done /\ ~st.bad
  BY <1>3 DEF StepMakes
<1>11. y.ended /\ ~y.closeAfter => <<c, m>> \in fin
  <2>1. CASE x.ended
    BY <1>1, <2>1 DEF Heard
  <2>2. CASE ~x.ended
    BY <2>2 DEF StepMakes
  <2> QED BY <2>1, <2>2
<1>12. y.said => <<c, m>> \in fin
  BY DEF StepMakes
<1>13. ASSUME NEW z2, z2.venue = z.venue, z2.ans = z.ans, ~atEof, y.bodyDone = st.done,
              y.bad = st.bad, y.body = x.body
       PROVE  Hearing(<<c, x.n>>, y, z2, fin)
  <2>1. y.ended /\ ~y.closeAfter => y.bodyDone /\ y.body # "se" /\ ~y.bad
    <3>1. CASE x.ended
      BY <1>3, <1>10, <1>13, <3>1 DEF Settled
    <3>2. CASE ~x.ended
      BY <1>13, <3>2 DEF StepMakes
    <3> QED BY <3>1, <3>2
  <2>2. z2.venue \notin Translated => /\ y.bodyDone => <<c, m>> \in fin
                                      /\ y.body = "se" => z2.ans = "se" \/ <<c, m>> \in fin
    BY <1>13 DEF Hearing, StepMakes
  <2> QED BY <2>1, <2>2 DEF Hearing
<1> HIDE DEF o, m, t, q
<1>14. /\ Owing(c, m, s, t, fin) /\ Inside(s, t) /\ Widened(t, o, q)
       /\ Bare(s, o) /\ (\A i \in 1..Len(q) : q[i].k # "raw") => Bare(s, t)
  BY ONLY <1>1, <1>2, <1>5, <1>6, <1>7, <1>b, OwingConcat
<1>15. \A i \in 1..Len(t) : t[i].k \notin {"w", "err"} /\ (t[i].k = "end" => x.terminated)
  BY <1>2, <1>14 DEF Widened, Inner
<1>16. x.terminated => t = o
  BY <1>4, <1>14 DEF Widened
<1>17. y.terminated => y.ended /\ ~y.closeAfter
  BY <1>2, <1>4
<1>d. Bare(s, t) \/ (y.bad /\ y.closeAfter)
  BY <1>c, <1>14
<1>18. Told(s, y, op)
  BY <1>2, <1>9, <1>14, <1>15, <1>16, <1>17, <1>d DEF Told
<1>19. Heard(<<c, y.n>>, y, fin)
  BY <1>9, <1>11, <1>12 DEF Heard
<1>20. Reads(c, s, y, op, fin)
  BY <1>1, <1>8, <1>9, <1>14, <1>18, <1>19 DEF Reads
<1> QED BY <1>13, <1>20

LEMMA StreamPumpReads ==
  ASSUME Inv, ReadInv, NEW u \in Up, StreamPump(u)
  PROVE  ReadInv'
<1> PICK c : c = us[u].c
  OBVIOUS
<1>1. Runner(c, u) /\ cl[c].phase = "Streaming"
  BY UpRuns DEF StreamPump, UpOps
<1>2. PICK st : st = StreamStep(c, u, FALSE)
  OBVIOUS
<1> DEFINE x == cl[c]
           y == cl'[c]
           s == rx[c]
           z == us[u]
           o == Joined(x.out, st.items)
<1>3. /\ c \in Client /\ ClientShape(x) /\ UpShape(z) /\ IsSeq(x.out) /\ IsSeq(z.rbuf)
      /\ x.bodyDone \in BOOLEAN /\ x.said \in BOOLEAN /\ x.bad \in BOOLEAN /\ x.ended \in BOOLEAN
      /\ x.closeAfter \in BOOLEAN /\ z.ask = <<c, x.n>> /\ Sends(z, fin) /\ x.up = u
      /\ Hearing(<<c, x.n>>, x, z, fin) /\ Reads(c, s, x, "none", fin) /\ x.st # "closed"
      /\ Heard(<<c, x.n>>, x, fin) /\ x.phase = "Streaming"
  BY <1>1 DEF Runner, ClientShape, Reads
<1>4. CASE CloseClient(c) /\ Return
  <2>1. Turns(c, "none")
    BY <1>1, <1>4, TurnsReturn DEF Runner
  <2> QED BY <1>3, <1>4, <2>1, ReadCloses
<1>5. CASE /\ us' = [us EXCEPT ![u].rbuf = st.left]
           /\ cl' = [cl EXCEPT ![c] = Stepped(c, st)]
           /\ Then(<<<<"flush", c>>>>)
           /\ UNCHANGED <<pool, hist>>
  <2>1. StepMakes(st, x, z, <<c, x.n>>, FALSE, fin)
    <3>1. FALSE \in BOOLEAN /\ (FALSE => EofTold(us[u], fin))
      OBVIOUS
    <3> QED BY <1>2, <1>3, <3>1, StreamStepReads
  <2>2. IsSeq(st.items)
    <3>1. FALSE \in BOOLEAN
      OBVIOUS
    <3> QED BY <1>2, <1>3, <3>1, StreamStepIs
  <2>3. rx' = rx /\ fin' = fin
    BY <1>5 DEF hist
  <2>4. y = SteppedTo(x, o, st.done, st.said, st.bad, st.end) /\ OnlyReads(c)
    BY <1>1, <1>5, <2>3 DEF SteppedTo, Stepped, Joined, OnlyReads, ButClient, Runner
  <2>5. /\ y.n = x.n /\ y.phase = "Streaming" /\ y.out = o /\ y.up = u
        /\ y.said = st.said /\ y.terminated = x.terminated /\ y.chunkedOut = x.chunkedOut
        /\ (y.ended <=> x.ended \/ st.end # "Ok") /\ (y.closeAfter <=> x.closeAfter \/ st.end = "Failed")
        /\ y.bodyDone = st.done /\ y.bad = st.bad /\ y.body = x.body
    <3> HIDE DEF x, y, o, z, s
    <3> QED BY <1>3, <2>4 DEF SteppedTo, ClientShape
  <2>6. y.out = Joined(x.out, st.items)
    BY <2>5
  <2>7. /\ us'[u].venue = z.venue /\ us'[u].ask = z.ask /\ us'[u].ans = z.ans
        /\ us'[u].rbuf = st.left /\ ButUp(us', us, u)
    BY <1>1, <1>5 DEF Runner, UpShape, ButUp
  <2>8. UpsLess(c)
    <3>1. UpLess(us'[u], us[u])
      BY <2>1, <2>7 DEF UpLess, StepMakes
    <3> QED BY <1>1, <2>7, <3>1, UpsLessOne DEF Runner
  <2>9. Turns(c, "flush")
    BY <1>1, <1>5, TurnsCall DEF Runner, ClientOps
  <2>10. /\ Reads(c, s, y, "flush", fin)
         /\ \A z2 : z2.venue = z.venue /\ z2.ans = z.ans /\ ~FALSE /\ y.bodyDone = st.done
                    /\ y.bad = st.bad /\ y.body = x.body => Hearing(<<c, x.n>>, y, z2, fin)
    <3> HIDE DEF x, y, s, z, o
    <3> QED BY ONLY <1>3, <2>1, <2>2, <2>5, <2>6, ReadsStep
  <2>11. Hearing(<<c, y.n>>, y, us'[u], fin)
    <3> HIDE DEF x, y, z
    <3> QED BY <2>5, <2>7, <2>10
  <2>12. rx'[c] = s
    BY <2>3
  <2> HIDE DEF s, x
  <2> QED BY <1>3, <2>4, <2>5, <2>8, <2>9, <2>10, <2>11, <2>12, ReadSteps
<1> QED BY <1>2, <1>4, <1>5 DEF StreamPump

LEMMA StreamEofReads ==
  ASSUME Inv, ReadInv, NEW u \in Up, StreamEof(u)
  PROVE  ReadInv'
<1> PICK c : c = us[u].c
  OBVIOUS
<1>1. Runner(c, u) /\ cl[c].phase = "Streaming" /\ todo[1] = <<"pumpEof", u>>
  BY UpRuns DEF StreamEof, UpOps
<1>2. PICK st : st = StreamStep(c, u, TRUE)
  OBVIOUS
<1> DEFINE x == cl[c]
           y == cl'[c]
           s == rx[c]
           z == us[u]
           o == Joined(x.out, st.items)
<1>3. /\ c \in Client /\ ClientShape(x) /\ UpShape(z) /\ IsSeq(x.out) /\ IsSeq(z.rbuf)
      /\ x.bodyDone \in BOOLEAN /\ x.said \in BOOLEAN /\ x.bad \in BOOLEAN /\ x.ended \in BOOLEAN
      /\ x.closeAfter \in BOOLEAN /\ z.ask = <<c, x.n>> /\ Sends(z, fin) /\ x.up = u
      /\ Hearing(<<c, x.n>>, x, z, fin) /\ Reads(c, s, x, "none", fin) /\ x.st # "closed"
      /\ Heard(<<c, x.n>>, x, fin) /\ x.phase = "Streaming"
  BY <1>1 DEF Runner, ClientShape, Reads
<1>4. EofTold(z, fin)
  <2>1. u \in Eofs(todo)
    BY <1>1 DEF Eofs, Runner
  <2> QED BY <2>1 DEF ReadInv
<1>5. StepMakes(st, x, z, <<c, x.n>>, TRUE, fin)
  BY <1>2, <1>3, <1>4, StreamStepReads
<1>6. IsSeq(st.items) /\ (x.ended \/ st.end # "Ok")
  BY <1>2, <1>3, StreamStepIs
<1>7. /\ us' = FreeUp(u) /\ Then(<<<<"flush", c>>>>) /\ rx' = rx /\ fin' = fin
      /\ cl' = [cl EXCEPT ![c] = [Stepped(c, st) EXCEPT !.up = NoUp]]
  BY <1>2 DEF StreamEof, hist
<1>8. y = [Stepped(c, st) EXCEPT !.up = NoUp] /\ OnlyReads(c) /\ rx'[c] = s
  BY <1>1, <1>7 DEF OnlyReads, ButClient, Runner
<1>9. /\ y.n = x.n /\ y.phase = "Streaming" /\ y.out = o /\ y.up = NoUp
      /\ y.said = st.said /\ y.terminated = x.terminated /\ y.chunkedOut = x.chunkedOut
      /\ (y.ended <=> x.ended \/ st.end # "Ok") /\ (y.closeAfter <=> x.closeAfter \/ st.end = "Failed")
      /\ y.bad = st.bad
  <2>1. y = [SteppedTo(x, o, st.done, st.said, st.bad, st.end) EXCEPT !.up = NoUp]
    BY <1>8 DEF Stepped, SteppedTo, Joined
  <2> HIDE DEF x, y, o, s, z
  <2> QED BY <1>3, <2>1 DEF SteppedTo, ClientShape
<1>10. y.out = Joined(x.out, st.items)
  BY <1>9
<1>11. us'[u] = NewUp /\ ButUp(us', us, u)
  BY <1>1, <1>7 DEF Runner, FreeUp, ButUp
<1>12. UpsLess(c)
  BY <1>1, <1>11, LessNew, UpsLessOne DEF Runner
<1>13. Turns(c, "flush")
  BY <1>1, <1>7, TurnsCall DEF Runner, ClientOps
<1>14. Reads(c, s, y, "flush", fin)
  <2> HIDE DEF x, y, s, z, o
  <2> QED BY ONLY <1>3, <1>5, <1>6, <1>9, <1>10, ReadsStep
<1> HIDE DEF s, x
<1> QED BY <1>3, <1>8, <1>9, <1>12, <1>13, <1>14, ReadSteps

\* What a stream x owes, `out', once it is over or not (b).
Owes(c, s, n, out, x, b) ==
  /\ s \in Rx /\ IsSeq(out) /\ Owing(c, n, s, out, fin) /\ Due(s, n) /\ Inside(s, out)
  /\ Bare(s, out) \/ (x.bad /\ x.closeAfter)
  /\ \A i \in 1..Len(out) : out[i].k \notin {"w", "err"} /\ (out[i].k = "end" => b)
  /\ b => x.ended /\ ~x.closeAfter
  /\ b /\ x.chunkedOut => out # <<>> /\ Last(out).k = "end"

LEMMA StreamOwes ==
  ASSUME NEW c, NEW s, NEW x, Reads(c, s, x, "flush", fin), x.st # "closed",
         x.phase = "Streaming", IsSeq(x.out), NEW e, e.r = <<c, x.n>>, e.k = "end",
         NEW b, b <=> x.terminated \/ (x.ended /\ ~x.terminated /\ ~x.closeAfter),
         NEW out, out = IF x.ended /\ ~x.terminated /\ ~x.closeAfter /\ x.chunkedOut
                        THEN More(x.out, e) ELSE x.out
  PROVE  Owes(c, s, x.n, out, x, b)
<1> DEFINE o == x.out
           m == x.n
<1>1. /\ s \in Rx /\ Due(s, m) /\ Owing(c, m, s, o, fin) /\ Told(s, x, "flush")
      /\ Heard(<<c, m>>, x, fin) /\ IsSeq(o)
  BY DEF Reads, Hand, Due
<1>2. /\ Inside(s, o)
      /\ Bare(s, o) \/ (x.bad /\ x.closeAfter)
      /\ \A i \in 1..Len(o) : o[i].k \notin {"w", "err"} /\ (o[i].k = "end" => x.terminated)
      /\ x.terminated => x.ended /\ ~x.closeAfter
      /\ x.terminated /\ x.chunkedOut => o # <<>> /\ Last(o).k = "end"
  BY <1>1 DEF Told
<1>3. CASE x.ended /\ ~x.terminated /\ ~x.closeAfter /\ x.chunkedOut
  <2>1. Unended(o)
    BY <1>2, <1>3 DEF Unended, Ending
  <2>2. Of(e, c, m) /\ MayCome(s, o, e, fin) /\ out = More(o, e)
    BY <1>1, <1>2, <1>3 DEF MayCome, Of, Heard, Inner
  <2> HIDE DEF o, m
  <2>3. /\ Owing(c, m, s, out, fin) /\ IsSeq(out) /\ out # <<>> /\ EndsIn(out, e)
        /\ (Inside(s, o) \/ e.k = "head" => Inside(s, out)) /\ Grown(out, o, e)
        /\ Bare(s, o) /\ e.k # "raw" => Bare(s, out)
    BY ONLY <1>1, <2>1, <2>2, OwingAppend
  <2>4. \A i \in 1..Len(out) : out[i].k \notin {"w", "err"}
    BY <1>2, <2>3 DEF Grown
  <2>5. Last(out).k = "end"
    BY <2>3 DEF EndsIn
  <2>6. Owes(c, s, m, out, x, b)
    BY <1>1, <1>2, <1>3, <2>3, <2>4, <2>5 DEF Owes
  <2> QED BY <2>6 DEF m
<1>4. CASE ~(x.ended /\ ~x.terminated /\ ~x.closeAfter /\ x.chunkedOut)
  <2>1. out = o
    BY <1>4
  <2> HIDE DEF o, m
  <2>2. Owes(c, s, m, out, x, b)
    BY <1>1, <1>2, <1>4, <2>1 DEF Owes
  <2> QED BY <2>2 DEF m
<1> QED BY <1>3, <1>4

\* Some of it is delivered, or all with more to come.
LEMMA ReadsFlush ==
  ASSUME NEW c, NEW s, NEW x, Heard(<<c, x.n>>, x, fin), x.phase = "Streaming", x.n \in Nat, NEW b, NEW out,
         Owes(c, s, x.n, out, x, b), NEW k \in 0..Len(out), k # Len(out) \/ ~x.ended,
         NEW y, y.n = x.n, y.phase = "Streaming", y.out = Unsent(out, k), y.terminated = b,
         y.said = x.said, y.ended = x.ended, y.closeAfter = x.closeAfter,
         y.chunkedOut = x.chunkedOut, y.bad = x.bad, NEW op
  PROVE  Reads(c, SeeAll(c, s, out, k), y, op, fin)
<1> DEFINE m == x.n
           s2 == SeeAll(c, s, out, k)
           o2 == Unsent(out, k)
<1>1. /\ m \in Nat /\ s \in Rx /\ IsSeq(out) /\ Owing(c, m, s, out, fin) /\ s.n + 1 = m
      /\ Inside(s, out) /\ k \in 0..Len(out)
  BY DEF Owes, Due
<1>2. y.out = o2 /\ Hand(y.n, y.phase, op) = m /\ y.n = m
  BY DEF Hand
<1>3. k # Len(out) \/ (\A i \in 1..Len(out) : out[i].k \notin Ending)
  BY DEF Owes, Ending
<1>4. \A i \in 1..Len(out) : out[i].k \notin {"w", "err"} /\ (out[i].k = "end" => b)
  BY DEF Owes
<1>5. k # Len(out) \/ ~b
  BY DEF Owes
<1> HIDE DEF m
<1>6. s2 \in Rx /\ IsSeq(o2) /\ Owing(c, m, s2, o2, fin) /\ Further(m, s, out, s2, o2, k)
  BY ONLY <1>1, Delivered
<1> HIDE DEF s2, o2
<1>7. s2.n + 1 = m /\ Inside(s2, o2) /\ (k # Len(out) => o2 # <<>> /\ Last(o2) = Last(out))
  BY <1>1, <1>3, <1>6 DEF Further
<1>8. \A i \in 1..Len(o2) : o2[i].k \notin {"w", "err"} /\ (o2[i].k = "end" => b)
  BY <1>4, <1>6 DEF Further
<1>9. b /\ x.chunkedOut => o2 # <<>> /\ Last(o2).k = "end"
  BY <1>5, <1>7 DEF Owes
<1>10. b => x.ended /\ ~x.closeAfter
  BY DEF Owes
<1>b. Bare(s2, o2) \/ (y.bad /\ y.closeAfter)
  BY <1>6 DEF Further, Owes
<1>11. Told(s2, y, op)
  BY <1>2, <1>7, <1>8, <1>9, <1>10, <1>b DEF Told
<1>12. Heard(<<c, y.n>>, y, fin)
  BY DEF Heard
<1>13. Reads(c, s2, y, op, fin)
  BY <1>2, <1>6, <1>7, <1>11, <1>12 DEF Reads
<1> QED BY <1>13 DEF s2

LEMMA StreamFlushReads ==
  ASSUME Inv, ReadInv, NEW c \in Client, StreamFlush(c)
  PROVE  ReadInv'
<1> DEFINE x == cl[c]
           y == cl'[c]
           s == rx[c]
           u == cl[c].up
           e == [r |-> Req(c), k |-> "end"]
<1>1. /\ todo # <<>> /\ StackSound(todo) /\ todo[1][1] # "gate" /\ Alone(todo, c)
      /\ At(todo, c) = "flush"
  BY RunsClient DEF StreamFlush, ClientOps
<1>2. /\ x.phase = "Streaming" /\ x.st = "open" /\ IsSeq(x.out) /\ ClientShape(x) /\ x.n \in Nat
      /\ x.terminated \in BOOLEAN /\ x.ended \in BOOLEAN /\ x.closeAfter \in BOOLEAN
      /\ DOMAIN cl = Client /\ DOMAIN us = Up /\ DOMAIN rx = Client
  BY <1>1, InvShape DEF Mode, Inv, ReadInv, ClientShape
<1>3. /\ Reads(c, s, x, "flush", fin) /\ x.st # "closed" /\ Heard(<<c, x.n>>, x, fin) /\ s \in Rx
      /\ u # NoUp => Hearing(<<c, x.n>>, x, us[u], fin)
  BY <1>1, <1>2 DEF ReadInv, Reads
<1>4. u # NoUp => u \in Up /\ us[u].c = c /\ UpShape(us[u])
  BY PairOf DEF Inv, Pair, UpSound
<1>5. PICK out : out = Staged(c)
  OBVIOUS
<1>6. PICK b \in BOOLEAN : b = (x.terminated \/ Terminates(c))
  BY <1>2 DEF Terminates
<1>7. Owes(c, s, x.n, out, x, b)
  <2>1. e.r = <<c, x.n>> /\ e.k = "end"
    BY DEF Req
  <2>2. /\ b <=> x.terminated \/ (x.ended /\ ~x.terminated /\ ~x.closeAfter)
        /\ out = IF x.ended /\ ~x.terminated /\ ~x.closeAfter /\ x.chunkedOut
                 THEN More(x.out, e) ELSE x.out
    <3> HIDE DEF e
    <3> QED BY <1>5, <1>6 DEF Terminates, Staged, More, e
  <2> HIDE DEF e, x, s
  <2> QED BY ONLY <1>2, <1>3, <2>1, <2>2, StreamOwes
<1>8. ASSUME NEW k \in 0..Len(out), Deliver(c, out, k), UNCHANGED fin, ButClient(cl', cl, c)
      PROVE  OnlyReads(c) /\ rx'[c] = SeeAll(c, s, out, k) /\ rx'[c] \in Rx
  <2> DEFINE m == x.n
  <2>1. m \in Nat /\ s \in Rx /\ IsSeq(out) /\ Owing(c, m, s, out, fin) /\ s.n + 1 = m
    BY <1>2, <1>7 DEF Owes, Due
  <2>2. rx'[c] = SeeAll(c, s, out, k) /\ OnlyReads(c)
    BY <1>2, <1>8, DeliverIs DEF OnlyReads
  <2> HIDE DEF m, s
  <2>3. SeeAll(c, s, out, k) \in Rx
    BY ONLY <2>1, k \in 0..Len(out), Delivered
  <2> QED BY <2>2, <2>3
<1>9. ASSUME NEW k \in 0..Len(out), k # Len(out) \/ ~x.ended, Deliver(c, out, k), UNCHANGED fin,
             cl' = [cl EXCEPT ![c].out = Unsent(out, k), ![c].terminated = @ \/ Terminates(c)],
             NEW p \in BOOLEAN, us' = us \/ (u # NoUp /\ us' = [us EXCEPT ![u].paused = p]), Return
      PROVE  ReadInv'
  <2> DEFINE o == Unsent(out, k)
  <2>1. ButClient(cl', cl, c) /\ y = Flushed(x, o, b)
    <3> HIDE DEF o
    <3> QED BY <1>2, <1>6, <1>9 DEF ButClient, Flushed, o
  <2>2. OnlyReads(c) /\ rx'[c] = SeeAll(c, s, out, k)
    <3> HIDE DEF s
    <3> QED BY <1>8, <1>9, <2>1
  <2> HIDE DEF o
  <2>3. /\ y.n = x.n /\ y.phase = "Streaming" /\ y.out = o /\ y.terminated = b /\ y.up = u
        /\ y.said = x.said /\ y.ended = x.ended /\ y.closeAfter = x.closeAfter
        /\ y.chunkedOut = x.chunkedOut /\ y.bodyDone = x.bodyDone /\ y.bad = x.bad
        /\ y.body = x.body
    <3> HIDE DEF x, y
    <3>1. x.up = u
      BY DEF x
    <3> QED BY <1>2, <2>1, <3>1 DEF Flushed, ClientShape
  <2>4. y.out = Unsent(out, k) /\ k \in 0..Len(out) /\ (k # Len(out) \/ ~x.ended)
    BY <1>9, <2>3 DEF o
  <2>5. Reads(c, rx'[c], y, "none", fin)
    <3> HIDE DEF x, y, s
    <3>1. Reads(c, SeeAll(c, s, out, k), y, "none", fin)
      BY ONLY <1>2, <1>3, <1>7, <2>3, <2>4, ReadsFlush
    <3> QED BY <2>2, <3>1
  <2>6. UpsLess(c) /\ (u # NoUp => us'[u].venue = us[u].venue /\ us'[u].ans = us[u].ans)
    <3>1. CASE us' = us
      BY <3>1, UpsSame
    <3>2. CASE u # NoUp /\ us' = [us EXCEPT ![u].paused = p]
      <4>1. /\ us'[u].venue = us[u].venue /\ us'[u].ask = us[u].ask /\ us'[u].ans = us[u].ans
            /\ us'[u].rbuf = us[u].rbuf /\ ButUp(us', us, u)
        BY <1>2, <1>4, <3>2 DEF UpShape, ButUp
      <4> QED BY <1>4, <3>2, <4>1, UpFlags, UpsLessOne
    <3> QED BY <1>9, <3>1, <3>2
  <2>7. Turns(c, "none")
    BY <1>1, <1>9, TurnsReturn
  <2>8. u # NoUp => Hearing(<<c, y.n>>, y, us'[u], fin)
    <3> HIDE DEF x, y, u
    <3> QED BY <1>2, <1>3, <2>3, <2>6 DEF Hearing
  <2> HIDE DEF s, x
  <2> QED BY <2>2, <2>3, <2>5, <2>6, <2>7, <2>8, ReadSteps
<1>10. ASSUME x.ended, Deliver(c, out, Len(out)), FinalizeStream(c), UNCHANGED fin
       PROVE  ReadInv'
  <2> DEFINE keep == x.chunkedOut /\ ~x.closeAfter /\ x.msg # "close"
  <2>1. IsSeq(out) /\ Len(out) \in 0..Len(out)
    BY <1>7, UnsentAll DEF Owes
  <2>2. UpsLess(c)
    <3>1. CASE u = NoUp
      BY <1>10, <3>1, UpsSame DEF FinalizeStream
    <3>2. CASE u # NoUp
      <4>1. ReleaseUp(u, us[u].rbuf, cl[c].keepUp /\ ~cl[c].closeAfter,
                      cl[c].body # "se" /\ cl[c].bodyDone)
        BY <1>10, <3>2 DEF FinalizeStream
      <4> QED BY <1>4, <3>2, <4>1, ReleasedLess
    <3> QED BY <3>1, <3>2
  <2>3. CASE keep
    <3>1. cl' = [cl EXCEPT ![c] = [SinkEmit(cl[c]) EXCEPT !.up = NoUp, !.out = <<>>,
                                                          !.phase = "Idle", !.streaming = FALSE]]
          /\ Then(Bytes(c))
      BY <1>10, <2>3 DEF FinalizeStream
    <3>2. ButClient(cl', cl, c) /\ y = Finalised(x)
      BY <1>2, <3>1 DEF ButClient, Finalised, SinkEmit
    <3>3. OnlyReads(c) /\ rx'[c] = SeeAll(c, s, out, Len(out))
      <4> HIDE DEF s
      <4> QED BY <1>8, <1>10, <2>1, <3>2
    <3>4. y.n = x.n /\ y.phase = "Idle" /\ y.out = <<>> /\ y.up = NoUp
      <4> HIDE DEF x, y
      <4> QED BY <1>2, <3>2 DEF Finalised, ClientShape
    <3>5. Reads(c, rx'[c], y, "frame", fin)
      <4> DEFINE n == x.n
      <4>1. b
        BY <1>2, <1>6, <1>10, <2>3 DEF Terminates
      <4>2. /\ n \in Nat /\ s \in Rx /\ IsSeq(out) /\ Owing(c, n, s, out, fin) /\ s.n + 1 = n
            /\ out # <<>> /\ Last(out).k \in Ending /\ y.n = n
        BY <1>2, <1>7, <2>3, <3>4, <4>1 DEF Owes, Due, Ending
      <4> HIDE DEF n, y, s
      <4>3. Reads(c, SeeAll(c, s, out, Len(out)), y, "frame", fin)
        BY ONLY <3>4, <4>2, ReadsWhole
      <4> QED BY <3>3, <4>3
    <3>6. Turns(c, "frame")
      BY <1>1, <3>1, TurnsNext
    <3> QED BY <2>2, <3>3, <3>4, <3>5, <3>6, ReadSteps
  <2>4. CASE ~keep
    <3>1. cl' = [cl EXCEPT ![c] = Closed(c)] /\ Return
      BY <1>10, <2>4 DEF FinalizeStream, Return
    <3>2. ButClient(cl', cl, c) /\ cl'[c] = Closed(c)
      BY <1>2, <3>1 DEF ButClient
    <3>3. OnlyReads(c) /\ rx'[c] \in Rx
      <4> HIDE DEF s
      <4> QED BY <1>8, <1>10, <2>1, <3>2
    <3>4. Turns(c, "none")
      BY <1>1, <3>1, TurnsReturn
    <3> QED BY <2>2, <3>2, <3>3, <3>4, ReadShuts
  <2> QED BY <2>3, <2>4
<1>11. CASE CloseClient(c) /\ Return
  <2>1. Turns(c, "none")
    BY <1>1, <1>11, TurnsReturn
  <2> QED BY <1>11, <2>1, ReadCloses
<1>12. ASSUME NEW k \in Written(out) \ {Len(out)}, Deliver(c, out, k),
              cl' = [cl EXCEPT ![c].out = Unsent(out, k), ![c].terminated = @ \/ Terminates(c)],
              us' = IF u # NoUp /\ Len(out) - k > PauseAbove THEN [us EXCEPT ![u].paused = TRUE] ELSE us,
              Return, UNCHANGED <<pool, asks, recs, answered, fin>>
       PROVE  ReadInv'
  <2>1. k \in 0..Len(out) /\ k # Len(out) /\ UNCHANGED fin
    BY <1>12 DEF Written
  <2>2. us' = us \/ (u # NoUp /\ us' = [us EXCEPT ![u].paused = TRUE])
    BY <1>12
  <2> HIDE DEF u, x, s
  <2> QED BY <1>9, <1>12, <2>1, <2>2
<1>13. CASE /\ ~cl[c].ended /\ Deliver(c, out, Len(out))
            /\ cl' = [cl EXCEPT ![c].out = Unsent(out, Len(out)),
                                ![c].terminated = @ \/ Terminates(c)]
            /\ us' = IF u = NoUp THEN us ELSE [us EXCEPT ![u].paused = FALSE]
            /\ Return /\ UNCHANGED fin
  <2>1. Len(out) \in 0..Len(out) /\ ~x.ended
    BY <1>7, <1>13, UnsentAll DEF Owes
  <2>2. us' = us \/ (u # NoUp /\ us' = [us EXCEPT ![u].paused = FALSE])
    BY <1>13
  <2> HIDE DEF u, x, s
  <2> QED BY <1>9, <1>13, <2>1, <2>2
<1> QED
  <2>1. CASE \E k \in Written(out) \ {Len(out)} :
               /\ Deliver(c, out, k)
               /\ cl' = [cl EXCEPT ![c].out = Unsent(out, k), ![c].terminated = @ \/ Terminates(c)]
               /\ us' = IF u # NoUp /\ Len(out) - k > PauseAbove THEN [us EXCEPT ![u].paused = TRUE] ELSE us
               /\ Return
               /\ UNCHANGED <<pool, asks, recs, answered, fin>>
    BY <1>12, <2>1
  <2> QED BY <1>5, <1>10, <1>11, <1>13, <2>1 DEF StreamFlush

-----------------------------------------------------------------------------
(* Events.                                                                 *)

LEMMA TurnsQuiet ==
  ASSUME Inv, Quiet, NEW c \in Client
  PROVE  /\ todo = <<>> /\ Alone(todo, c) /\ At(todo, c) = "none"
         /\ todo' = todo => Turns(c, "none")
         /\ \A op \in ClientOps \ {"gate"} : todo' = <<<<op, c>>>> => Turns(c, op)
         /\ todo' = Bytes(c) => Turns(c, "frame")
         /\ \A u \in Up : todo' = <<<<"send", u>>>> => Turns(c, "none")
<1>1. todo = <<>> /\ Alone(todo, c) /\ At(todo, c) = "none"
  BY QuietStack
<1>2. ASSUME todo' = todo PROVE Turns(c, "none")
  BY <1>1, <1>2, LeavesNone, TurnsLeave
<1>3. ASSUME NEW op \in ClientOps \ {"gate"}, todo' = <<<<op, c>>>> PROVE Turns(c, op)
  <2>1. Goes(todo, todo', c, op) /\ todo' # <<>> /\ todo'[1] = <<op, c>>
    BY <1>1, <1>3, BeginsClient
  <2>2. todo'[1][1] = op /\ op \notin {"upEof", "pumpEof"}
    BY <2>1 DEF ClientOps
  <2> QED BY <1>1, <2>1, <2>2, TurnsGo
<1>4. ASSUME todo' = Bytes(c) PROVE Turns(c, "frame")
  <2>1. Goes(todo, todo', c, "frame") /\ todo' # <<>> /\ todo'[1] = <<"frame", c>>
    BY <1>1, <1>4, BeginsBytes
  <2>2. todo'[1][1] = "frame"
    BY <2>1
  <2> QED BY <1>1, <2>1, <2>2, TurnsGo
<1>5. ASSUME NEW u \in Up, todo' = <<<<"send", u>>>> PROVE Turns(c, "none")
  <2>1. Goes(todo, todo', c, "none") /\ todo' # <<>> /\ todo'[1] = <<"send", u>>
    BY <1>1, <1>5, BeginsUp DEF UpOps
  <2>2. todo'[1][1] = "send"
    BY <2>1
  <2> QED BY <1>1, <2>1, <2>2, TurnsGo
<1> QED BY <1>1, <1>2, <1>3, <1>4, <1>5

\* The record of a client that only its transport changed.
LEMMA ReadsOpens ==
  ASSUME NEW c, NEW s, NEW x, NEW fn, Reads(c, s, x, "none", fn), ClientShape(x), x.st = "new"
  PROVE  Reads(c, s, Accepts(x), "none", fn)
<1> DEFINE y == Accepts(x)
<1>1. /\ y.n = x.n /\ y.phase = x.phase /\ y.out = x.out /\ SameStream(y, x)
  BY DEF Accepts, ClientShape, SameStream
<1> HIDE DEF y
<1>2. Hand(y.n, y.phase, "none") = Hand(x.n, x.phase, "none")
  BY <1>1
<1>3. Told(s, y, "none") /\ Heard(<<c, y.n>>, y, fn)
  BY <1>1, <1>2 DEF Reads, Told, SameStream, Unsaid, Heard
<1>4. Reads(c, s, y, "none", fn)
  BY <1>1, <1>2, <1>3 DEF Reads
<1> QED BY <1>4 DEF y

LEMMA AcceptReads ==
  ASSUME Inv, ReadInv, NEW c \in Client, Accept(c)
  PROVE  ReadInv'
<1>1. /\ cl' = [cl EXCEPT ![c].st = "open"] /\ us' = us /\ todo' = todo /\ rx' = rx /\ fin' = fin
      /\ DOMAIN cl = Client /\ DOMAIN rx = Client /\ cl[c].st = "new" /\ Quiet
  BY DEF Accept, hist, Inv, ReadInv
<1>2. Turns(c, "none") /\ At(todo, c) = "none"
  BY <1>1, TurnsQuiet
<1>3. OnlyReads(c) /\ cl'[c] = Accepts(cl[c])
  BY <1>1 DEF OnlyReads, ButClient, Accepts
<1>4. /\ ClientShape(cl[c]) /\ Reads(c, rx[c], cl[c], "none", fin)
      /\ Mode(cl[c].st, cl[c].phase, cl[c].up, cl[c].n, cl[c].streaming, cl[c].ended,
              cl[c].closeAfter, cl[c].sunk, cl[c].mute, "none")
  BY <1>2, InvShape DEF ReadInv
<1>5. Reads(c, rx'[c], cl'[c], "none", fin)
  BY <1>1, <1>3, <1>4, ReadsOpens
<1>6. cl'[c].phase = "Idle"
  <2>1. cl'[c].phase = cl[c].phase
    BY <1>3, <1>4 DEF Accepts, ClientShape
  <2> QED BY <1>1, <1>4, <2>1 DEF Mode
<1>7. cl'[c].up # NoUp => Hearing(<<c, cl'[c].n>>, cl'[c], us'[cl'[c].up], fin)
  BY <1>6 DEF Hearing
<1>8. UpsLess(c)
  BY <1>1, UpsSame
<1> QED BY <1>2, <1>3, <1>5, <1>7, <1>8, ReadSteps

LEMMA ClientSendsReads ==
  ASSUME Inv, ReadInv, NEW c \in Client, ClientSends(c)
  PROVE  ReadInv'
<1>1. /\ us' = us /\ rx' = rx /\ fin' = fin /\ todo' = Bytes(c) /\ Quiet
      /\ DOMAIN cl = Client /\ DOMAIN rx = Client /\ ClientShape(cl[c])
  BY InvShape DEF ClientSends, Calls, hist, Inv, ReadInv
<1>2. Turns(c, "frame") /\ At(todo, c) = "none"
  BY <1>1, TurnsQuiet
<1>3. \/ \E h \in BOOLEAN : cl' = [cl EXCEPT ![c].rbuf = Append(@, cl[c].sent + 1),
                                             ![c].sent = @ + 1, ![c].half = h]
      \/ cl' = [cl EXCEPT ![c].half = FALSE]
  BY DEF ClientSends
<1>4. OnlyReads(c) /\ Alike(cl'[c], cl[c]) /\ cl'[c].up = cl[c].up
  <2>1. CASE cl' = [cl EXCEPT ![c].half = FALSE]
    <3>1. OnlyReads(c) /\ cl'[c] = Completes(cl[c])
      BY <1>1, <2>1 DEF OnlyReads, ButClient, Completes
    <3> QED BY <1>1, <3>1 DEF Completes, Alike, SameStream, ClientShape
  <2>2. ASSUME NEW h \in BOOLEAN,
               cl' = [cl EXCEPT ![c].rbuf = Append(@, cl[c].sent + 1), ![c].sent = @ + 1,
                                ![c].half = h]
        PROVE  OnlyReads(c) /\ Alike(cl'[c], cl[c]) /\ cl'[c].up = cl[c].up
    <3>1. OnlyReads(c) /\ cl'[c] = Received(cl[c], h)
      BY <1>1, <2>2 DEF OnlyReads, ButClient, Received
    <3> QED BY <1>1, <3>1 DEF Received, Alike, SameStream, ClientShape
  <2> QED BY <1>3, <2>1, <2>2
<1>5. UpsLess(c)
  BY <1>1, UpsSame
<1> QED BY <1>1, <1>2, <1>4, <1>5, ReadAlike DEF InHand

LEMMA ClientGoneReads ==
  ASSUME Inv, ReadInv, NEW c \in Client, Quiet, CloseClient(c), UNCHANGED todo
  PROVE  ReadInv'
BY TurnsQuiet, ReadCloses

LEMMA ClientWritableReads ==
  ASSUME Inv, ReadInv, NEW c \in Client, ClientWritable(c)
  PROVE  ReadInv'
<1>1. PICK op \in {"flush", "respond"} : op = IF cl[c].streaming THEN "flush" ELSE "respond"
  OBVIOUS
<1>2. Quiet /\ todo' = <<<<op, c>>>> /\ cl' = cl /\ us' = us /\ rx' = rx /\ fin' = fin
  BY <1>1 DEF ClientWritable, Calls, hist
<1>3. Turns(c, op) /\ At(todo, c) = "none"
  BY <1>2, TurnsQuiet DEF ClientOps
<1> QED BY <1>2, <1>3, ReadStays DEF InHand

LEMMA SweepSilentReads ==
  ASSUME Inv, ReadInv, NEW c \in Client, SweepSilent(c)
  PROVE  ReadInv'
<1>1. PICK op \in {"error", "failed"} : op = IF cl[c].out = <<>> THEN "failed" ELSE "error"
  OBVIOUS
<1>2. Quiet /\ todo' = <<<<op, c>>>> /\ cl' = cl /\ us' = us /\ rx' = rx /\ fin' = fin
      /\ cl[c].up # NoUp
  BY <1>1 DEF SweepSilent, Calls, hist, Busy
<1>3. Turns(c, op) /\ At(todo, c) = "none"
  BY <1>2, TurnsQuiet DEF ClientOps
<1>4. cl[c].phase # "Idle"
  BY <1>2, <1>3, InvShape DEF Mode
<1> QED BY <1>2, <1>3, <1>4, ReadStays

LEMMA UpstreamWritableReads ==
  ASSUME Inv, ReadInv, NEW u \in Up, UpstreamWritable(u)
  PROVE  ReadInv'
<1> PICK c : c = us[u].c
  OBVIOUS
<1>1. /\ c \in Client /\ cl[c].up = u /\ u # NoUp /\ UpSound(us[u], u \in Owed(todo))
  BY UnfitPaired, PairedUp DEF UpstreamWritable
<1>2. /\ us' = [us EXCEPT ![u].st = "open"] /\ cl' = cl /\ rx' = rx /\ fin' = fin
      /\ todo' = <<<<"send", u>>>> /\ Quiet /\ DOMAIN us = Up
  BY DEF UpstreamWritable, Calls, hist, Inv
<1>3. Turns(c, "none") /\ At(todo, c) = "none"
  BY <1>1, <1>2, TurnsQuiet
<1>4. /\ us'[u].rbuf = us[u].rbuf /\ us'[u].venue = us[u].venue /\ us'[u].ans = us[u].ans
      /\ us'[u].ask = us[u].ask /\ ButUp(us', us, u)
  BY <1>1, <1>2 DEF UpSound, UpShape, ButUp
<1>5. UpsLess(c)
  BY <1>4, UpFlags, UpsLessOne
<1>6. OnlyReads(c) /\ Alike(cl'[c], cl[c]) /\ rx'[c] = rx[c] /\ cl'[c].up = cl[c].up
  BY <1>2 DEF OnlyReads, ButClient, ReadInv, Alike, SameStream
<1> QED BY <1>1, <1>3, <1>4, <1>5, <1>6, ReadAlike

LEMMA GivesUpReads ==
  ASSUME Inv, ReadInv, NEW c \in Client, cl[c].up # NoUp, us[cl[c].up].st = "connecting",
         us' = FreeUp(cl[c].up),
         cl' = [cl EXCEPT ![c].up = NoUp], NEW op \in {"error", "failed"}, Calls(<<<<op, c>>>>),
         UNCHANGED <<pool, hist>>
  PROVE  ReadInv'
<1> PICK u : u = cl[c].up
  OBVIOUS
<1>1. rx' = rx /\ fin' = fin /\ todo' = <<<<op, c>>>> /\ Quiet
      /\ DOMAIN us = Up /\ DOMAIN cl = Client /\ DOMAIN rx = Client
  BY DEF Calls, hist, Inv, ReadInv
<1>2. Turns(c, op) /\ At(todo, c) = "none"
  BY <1>1, TurnsQuiet DEF ClientOps
<1>3. u \in Up /\ us[u].c = c
  BY PairOf DEF Inv, Pair
<1>4. ButUp(us', us, u) /\ us'[u] = NewUp
  BY <1>1, <1>3 DEF FreeUp, ButUp
<1>5. UpsLess(c)
  BY <1>3, <1>4, LessNew, UpsLessOne
<1>6. /\ ClientShape(cl[c]) /\ cl[c].phase # "Idle"
  BY <1>2, InvShape DEF Mode
<1>7. OnlyReads(c) /\ cl'[c] = Unpairs(cl[c]) /\ rx'[c] = rx[c]
  BY <1>1 DEF OnlyReads, ButClient, Unpairs
<1>8. Alike(cl'[c], cl[c]) /\ cl'[c].up = NoUp
  BY <1>6, <1>7 DEF Unpairs, Alike, SameStream, ClientShape
<1> QED BY <1>2, <1>5, <1>6, <1>7, <1>8, ReadAlike

LEMMA ConnectErrorReads ==
  ASSUME Inv, ReadInv, NEW u \in Up, ConnectError(u)
  PROVE  ReadInv'
<1>1. us[u].st = "connecting" /\ us[u].c # NoClient
  BY UnfitPaired DEF ConnectError
<1>2. us[u].c \in Client /\ cl[us[u].c].up = u /\ u # NoUp
  BY <1>1, PairedUp
<1>3. PICK op \in {"error", "failed"} : Calls(<<<<op, us[u].c>>>>)
  BY DEF ConnectError
<1>4. us' = FreeUp(u) /\ cl' = [cl EXCEPT ![us[u].c].up = NoUp] /\ UNCHANGED <<pool, hist>>
  BY <1>1 DEF ConnectError, ForgetUp
<1> QED BY <1>1, <1>2, <1>3, <1>4, GivesUpReads

LEMMA SweepConnectReads ==
  ASSUME Inv, ReadInv, NEW c \in Client, SweepConnect(c)
  PROVE  ReadInv'
<1>1. /\ us' = FreeUp(cl[c].up) /\ cl' = [cl EXCEPT ![c].up = NoUp] /\ UNCHANGED <<pool, hist>>
      /\ cl[c].up # NoUp /\ us[cl[c].up].st = "connecting"
  BY DEF SweepConnect, DropUp
<1>2. PICK op \in {"error", "failed"} : op = "failed"
  OBVIOUS
<1>3. Calls(<<<<op, c>>>>)
  BY <1>2 DEF SweepConnect
<1> QED BY <1>1, <1>3, GivesUpReads

LEMMA IdleDropReads ==
  ASSUME Inv, ReadInv, NEW u \in Up, IdleDrop(u)
  PROVE  ReadInv'
<1>1. /\ us' = FreeUp(u) /\ Pooled(u) /\ cl' = cl /\ rx' = rx /\ fin' = fin /\ todo' = todo
      /\ DOMAIN us = Up /\ PoolSound(us, pool)
  BY DEF IdleDrop, hist, Inv, Owned
<1>2. us'[u] = NewUp /\ ButUp(us', us, u)
  BY <1>1 DEF FreeUp, ButUp
<1>3. us[u].c = NoClient
  <2>1. PICK v \in Venue : u \in Range(pool[v])
    BY <1>1 DEF Pooled
  <2>2. pool[v] \in Seq(Up)
    BY <1>1 DEF PoolSound
  <2>3. PICK i \in 1..Len(pool[v]) : pool[v][i] = u
    BY <2>1, <2>2, RangeHolds DEF Holds
  <2> QED BY <1>1, <2>3 DEF PoolSound, Fit
<1>4. \A w \in Up : UpLess(us'[w], us[w])
  BY <1>2, LessNew, LessSame DEF ButUp
<1>5. ASSUME NEW d \in Client, cl[d].up # NoUp PROVE us'[cl[d].up] = us[cl[d].up]
  <2>1. cl[d].up \in Up /\ us[cl[d].up].c = d
    BY <1>5, PairOf DEF Inv, Pair
  <2> QED BY <1>2, <1>3, <2>1, NoUpOut DEF ButUp
<1> QED BY <1>1, <1>4, <1>5, ReadIdle

\* How far an answer is after the items of one drain.
LEMMA AfterAllIs ==
  ASSUME NEW a, NEW seg, NEW n \in 0..2, Len(seg) = n
  PROVE  AfterAll(a, seg) = IF n = 0 THEN a
                            ELSE IF n = 1 THEN After(a, seg[1]) ELSE After(After(a, seg[1]), seg[2])
<1> DEFINE p == After(a, seg[1])
           q == After(p, seg[2])
           g == [i \in 0..n |-> IF i = 0 THEN a ELSE IF i = 1 THEN p ELSE q]
           body(f) == [i \in 0..n |-> IF i = 0 THEN a ELSE After(f[i - 1], seg[i])]
           far == CHOOSE f : f = body(f)
<1>1. g = body(g)
  <2>1. ASSUME NEW i \in 0..n
        PROVE  g[i] = IF i = 0 THEN a ELSE After(g[i - 1], seg[i])
    <3>1. i = 0 \/ i = 1 \/ i = 2
      OBVIOUS
    <3>2. CASE i = 0
      BY <3>2
    <3>3. CASE i = 1
      <4>1. g[1] = p /\ g[0] = a /\ i - 1 = 0
        BY <3>3
      <4> HIDE DEF g
      <4> QED BY <3>3, <4>1
    <3>4. CASE i = 2
      <4>1. g[2] = q /\ g[1] = p /\ i - 1 = 1
        BY <3>4
      <4> HIDE DEF g, p
      <4> QED BY <3>4, <4>1 DEF q
    <3> QED BY <3>1, <3>2, <3>3, <3>4
  <2>2. g = [i \in 0..n |-> g[i]]
    OBVIOUS
  <2> HIDE DEF g
  <2> QED BY <2>1, <2>2
<1>2. far = body(far)
  <2> HIDE DEF g
  <2> QED BY <1>1
<1>3. \A i \in 0..n : far[i] = IF i = 0 THEN a ELSE After(far[i - 1], seg[i])
  <2> HIDE DEF far
  <2> QED BY <1>2
<1>4. AfterAll(a, seg) = far[n]
  BY DEF AfterAll
<1> HIDE DEF far, body, g
<1>5. far[0] = a
  BY <1>3
<1>6. n # 0 => far[1] = After(a, seg[1])
  <2>1. n # 0 => 1 \in 0..n /\ 1 - 1 = 0
    OBVIOUS
  <2> QED BY <1>3, <1>5, <2>1
<1>7. n = 2 => far[2] = After(far[1], seg[2])
  <2>1. n = 2 => 2 \in 0..n /\ 2 - 1 = 1
    OBVIOUS
  <2> QED BY <1>3, <2>1
<1>8. n = 0 \/ n = 1 \/ n = 2
  OBVIOUS
<1> QED BY <1>4, <1>5, <1>6, <1>7, <1>8

\* What one drain may say of an answer, e telling whether it finished it.
Drains(v, a, seg, a2, e) ==
  /\ Len(seg) \in Nat
  /\ \A i \in 1..Len(seg) :
       /\ seg[i] = "z" => e
       /\ v \notin Translated =>
            (seg[i] = "y" => e) /\ (seg[i] = "se" => a2 = "se" \/ e)
  /\ v \notin Translated /\ a = "se" => a2 = "se" \/ e

LEMMA SegmentReads ==
  ASSUME NEW v, NEW a, NEW seg \in Segments(v, a), NEW e \in BOOLEAN,
         ToSet(seg) \cap {"z", "w", "b"} # {} => e,
         v \notin Translated /\ "y" \in ToSet(seg) => e
  PROVE  Drains(v, a, seg, AfterAll(a, seg), e)
<1>1. CASE seg = <<>>
  <2>1. Len(seg) = 0 /\ AfterAll(a, seg) = a
    BY <1>1, AfterAllIs
  <2> QED BY <2>1 DEF Drains
<1>2. ASSUME NEW k \in Follows(v, a), seg = <<k>> PROVE Drains(v, a, seg, AfterAll(a, seg), e)
  <2>1. Len(seg) = 1 /\ seg[1] = k /\ AfterAll(a, seg) = After(a, k)
    BY <1>2, AfterAllIs
  <2>2. k \in ToSet(seg)
    BY <2>1 DEF ToSet
  <2>3. k = "z" => e
    BY <2>2
  <2>4. v \notin Translated => k # "f" /\ (k = "y" => e)
    BY <2>2 DEF Follows
  <2>5. a = "se" => k \in {"t", "z", "f"}
    BY DEF Follows
  <2>6. k = "t" => After(a, k) = a
    BY DEF After
  <2>7. k = "se" => After(a, k) = "se"
    BY DEF After
  <2>8. \A i \in 1..Len(seg) : i = 1
    BY <2>1
  <2> HIDE DEF Follows, After
  <2> QED BY <2>1, <2>3, <2>4, <2>5, <2>6, <2>7, <2>8 DEF Drains
<1>3. ASSUME NEW k \in Follows(v, a), NEW j \in Follows(v, After(a, k)), seg = <<k, j>>
      PROVE  Drains(v, a, seg, AfterAll(a, seg), e)
  <2> PICK p : p = After(a, k)
    OBVIOUS
  <2>1. Len(seg) = 2 /\ seg[1] = k /\ seg[2] = j /\ AfterAll(a, seg) = After(p, j)
    BY <1>3, AfterAllIs
  <2>2. k \in ToSet(seg) /\ j \in ToSet(seg)
    BY <2>1 DEF ToSet
  <2>3. (k = "z" => e) /\ (j = "z" => e)
    BY <2>2
  <2>4. v \notin Translated => k # "f" /\ j # "f" /\ (k = "y" => e) /\ (j = "y" => e)
    BY <2>2 DEF Follows
  <2>5. (a = "se" => k \in {"t", "z", "f"}) /\ (p = "se" => j \in {"t", "z", "f"})
    BY DEF Follows
  <2>6. (k = "t" => p = a) /\ (j = "t" => After(p, j) = p)
    BY DEF After
  <2>7. (k = "se" => p = "se") /\ (j = "se" => After(p, j) = "se")
    BY DEF After
  <2>8. \A i \in 1..Len(seg) : i = 1 \/ i = 2
    BY <2>1
  <2> HIDE DEF Follows, After
  <2> QED BY <2>1, <2>3, <2>4, <2>5, <2>6, <2>7, <2>8 DEF Drains
<1> QED BY <1>1, <1>2, <1>3 DEF Segments

\* More answers are finished.
LEMMA FinGrows ==
  ASSUME NEW fn, NEW fn2, fn \subseteq fn2
  PROVE  /\ \A c, s, x, at : Reads(c, s, x, at, fn) => Reads(c, s, x, at, fn2)
         /\ \A y : (Sends(y, fn) => Sends(y, fn2)) /\ (EofTold(y, fn) => EofTold(y, fn2))
         /\ \A r, x, y : Hearing(r, x, y, fn) => Hearing(r, x, y, fn2)
<1>1. ASSUME NEW c, NEW s, NEW x, NEW at, Reads(c, s, x, at, fn)
      PROVE  Reads(c, s, x, at, fn2)
  <2>1. Heard(<<c, x.n>>, x, fn) => Heard(<<c, x.n>>, x, fn2)
    BY DEF Heard
  <2> QED BY <1>1, <2>1, OwingGrows DEF Reads
<1>2. ASSUME NEW y PROVE (Sends(y, fn) => Sends(y, fn2)) /\ (EofTold(y, fn) => EofTold(y, fn2))
  BY DEF Sends, EofTold
<1>3. ASSUME NEW r, NEW x, NEW y, Hearing(r, x, y, fn) PROVE Hearing(r, x, y, fn2)
  BY <1>3 DEF Hearing
<1> QED BY <1>1, <1>2, <1>3

\* An upstream that has sent more.
LEMMA SendsMore ==
  ASSUME NEW y, NEW y2, NEW seg, NEW fn, NEW fn2, fn \subseteq fn2, Sends(y, fn), IsSeq(y.rbuf),
         NEW e \in BOOLEAN, e => y.ask \in fn2, Drains(y.venue, y.ans, seg, y2.ans, e),
         y2.venue = y.venue, y2.ask = y.ask,
         y2.rbuf = y.rbuf \o [i \in 1..Len(seg) |-> [r |-> y.ask, k |-> seg[i]]]
  PROVE  Sends(y2, fn2)
<1> DEFINE its == [i \in 1..Len(seg) |-> [r |-> y.ask, k |-> seg[i]]]
           A == {y.rbuf[i] : i \in 1..Len(y.rbuf)}
           B == {its[i] : i \in 1..Len(seg)}
           S == A \cup B
           q == y.rbuf
           t == y2.rbuf
<1>1. Len(seg) \in Nat /\ DOMAIN its = 1..Len(seg) /\ its = [i \in 1..Len(seg) |-> its[i]]
  BY DEF Drains
<1>2. \A i \in 1..Len(seg) : its[i].r = y.ask /\ its[i].k = seg[i]
  OBVIOUS
<1> HIDE DEF its
<1>3. IsSeq(its) /\ Len(its) = Len(seg)
  <2>1. its = [i \in DOMAIN its |-> its[i]]
    BY <1>1
  <2> QED BY <1>1, <2>1, FcnIs
<1>4. q \in Seq(A) /\ its \in Seq(B) /\ Len(q) \in Nat
  <2>1. its \in Seq({its[i] : i \in 1..Len(its)})
    BY <1>3, IsSeqOf
  <2>2. q \in Seq(A)
    BY IsSeqOf
  <2> QED BY <1>3, <2>1, <2>2 DEF IsSeq
<1> HIDE DEF A, B
<1>5. q \in Seq(S) /\ its \in Seq(S)
  BY <1>4
<1> HIDE DEF S
<1>6. t = q \o its
  BY DEF its
<1> HIDE DEF q, t
<1>7. /\ Len(t) = Len(q) + Len(seg)
      /\ \A i \in 1..Len(t) : t[i] = IF i <= Len(q) THEN q[i] ELSE its[i - Len(q)]
  <2>1. /\ Len(q \o its) = Len(q) + Len(its)
        /\ \A i \in 1..Len(q) + Len(its) :
             (q \o its)[i] = IF i <= Len(q) THEN q[i] ELSE its[i - Len(q)]
    BY ONLY <1>5, ConcatProperties
  <2> QED BY ONLY <1>3, <1>6, <2>1
<1>8. ASSUME NEW i \in 1..Len(t)
      PROVE  (i \in 1..Len(q) /\ t[i] = q[i]) \/ \E j \in 1..Len(seg) : t[i] = its[j]
  <2>0. i \in 1..Len(t) /\ i \in Nat \ {0} /\ Len(seg) \in Nat /\ Len(q) \in Nat
    BY <1>1, <1>4, <1>7
  <2>1. CASE i <= Len(q)
    BY ONLY <2>0, <1>7, <2>1
  <2>2. CASE ~(i <= Len(q))
    <3>1. i - Len(q) \in 1..Len(seg)
      BY ONLY <2>0, <1>7, <2>2
    <3> QED BY ONLY <2>0, <1>7, <2>2, <3>1
  <2> QED BY <2>1, <2>2
<1>9. y.venue \notin Translated /\ y.ans = "se" => y2.ans = "se" \/ y.ask \in fn2
  BY DEF Drains
<1>10. ASSUME NEW i \in 1..Len(t)
       PROVE  /\ t[i].r = y2.ask
              /\ t[i].k = "z" => y2.ask \in fn2
              /\ y2.venue \notin Translated =>
                   /\ t[i].k = "y" => y2.ask \in fn2
                   /\ t[i].k = "se" => y2.ans = "se" \/ y2.ask \in fn2
  <2>1. CASE i \in 1..Len(q) /\ t[i] = q[i]
    BY <1>9, <2>1 DEF Sends, q
  <2>2. ASSUME NEW j \in 1..Len(seg), t[i] = its[j]
        PROVE  /\ t[i].r = y2.ask
               /\ t[i].k = "z" => y2.ask \in fn2
               /\ y2.venue \notin Translated =>
                    /\ t[i].k = "y" => y2.ask \in fn2
                    /\ t[i].k = "se" => y2.ans = "se" \/ y2.ask \in fn2
    BY <1>2, <2>2 DEF Drains
  <2> QED BY <1>8, <2>1, <2>2
<1> QED BY <1>10 DEF Sends, t

\* The EOFs of one drain.
LEMMA DrainEofs ==
  ASSUME NEW u \in Up, NEW eof \in BOOLEAN, NEW t,
         t \in {<<<<"upBytes", u>>>>, <<<<"upEof", u>>>>, <<<<"upBytes", u>>, <<"upEof", u>>>>},
         ~eof => t = <<<<"upBytes", u>>>>
  PROVE  Eofs(t) \subseteq {u} /\ (~eof => Eofs(t) = {})
<1>1. /\ t # <<>> /\ t[1] \in {<<"upBytes", u>>, <<"upEof", u>>} /\ Owed(t) \subseteq {u}
      /\ u \in Owed(t) => t = <<<<"upBytes", u>>, <<"upEof", u>>>>
  BY DrainStack
<1>2. ASSUME NEW w \in Up, t[1] \in {<<"upEof", w>>, <<"pumpEof", w>>}
      PROVE  w = u /\ t[1] = <<"upEof", u>>
  <2>1. t[1][1] \in {"upEof", "pumpEof"} /\ t[1][2] = w
    BY <1>2
  <2>2. t[1] = <<"upEof", u>>
    BY <1>1, <2>1
  <2> QED BY <2>1, <2>2
<1>3. ASSUME ~eof PROVE t[1] # <<"upEof", u>> /\ u \notin Owed(t)
  <2> DEFINE b == <<"upBytes", u>>
             e == <<"upEof", u>>
  <2>1. t = <<b>> /\ b # e
    BY <1>3
  <2> HIDE DEF b, e
  <2>2. t[1] = b /\ t # <<b, e>>
    BY <2>1, ConcatTwo
  <2> QED BY <1>1, <2>1, <2>2 DEF b, e
<1> QED BY <1>1, <1>2, <1>3 DEF Eofs

LEMMA VenueSendsReads ==
  ASSUME Inv, ReadInv, NEW u \in Up, VenueSends(u)
  PROVE  ReadInv'
<1> PICK c : c = us[u].c
  OBVIOUS
<1>1. /\ c \in Client /\ cl[c].up = u /\ u # NoUp /\ UpSound(us[u], u \in Owed(todo))
      /\ Pair(c, cl[c].n, cl[c].phase, cl[c].out, us[u])
  BY PairedUp DEF VenueSends
<1>2. /\ DOMAIN cl = Client /\ DOMAIN us = Up /\ DOMAIN rx = Client /\ rx' = rx /\ Quiet
  BY DEF Inv, ReadInv, VenueSends, Drained, Calls
<1>3. /\ todo = <<>> /\ \A d \in Client : At(todo, d) = "none"
  BY <1>2, QuietStack
<1>4. /\ ClientShape(cl[c]) /\ cl[c].n \in Nat /\ us[u].ask = <<c, cl[c].n>> /\ UpShape(us[u])
      /\ IsSeq(us[u].rbuf) /\ cl[c].st # "closed"
  BY <1>1, <1>3, InvShape DEF Pair, UpSound, Mode
<1>5. PICK seg \in Segments(us[u].venue, us[u].ans), eof \in BOOLEAN :
        (seg # <<>> \/ eof) /\ Drained(u, seg, eof)
  BY DEF VenueSends
<1>6. PICK a2 : a2 = AfterAll(us[u].ans, seg)
  OBVIOUS
<1>7. PICK e \in BOOLEAN :
        e <=> \/ ToSet(seg) \cap {"z", "w", "b"} # {}
              \/ us[u].venue \notin Translated /\ ("y" \in ToSet(seg) \/ (eof /\ a2 = "se"))
  OBVIOUS
<1>8. Drains(us[u].venue, us[u].ans, seg, a2, e)
  <2>1. /\ ToSet(seg) \cap {"z", "w", "b"} # {} => e
        /\ us[u].venue \notin Translated /\ "y" \in ToSet(seg) => e
    BY <1>7
  <2> QED BY <1>6, <2>1, SegmentReads
<1>9. fin' = (IF e THEN fin \cup {us[u].ask} ELSE fin)
  BY <1>5, <1>6, <1>7 DEF Drained
<1>10. fin \subseteq fin' /\ (e => us[u].ask \in fin')
  BY <1>9
<1> DEFINE its == [i \in 1..Len(seg) |-> [r |-> us[u].ask, k |-> seg[i]]]
<1>11. PICK q, tk, ex, ef :
         us' = [us EXCEPT ![u] = [us[u] EXCEPT !.rbuf = q, !.ans = a2, !.toks = tk, !.extra = ex,
                                               !.eof = ef]]
         /\ q = us[u].rbuf \o its
  <2>1. PICK tk, ex, ef :
          us' = [us EXCEPT ![u] = [us[u] EXCEPT !.rbuf = us[u].rbuf \o its, !.ans = a2,
                                                !.toks = tk, !.extra = ex, !.eof = ef]]
    BY <1>5, <1>6 DEF Drained
  <2> QED BY <2>1
<1> HIDE DEF its
<1>12. /\ us'[u].venue = us[u].venue /\ us'[u].ask = us[u].ask /\ us'[u].ans = a2
       /\ us'[u].rbuf = us[u].rbuf \o its /\ ButUp(us', us, u)
  BY <1>2, <1>4, <1>11 DEF UpShape, ButUp
<1>13. Sends(us'[u], fin')
  <2> DEFINE y == us[u]
             y2 == us'[u]
             f2 == fin'
  <2>1. /\ Sends(y, fin) /\ fin \subseteq f2 /\ IsSeq(y.rbuf) /\ e \in BOOLEAN /\ (e => y.ask \in f2)
        /\ Drains(y.venue, y.ans, seg, y2.ans, e) /\ y2.venue = y.venue /\ y2.ask = y.ask
        /\ y2.rbuf = y.rbuf \o [i \in 1..Len(seg) |-> [r |-> y.ask, k |-> seg[i]]]
    BY <1>4, <1>8, <1>10, <1>12 DEF ReadInv, its
  <2> HIDE DEF y, y2, f2
  <2>2. Sends(y2, f2)
    BY ONLY <2>1, SendsMore
  <2> QED BY <2>2 DEF y2, f2
<1>14. /\ ButClient(cl', cl, c)
       /\ cl'[c] = cl[c] \/ (cl[c].phase = "Dispatched" /\ cl'[c] = Hears(cl[c]))
  <2>1. cl' = cl \/ (cl[c].phase = "Dispatched" /\ cl' = [cl EXCEPT ![c].phase = "Responding"])
    BY <1>5 DEF Drained
  <2> QED BY <1>1, <1>2, <2>1 DEF ButClient, Hears
<1>15. /\ todo' \in {<<<<"upBytes", u>>>>, <<<<"upEof", u>>>>, <<<<"upBytes", u>>, <<"upEof", u>>>>}
       /\ ~eof => todo' = <<<<"upBytes", u>>>>
  <2> DEFINE b == <<"upBytes", u>>
             p == <<"upEof", u>>
  <2>1. PICK m \in BOOLEAN : m <=> cl[c].streaming
    OBVIOUS
  <2>2. todo' = (IF seg # <<>> /\ ~(eof /\ m) THEN <<b>> ELSE <<>>) \o (IF eof THEN <<p>> ELSE <<>>)
        /\ (seg # <<>> \/ eof)
    BY <1>5, <2>1 DEF Drained, Calls
  <2> HIDE DEF b, p
  <2>3. <<b>> \o <<>> = <<b>> /\ <<>> \o <<p>> = <<p>> /\ <<b>> \o <<p>> = <<b, p>>
    BY ConcatTwo
  <2>4. todo' \in {<<b>>, <<p>>, <<b, p>>} /\ (~eof => todo' = <<b>>)
    <3>1. CASE ~eof
      BY <2>2, <2>3, <3>1
    <3>2. CASE eof /\ (seg = <<>> \/ m)
      BY <2>2, <2>3, <3>2
    <3>3. CASE eof /\ seg # <<>> /\ ~m
      BY <2>2, <2>3, <3>3
    <3> QED BY <3>1, <3>2, <3>3
  <2> QED BY <2>4 DEF b, p
<1>16. /\ \A d \in Client : At(todo', d) = "none"
       /\ Eofs(todo') \subseteq {u} /\ (~eof => Eofs(todo') = {})
  BY <1>15, DrainStack, DrainEofs
<1>17. ASSUME NEW d \in Client PROVE Reads(d, rx'[d], cl'[d], At(todo', d), fin')
  <2>1. Reads(d, rx[d], cl[d], "none", fin')
    <3>1. Reads(d, rx[d], cl[d], "none", fin)
      BY <1>3 DEF ReadInv
    <3> QED BY <1>10, <3>1, FinGrows
  <2>2. CASE cl'[d] = cl[d]
    BY <1>2, <1>16, <2>1, <2>2
  <2>3. CASE d = c /\ cl[c].phase = "Dispatched" /\ cl'[c] = Hears(cl[c])
    <3> DEFINE x == cl[c]
               y == cl'[c]
               s == rx[c]
               f2 == fin'
    <3>1. /\ y.n = x.n /\ y.phase = "Responding" /\ y.out = x.out /\ SameStream(y, x)
      <4>1. ClientShape(x) /\ y = Hears(x)
        BY <1>4, <2>3
      <4> HIDE DEF x, y
      <4> QED BY ONLY <4>1 DEF Hears, ClientShape, SameStream
    <3>2. /\ Reads(c, s, x, "none", f2) /\ x.phase = "Dispatched" /\ x.st # "closed" /\ x.n \in Nat
      BY <1>4, <2>1, <2>3
    <3> HIDE DEF x, y, s, f2
    <3>3. Reads(c, s, y, "none", f2)
      BY ONLY <3>1, <3>2, ReadsMoves
    <3> QED BY <1>2, <1>16, <2>3, <3>3 DEF y, s, f2
  <2> QED BY <1>14, <2>2, <2>3 DEF ButClient
<1>18. ASSUME NEW d \in Client, cl'[d].up # NoUp
       PROVE  Hearing(<<d, cl'[d].n>>, cl'[d], us'[cl'[d].up], fin')
  <2>1. CASE d = c /\ cl[c].phase = "Dispatched" /\ cl'[c] = Hears(cl[c])
    <3>1. cl'[c].phase = "Responding"
      BY <1>4, <2>1 DEF Hears, ClientShape
    <3> QED BY <2>1, <3>1 DEF Hearing
  <2>2. CASE cl'[d] = cl[d]
    <3>1. Hearing(<<d, cl[d].n>>, cl[d], us[cl[d].up], fin')
      <4>1. Hearing(<<d, cl[d].n>>, cl[d], us[cl[d].up], fin)
        BY <1>18, <2>2 DEF ReadInv
      <4> QED BY <1>10, <4>1, FinGrows
    <3>2. CASE d = c
      <4>1. us[u].venue \notin Translated /\ us[u].ans = "se" => a2 = "se" \/ us[u].ask \in fin'
        BY <1>8, <1>10 DEF Drains
      <4>2. Hearing(<<c, cl[c].n>>, cl[c], us[u], fin')
        BY <1>1, <3>1, <3>2
      <4>3. Hearing(<<c, cl[c].n>>, cl[c], us'[u], fin')
        BY <1>4, <1>12, <4>1, <4>2 DEF Hearing
      <4> QED BY <1>1, <2>2, <3>2, <4>3
    <3>3. CASE d # c
      <4>1. cl[d].up \in Up /\ us[cl[d].up].c = d
        BY <1>18, <2>2, PairOf DEF Inv, Pair
      <4>2. us'[cl[d].up] = us[cl[d].up]
        BY <1>12, <3>3, <4>1 DEF ButUp
      <4> QED BY <2>2, <3>1, <4>2
    <3> QED BY <3>2, <3>3
  <2> QED BY <1>14, <2>1, <2>2 DEF ButClient
<1>19. ASSUME NEW w \in Up PROVE Sends(us'[w], fin')
  <2>1. w # u => us'[w] = us[w] /\ Sends(us[w], fin')
    BY <1>10, <1>12, FinGrows DEF ReadInv, ButUp
  <2> QED BY <1>13, <2>1
<1>20. ASSUME NEW w \in Eofs(todo') PROVE EofTold(us'[w], fin')
  <2>1. w = u /\ eof
    BY <1>16
  <2>2. us[u].venue \notin Translated /\ a2 = "se" => us[u].ask \in fin'
    BY <1>7, <1>10, <2>1
  <2> QED BY <1>12, <2>1, <2>2 DEF EofTold
<1> QED BY <1>2, <1>17, <1>18, <1>19, <1>20 DEF ReadInv

-----------------------------------------------------------------------------
(* Every client reads its own replies.                                     *)

LEMMA InitReads ==
  ASSUME Init
  PROVE  ReadInv
<1>1. /\ cl = [c \in Client |-> NewClient] /\ us = [u \in Up |-> NewUp] /\ todo = <<>>
      /\ rx = [c \in Client |-> [n |-> 0, mode |-> "between", raw |-> FALSE]] /\ fin = {}
  BY DEF Init
<1>2. Eofs(todo) = {}
  <2>1. Len(<<>>) = 0
    OBVIOUS
  <2> QED BY <1>1, <2>1 DEF Eofs, Owed
<1>3. ASSUME NEW c \in Client PROVE Reads(c, rx[c], cl[c], At(todo, c), fin)
  <2> PICK s : s = rx[c]
    OBVIOUS
  <2>1. s \in Rx /\ s.n = 0 /\ s.mode = "between"
    BY <1>1 DEF Rx
  <2>2. cl[c] = NewClient /\ At(todo, c) = "none"
    BY <1>1 DEF At
  <2>3. /\ NewClient.n = 0 /\ NewClient.phase = "Idle" /\ NewClient.out = <<>>
    BY DEF NewClient
  <2>4. Hand(0, "Idle", "none") = 1
    BY DEF Hand
  <2>5. Owing(c, 1, s, <<>>, fin) /\ Interim(s, <<>>)
    <3>1. s.n + 1 = 1
      BY <2>1
    <3> QED BY <2>1, <3>1, OwingNone
  <2>6. Told(s, NewClient, "none") /\ Heard(<<c, 0>>, NewClient, fin)
    BY <2>3, <2>4, <2>5 DEF Told, Heard
  <2>7. Reads(c, s, NewClient, "none", fin)
    BY <2>1, <2>3, <2>4, <2>5, <2>6 DEF Reads
  <2> QED BY <2>2, <2>7
<1>4. \A c \in Client : cl[c].up = NoUp
  BY <1>1 DEF NewClient
<1>5. ASSUME NEW u \in Up PROVE Sends(us[u], fin)
  <2>1. Len(us[u].rbuf) = 0
    BY <1>1 DEF NewUp
  <2> QED BY <2>1 DEF Sends
<1> QED BY <1>1, <1>2, <1>3, <1>4, <1>5 DEF ReadInv

LEMMA NextReads ==
  ASSUME Inv, ReadInv, [Next]_vars
  PROVE  ReadInv'
<1>1. CASE UNCHANGED vars
  BY <1>1 DEF vars, ReadInv
<1>2. CASE Internal
  <2>1. ASSUME NEW c \in Client,
               \/ Gate(c) \/ FrameNothing(c) \/ FrameContinue(c) \/ Frame(c)
               \/ DispatchRefused(c) \/ DispatchNoConn(c) \/ Dispatch(c)
               \/ Failed(c) \/ Error(c) \/ Respond(c) \/ StreamFlush(c)
        PROVE  ReadInv'
    BY <2>1, GateReads, FrameNothingReads, FrameContinueReads, FrameReads, DispatchRefusedReads,
       DispatchNoConnReads, DispatchReads, FailedReads, ErrorReads, RespondReads, StreamFlushReads
  <2>2. ASSUME NEW u \in Up,
               \/ SendUpstream(u) \/ UpstreamLost(u) \/ UpstreamBytes(u) \/ UpstreamEof(u)
               \/ StreamPump(u) \/ StreamEof(u)
        PROVE  ReadInv'
    BY <2>2, SendUpstreamReads, UpstreamLostReads, UpstreamBytesReads, UpstreamEofReads,
       StreamPumpReads, StreamEofReads
  <2> QED BY <1>2, <2>1, <2>2 DEF Internal
<1>3. CASE Event
  <2>1. ASSUME NEW c \in Client, Sweep(c) PROVE ReadInv'
    <3>1. CASE SweepClose(c)
      BY <3>1, ClientGoneReads DEF SweepClose
    <3> QED BY <2>1, <3>1, SweepConnectReads, SweepSilentReads DEF Sweep
  <2>2. ASSUME NEW c \in Client, ClientGone(c) PROVE ReadInv'
    BY <2>2, ClientGoneReads DEF ClientGone
  <2>3. ASSUME NEW c \in Client,
               Accept(c) \/ ClientSends(c) \/ ClientGone(c) \/ ClientWritable(c) \/ Sweep(c)
        PROVE  ReadInv'
    BY <2>1, <2>2, <2>3, AcceptReads, ClientSendsReads, ClientWritableReads
  <2>4. ASSUME NEW u \in Up,
               UpstreamWritable(u) \/ ConnectError(u) \/ VenueSends(u) \/ IdleDrop(u)
        PROVE  ReadInv'
    BY <2>4, UpstreamWritableReads, ConnectErrorReads, VenueSendsReads, IdleDropReads
  <2> QED BY <1>3, <2>3, <2>4 DEF Event
<1> QED BY <1>1, <1>2, <1>3 DEF Next

\* A client that has read bytes outside any chunk is in a stream that failed
\* and closes.
LEMMA RawCloses ==
  ASSUME Inv, ReadInv, NEW c \in Client, rx[c].raw, cl[c].st # "closed"
  PROVE  cl[c].bad /\ cl[c].closeAfter
<1> DEFINE x == cl[c]
           s == rx[c]
           at == At(todo, c)
           m == Hand(x.n, x.phase, at)
<1>1. s \in Rx /\ Owing(c, m, s, x.out, fin) /\ Told(s, x, at) /\ s.mode = "body"
  BY DEF ReadInv, Reads, Rx
<1>2. x.phase \in Phases /\ IsSeq(x.out) /\ (x.phase = "Replying" => x.out # <<>>)
  <2>1. Awake(x.st, x.phase, x.up, x.rbuf, x.half, x.out, x.ended, x.paused, at, Gated(todo, c))
    BY DEF Inv, Local, ClientSound
  <2> QED BY <2>1, InvShape DEF Awake, ClientShape
<1>3. x.phase \notin {"Idle", "Dispatched", "Responding"}
  BY <1>1 DEF Told, Interim
<1>4. x.phase # "Replying"
  <2> SUFFICES ASSUME x.phase = "Replying" PROVE FALSE
    OBVIOUS
  <2>1. Len(x.out) \in 1..Len(x.out) /\ Last(x.out) = x.out[Len(x.out)]
    <3>1. Len(x.out) \in Nat /\ Len(x.out) # 0
      BY <1>2, IsSeqOf, EmptySeq DEF IsSeq
    <3> QED BY <3>1 DEF Last
  <2>2. x.out[Len(x.out)].k \in {"w", "err"} /\ Fits(s, x.out, Len(x.out), fin)
    BY <1>1, <2>1 DEF Told, Owing
  <2> QED BY <1>1, <2>2 DEF Fits, Inner
<1>5. x.phase = "Streaming"
  BY <1>2, <1>3, <1>4 DEF Phases
<1> QED BY <1>1, <1>5 DEF Told, Bare

\* What a client reads parses: its own replies and no one else's, one per
\* request in the order it asked, none begun before the last is over, and a
\* stream's end only if a venue finished that answer (deliver_response,
\* stream_flush, finalize_stream, send_error).  The one exception are the events
\* of a step the translator fails in, which leave outside any chunk
\* (stream.hpp:415): nothing but the close follows them.
THEOREM ClientsReadTheirRepliesHolds == Spec => []ClientsReadTheirReplies
<1>1. Init => Inv /\ ReadInv
  BY InitKeeps, InitReads
<1>2. Inv /\ ReadInv /\ [Next]_vars => Inv' /\ ReadInv'
  BY NextKeeps, NextReads
<1>3. Inv /\ ReadInv => ClientsReadTheirReplies
  <2>1. ReadInv => \A c \in Client : rx[c].mode # "bad"
    BY DEF ReadInv, Reads, Rx
  <2> QED BY <2>1, RawCloses DEF ClientsReadTheirReplies
<1> QED BY <1>1, <1>2, <1>3, PTL DEF Spec
=============================================================================
