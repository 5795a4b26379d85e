-------------------------- MODULE PoolStacks_proofs --------------------------
(***************************************************************************)
(* The pool's intrusive lists implement a stack per venue (PoolSpec), for  *)
(* any number of connections and venues and any capacity.  The step from   *)
(* pointers to sequences is the walk of for_each: at every moment the      *)
(* links of a venue spell out exactly one sequence, and each operation     *)
(* changes that sequence as the stack's operation does.                    *)
(***************************************************************************)
EXTENDS UpstreamPool_proofs, SequenceTheorems, WellFoundedInduction

\* q lists the pooled connections of v, each once, in the order of the links.
Lists(q, v) ==
  /\ q \in Seq(Conn)
  /\ Follows(q, newest[v], older)
  /\ \A i \in 1..Len(q) : q[i] \in PooledAt(v)
  /\ \A u \in PooledAt(v) : \E i \in 1..Len(q) : q[i] = u
  /\ \A i, j \in 1..Len(q) : q[i] = q[j] => i = j

\* Every venue's links spell out such a sequence.
Listed == \A v \in Venue : \E q : Lists(q, v)

\* r is q with its k-th element taken out.
IsWithout(r, q, k) ==
  /\ r \in Seq(Conn)
  /\ Len(r) = Len(q) - 1
  /\ \A i \in 1..Len(r) : r[i] = IF i < k THEN q[i] ELSE q[i + 1]

-----------------------------------------------------------------------------
(* Sequences and the walk.                                                 *)

\* A nonempty set of natural numbers has a least element.
LEMMA LeastNat ==
  ASSUME NEW T, T \subseteq Nat, T # {}
  PROVE  \E m \in T : \A y \in T : m <= y
<1> DEFINE R == OpToRel(<, Nat)
<1>1. IsWellFoundedOn(R, Nat)
  BY NatLessThanWellFounded
<1>2. \A x, y \in Nat : x < y => <<x, y>> \in R
  BY DEF OpToRel
<1> HIDE DEF R
<1>3. PICK m \in T : \A y \in T : ~(<<y, m>> \in R)
  BY <1>1, WFMin
<1>4. ASSUME NEW y \in T PROVE m <= y
  <2>1. y \in Nat /\ m \in Nat
    OBVIOUS
  <2>2. ~(y < m)
    BY <2>1, <1>2, <1>3
  <2> QED BY <2>1, <2>2
<1> QED BY <1>3, <1>4

\* Two walks along the same links agree as far as the first one goes.
LEMMA WalksAgree ==
  ASSUME NEW first, NEW next, NEW q \in Seq(Conn), NEW p \in Seq(Conn),
         Follows(q, first, next), Follows(p, first, next)
  PROVE  Len(q) <= Len(p) /\ \A i \in 1..Len(q) : q[i] = p[i]
<1> DEFINE T == {i \in 1..Len(q) : ~(i \in 1..Len(p) /\ q[i] = p[i])}
<1>0. /\ Len(q) \in Nat /\ DOMAIN q = 1..Len(q) /\ Len(p) \in Nat /\ DOMAIN p = 1..Len(p)
      /\ \A i \in 1..Len(q) : q[i] \in Conn /\ q[i] # NoConn
      /\ \A i \in 1..Len(p) : p[i] \in Conn /\ p[i] # NoConn
  BY PoolConstants
<1>1. SUFFICES ASSUME T # {} PROVE FALSE
  <2>1. \A i \in 1..Len(q) : i \in 1..Len(p) /\ q[i] = p[i]
    BY <1>1
  <2>2. Len(q) <= Len(p)
    BY <2>1, <1>0
  <2> QED BY <2>1, <2>2
<1>2. T \subseteq Nat
  BY <1>0
<1>3. PICK m \in T : \A y \in T : m <= y
  BY <1>1, <1>2, LeastNat
<1>4. m \in 1..Len(q) /\ ~(m \in 1..Len(p) /\ q[m] = p[m])
  OBVIOUS
<1>5. CASE m = 1
  BY <1>4, <1>5, <1>0 DEF Follows, At
<1>6. CASE m # 1
  <2>1. m - 1 \in 1..Len(q) /\ m - 1 \notin T
    BY <1>3, <1>4, <1>6, <1>0
  <2>2. m - 1 \in 1..Len(p) /\ q[m - 1] = p[m - 1]
    BY <2>1
  <2>3. next[q[m - 1]] = q[m]
    BY <2>1, <1>4, <1>0 DEF Follows, At
  <2>4. next[p[m - 1]] = IF m \in 1..Len(p) THEN p[m] ELSE NoConn
    BY <2>2, <1>4, <1>0 DEF Follows, At
  <2> QED BY <2>2, <2>3, <2>4, <1>4, <1>0
<1> QED BY <1>5, <1>6

\* A sequence that repeats no connection is no longer than there are connections.
LEMMA ShortEnough ==
  ASSUME NEW q \in Seq(Conn), \A i, j \in 1..Len(q) : q[i] = q[j] => i = j
  PROVE  q \in UNION {[1..n -> Conn] : n \in 0..Cardinality(Conn)}
<1>1. q \in [1..Len(q) -> Conn] /\ Len(q) \in Nat
  OBVIOUS
<1>2. q \in Injection(1..Len(q), Conn)
  BY <1>1 DEF Injection, IsInjective
<1>3. Cardinality(1..Len(q)) <= Cardinality(Conn)
  BY <1>2, PoolConstants, FS_Injection
<1>4. Cardinality(1..Len(q)) = Len(q)
  <2>1. 1 \in Int /\ Len(q) \in Int
    BY <1>1
  <2>2. Cardinality(1..Len(q)) = IF 1 > Len(q) THEN 0 ELSE Len(q) - 1 + 1
    BY <2>1, FS_Interval
  <2> QED BY <2>2, <1>1
<1>5. Cardinality(Conn) \in Nat
  BY PoolConstants, FS_CardinalityType
<1>6. Len(q) \in 0..Cardinality(Conn)
  BY <1>1, <1>3, <1>4, <1>5
<1> QED BY <1>1, <1>6

\* The walk is the sequence that follows the links: there is no other.
LEMMA WalkIs ==
  ASSUME NEW first, NEW next, NEW q \in Seq(Conn), Follows(q, first, next),
         \A i, j \in 1..Len(q) : q[i] = q[j] => i = j
  PROVE  WalkFrom(first, next) = q
<1> DEFINE S == UNION {[1..n -> Conn] : n \in 0..Cardinality(Conn)}
<1>1. q \in S
  BY ShortEnough
<1>2. PICK p : p = WalkFrom(first, next)
  OBVIOUS
<1>3. p \in S /\ Follows(p, first, next)
  BY <1>1, <1>2 DEF WalkFrom
<1>4. p \in Seq(Conn)
  <2>1. PICK n \in 0..Cardinality(Conn) : p \in [1..n -> Conn]
    BY <1>3
  <2>2. n \in Nat
    BY <2>1, PoolConstants, FS_CardinalityType
  <2> QED BY <2>1, <2>2
<1>5. Len(q) <= Len(p) /\ \A i \in 1..Len(q) : q[i] = p[i]
  BY <1>3, <1>4, WalksAgree
<1>6. Len(p) <= Len(q) /\ \A i \in 1..Len(p) : p[i] = q[i]
  BY <1>3, <1>4, WalksAgree
<1>7. Len(p) = Len(q)
  <2>1. Len(p) \in Nat /\ Len(q) \in Nat
    BY <1>4
  <2> QED BY <2>1, <1>5, <1>6
<1> QED BY <1>2, <1>4, <1>6, <1>7, SeqEqual

\* The sequences that PoolSpec's steps write.
LEMMA TailIsWithout ==
  ASSUME NEW q \in Seq(Conn), q # <<>>
  PROVE  IsWithout(Tail(q), q, 1) /\ Head(q) = q[1] /\ 1 \in 1..Len(q)
<1>1. Len(q) \in Nat /\ Len(q) # 0
  BY EmptySeq
<1>2. /\ Tail(q) \in Seq(Conn) /\ Len(Tail(q)) = Len(q) - 1
      /\ \A i \in 1..Len(Tail(q)) : Tail(q)[i] = q[i + 1]
  BY HeadTailProperties
<1>3. Head(q) = q[1]
  BY <1>1
<1>4. \A i \in 1..Len(Tail(q)) : ~(i < 1)
  BY <1>1, <1>2
<1> QED BY <1>1, <1>2, <1>3, <1>4 DEF IsWithout

LEMMA CutIsWithout ==
  ASSUME NEW q \in Seq(Conn), NEW k \in 1..Len(q)
  PROVE  IsWithout(SubSeq(q, 1, k - 1) \o SubSeq(q, k + 1, Len(q)), q, k)
<1> DEFINE a == SubSeq(q, 1, k - 1)
           b == SubSeq(q, k + 1, Len(q))
<1>0. Len(q) \in Nat /\ k \in Nat /\ k >= 1 /\ k <= Len(q)
  OBVIOUS
<1>1. a \in Seq(Conn) /\ Len(a) = k - 1 /\ \A i \in 1..(k - 1) : a[i] = q[i]
  <2>1. \A i \in 1..(k - 1) : q[i] \in Conn
    BY <1>0
  <2>2. /\ a \in Seq(Conn) /\ Len(a) = IF 1 <= k - 1 THEN (k - 1) - 1 + 1 ELSE 0
        /\ \A i \in 1..((k - 1) - 1 + 1) : a[i] = q[1 + i - 1]
    BY <2>1, <1>0, SubSeqProperties
  <2> QED BY <2>2, <1>0
<1>2. b \in Seq(Conn) /\ Len(b) = Len(q) - k /\ \A i \in 1..(Len(q) - k) : b[i] = q[k + i]
  <2>1. \A i \in (k + 1)..Len(q) : q[i] \in Conn
    BY <1>0
  <2>2. /\ b \in Seq(Conn) /\ Len(b) = IF k + 1 <= Len(q) THEN Len(q) - (k + 1) + 1 ELSE 0
        /\ \A i \in 1..(Len(q) - (k + 1) + 1) : b[i] = q[(k + 1) + i - 1]
    BY <2>1, <1>0, SubSeqProperties
  <2>3. ASSUME NEW i \in 1..(Len(q) - k) PROVE b[i] = q[k + i]
    <3>1. i \in 1..(Len(q) - (k + 1) + 1) /\ (k + 1) + i - 1 = k + i
      BY <1>0
    <3> QED BY <2>2, <3>1
  <2> QED BY <2>2, <2>3, <1>0
<1> HIDE DEF a, b
<1>3. /\ a \o b \in Seq(Conn) /\ Len(a \o b) = Len(a) + Len(b)
      /\ \A i \in 1..(Len(a) + Len(b)) : (a \o b)[i] = IF i <= Len(a) THEN a[i] ELSE b[i - Len(a)]
  BY <1>1, <1>2, ConcatProperties
<1>4. ASSUME NEW i \in 1..(Len(q) - 1)
      PROVE  (a \o b)[i] = IF i < k THEN q[i] ELSE q[i + 1]
  <2>1. (a \o b)[i] = IF i <= k - 1 THEN a[i] ELSE b[i - (k - 1)]
    BY <1>0, <1>1, <1>2, <1>3
  <2>2. CASE i < k
    BY <2>1, <2>2, <1>0, <1>1
  <2>3. CASE ~(i < k)
    <3>1. i - (k - 1) \in 1..(Len(q) - k) /\ k + (i - (k - 1)) = i + 1 /\ ~(i <= k - 1)
      BY <2>3, <1>0
    <3>2. b[i - (k - 1)] = q[k + (i - (k - 1))]
      BY <3>1, <1>2
    <3> QED BY <2>1, <2>3, <3>1, <3>2
  <2> QED BY <2>2, <2>3
<1>5. IsWithout(a \o b, q, k)
  BY <1>0, <1>1, <1>2, <1>3, <1>4 DEF IsWithout
<1> QED BY <1>5 DEF a, b

-----------------------------------------------------------------------------
(* The two list operations, on the sequence the links spell out.           *)

\* The walk of a listed venue.
LEMMA WalkOf ==
  ASSUME NEW v, NEW q, Lists(q, v)
  PROVE  Walk(v) = q
BY WalkIs DEF Lists, Walk

LEMMA WalkOfPrime ==
  ASSUME NEW v, NEW q, Lists(q, v)'
  PROVE  Walk(v)' = q
BY WalkIs DEF Lists, Walk

\* remove(u) takes u out of the middle of its venue's sequence.
LEMMA RemoveCuts ==
  ASSUME PoolInv, NEW u \in Conn, state[u] = "pooled", Remove(u), venue' = venue,
         NEW st \in {"closed", "inUse"}, state' = [state EXCEPT ![u] = st],
         NEW q, Lists(q, venue[u]), NEW k \in 1..Len(q), q[k] = u,
         NEW r, IsWithout(r, q, k), NEW v, v = venue[u]
  PROVE  Lists(r, v)'
<1> USE DEF PoolInv
<1>0. /\ q \in Seq(Conn) /\ Len(q) \in Nat /\ DOMAIN q = 1..Len(q)
      /\ r \in Seq(Conn) /\ Len(r) = Len(q) - 1 /\ DOMAIN r = 1..Len(r) /\ Len(r) \in Nat
      /\ k \in Nat /\ k >= 1 /\ k <= Len(q) /\ venue[u] \in Venue
  BY DEF Lists, IsWithout, TypeOK
<1>1. \A i \in 1..Len(q) : q[i] \in PooledAt(v) /\ q[i] \in Conn /\ q[i] # NoConn
                           /\ state[q[i]] = "pooled"
  BY PoolConstants DEF Lists, PooledAt, Pooled
<1>2. \A i, j \in 1..Len(q) : q[i] = q[j] => i = j
  BY DEF Lists
<1>3. /\ newest[v] = IF 1 <= Len(q) THEN q[1] ELSE NoConn
      /\ \A i \in 1..Len(q) : older[q[i]] = IF i + 1 <= Len(q) THEN q[i + 1] ELSE NoConn
  BY <1>0 DEF Lists, Follows, At
<1>4. \A i \in 1..Len(r) : r[i] = IF i < k THEN q[i] ELSE q[i + 1]
  BY DEF IsWithout
<1>5. PooledAt(v)' = PooledAt(v) \ {u}
  BY DEF TypeOK, PooledAt, Pooled
<1>6. newer[u] = IF k = 1 THEN NoConn ELSE q[k - 1]
  <2>1. CASE k = 1
    BY <2>1, <1>0, <1>1, <1>3 DEF Ends
  <2>2. CASE k # 1
    <3>1. k - 1 \in 1..Len(q) /\ older[q[k - 1]] = u
      <4>1. k - 1 \in 1..Len(q) /\ (k - 1) + 1 = k
        BY <2>2, <1>0
      <4> QED BY <4>1, <1>0, <1>3
    <3>2. q[k - 1] \in Conn /\ state[q[k - 1]] = "pooled" /\ u # NoConn
      BY <3>1, <1>1, PoolConstants
    <3> QED BY <3>1, <3>2, <2>2 DEF Chained
  <2> QED BY <2>1, <2>2
<1>7. older[u] = IF k + 1 <= Len(q) THEN q[k + 1] ELSE NoConn
  BY <1>0, <1>3
<1>8. newest'[v] = At(r, 1)
  <2>1. CASE k = 1
    <3>1. newest'[v] = older[u]
      BY <2>1, <1>0, <1>6 DEF Remove, TypeOK
    <3>2. At(r, 1) = IF 1 <= Len(r) THEN q[2] ELSE NoConn
      <4>1. CASE 1 <= Len(r)
        <5>1. 1 \in 1..Len(r)
          BY <4>1, <1>0
        <5>2. r[1] = q[1 + 1]
          BY <5>1, <2>1, <1>4
        <5> QED BY <4>1, <5>1, <5>2, <1>0 DEF At
      <4>2. CASE ~(1 <= Len(r))
        BY <4>2, <1>0 DEF At
      <4> QED BY <4>1, <4>2
    <3> QED BY <3>1, <3>2, <2>1, <1>0, <1>7
  <2>2. CASE k # 1
    <3>1. newer[u] # NoConn
      <4>1. k - 1 \in 1..Len(q)
        BY <2>2, <1>0
      <4> QED BY <4>1, <2>2, <1>1, <1>6
    <3>2. newest'[v] = newest[v]
      BY <3>1 DEF Remove
    <3>3. 1 \in 1..Len(r) /\ 1 < k /\ 1 <= Len(q)
      BY <2>2, <1>0
    <3>4. r[1] = q[1]
      BY <3>3, <1>4
    <3> QED BY <3>2, <3>3, <3>4, <1>0, <1>3 DEF At
  <2> QED BY <2>1, <2>2
<1>9. ASSUME NEW i \in 1..Len(r) PROVE older'[r[i]] = At(r, i + 1)
  <2>0. i \in Nat /\ i >= 1 /\ i <= Len(q) - 1 /\ i \in 1..Len(q) /\ i + 1 \in 1..Len(q)
    BY <1>0
  <2>1. CASE i < k
    <3>1. r[i] = q[i] /\ q[i] \in Conn /\ q[i] # u
      <4>1. i # k
        BY <2>0, <2>1, <1>0
      <4> QED BY <4>1, <2>0, <2>1, <1>1, <1>2, <1>4
    <3>2. CASE i = k - 1
      <4>1. q[i] = newer[u] /\ k + 1 = (i + 1) + 1
        BY <3>2, <2>0, <1>0, <1>6
      <4>2. older'[q[i]] = older[u]
        BY <3>1, <4>1 DEF Remove
      <4>3. At(r, i + 1) = IF i + 1 <= Len(r) THEN q[k + 1] ELSE NoConn
        <5>1. CASE i + 1 <= Len(r)
          <6>1. i + 1 \in 1..Len(r) /\ ~(i + 1 < k)
            BY <5>1, <3>2, <2>0, <1>0
          <6>2. r[i + 1] = q[(i + 1) + 1]
            BY <6>1, <1>4
          <6> QED BY <5>1, <6>1, <6>2, <4>1, <1>0 DEF At
        <5>2. CASE ~(i + 1 <= Len(r))
          BY <5>2, <2>0, <1>0 DEF At
        <5> QED BY <5>1, <5>2
      <4>4. i + 1 <= Len(r) <=> k + 1 <= Len(q)
        BY <3>2, <2>0, <1>0
      <4> QED BY <3>1, <4>2, <4>3, <4>4, <1>7
    <3>3. CASE i # k - 1
      <4>1. i + 1 < k /\ i + 1 \in 1..Len(r) /\ i + 1 <= Len(q)
        BY <3>3, <2>0, <2>1, <1>0
      <4>2. q[i] # newer[u]
        <5>1. k # 1 => k - 1 \in 1..Len(q)
          BY <1>0
        <5> QED BY <5>1, <3>3, <2>0, <1>1, <1>2, <1>6
      <4>3. older'[q[i]] = older[q[i]]
        BY <3>1, <4>2 DEF Remove
      <4>4. older[q[i]] = q[i + 1] /\ r[i + 1] = q[i + 1]
        BY <4>1, <2>0, <1>3, <1>4
      <4> QED BY <3>1, <4>1, <4>3, <4>4, <1>0 DEF At
    <3> QED BY <3>2, <3>3
  <2>2. CASE ~(i < k)
    <3>1. r[i] = q[i + 1] /\ q[i + 1] \in Conn /\ q[i + 1] # u /\ q[i + 1] # newer[u]
      <4>1. i + 1 # k /\ i + 1 # k - 1 /\ (k # 1 => k - 1 \in 1..Len(q))
        BY <2>0, <2>2, <1>0
      <4> QED BY <4>1, <2>0, <2>2, <1>1, <1>2, <1>4, <1>6
    <3>2. older'[r[i]] = older[q[i + 1]]
      BY <3>1 DEF Remove
    <3>3. older[q[i + 1]] = IF (i + 1) + 1 <= Len(q) THEN q[(i + 1) + 1] ELSE NoConn
      BY <2>0, <1>3
    <3>4. CASE i + 1 <= Len(r)
      <4>1. i + 1 \in 1..Len(r) /\ ~(i + 1 < k) /\ (i + 1) + 1 <= Len(q)
        BY <3>4, <2>0, <2>2, <1>0
      <4>2. r[i + 1] = q[(i + 1) + 1]
        BY <4>1, <1>4
      <4> QED BY <3>2, <3>3, <4>1, <4>2, <1>0 DEF At
    <3>5. CASE ~(i + 1 <= Len(r))
      <4>1. i + 1 \notin 1..Len(r) /\ ~((i + 1) + 1 <= Len(q))
        BY <3>5, <2>0, <1>0
      <4> QED BY <3>2, <3>3, <4>1, <1>0 DEF At
    <3> QED BY <3>4, <3>5
  <2> QED BY <2>1, <2>2
<1>10. Follows(r, newest'[v], older')
  BY <1>0, <1>8, <1>9 DEF Follows
<1>11. ASSUME NEW i \in 1..Len(r) PROVE r[i] \in PooledAt(v)'
  <2>1. i \in 1..Len(q) /\ i + 1 \in 1..Len(q) /\ (i < k => i # k) /\ (~(i < k) => i + 1 # k)
    BY <1>0
  <2> QED BY <2>1, <1>1, <1>2, <1>4, <1>5
<1>12. ASSUME NEW w \in PooledAt(v)' PROVE \E i \in 1..Len(r) : r[i] = w
  <2>1. PICK j \in 1..Len(q) : q[j] = w /\ j # k
    BY <1>5 DEF Lists
  <2>2. CASE j < k
    <3>1. j \in 1..Len(r)
      BY <2>2, <1>0
    <3> QED BY <3>1, <2>1, <2>2, <1>4
  <2>3. CASE ~(j < k)
    <3>1. j - 1 \in 1..Len(r) /\ ~(j - 1 < k) /\ (j - 1) + 1 = j
      BY <2>1, <2>3, <1>0
    <3>2. r[j - 1] = q[(j - 1) + 1]
      BY <3>1, <1>4
    <3> QED BY <3>1, <3>2, <2>1
  <2> QED BY <2>2, <2>3
<1>13. ASSUME NEW i \in 1..Len(r), NEW j \in 1..Len(r), r[i] = r[j] PROVE i = j
  <2>1. /\ i \in 1..Len(q) /\ i + 1 \in 1..Len(q) /\ j \in 1..Len(q) /\ j + 1 \in 1..Len(q)
        /\ i \in Nat /\ j \in Nat
    BY <1>0
  <2>2. (IF i < k THEN i ELSE i + 1) = (IF j < k THEN j ELSE j + 1)
    BY <2>1, <1>13, <1>2, <1>4
  <2> QED BY <2>1, <2>2, <1>0
<1> QED BY <1>0, <1>10, <1>11, <1>12, <1>13 DEF Lists

\* ... and leaves every other venue's sequence as it is.
LEMMA RemoveKeeps ==
  ASSUME PoolInv, NEW u \in Conn, state[u] = "pooled", Remove(u), venue' = venue,
         NEW st \in {"closed", "inUse"}, state' = [state EXCEPT ![u] = st],
         NEW v \in Venue, v # venue[u], NEW q, Lists(q, v)
  PROVE  Lists(q, v)'
<1> USE DEF PoolInv
<1>1. PooledAt(v)' = PooledAt(v) /\ newest'[v] = newest[v]
  BY DEF TypeOK, PooledAt, Pooled, Remove
<1>2. newer[u] # NoConn => newer[u] \in PooledAt(venue[u])
  BY DEF Chained
<1>3. \A i \in DOMAIN q : q[i] \in PooledAt(v) /\ DOMAIN q = 1..Len(q)
  BY DEF Lists
<1>4. \A i \in DOMAIN q : q[i] \in Conn /\ q[i] # u /\ q[i] # newer[u]
  BY <1>2, <1>3, PoolConstants DEF PooledAt, Pooled
<1>5. \A i \in DOMAIN q : older'[q[i]] = older[q[i]]
  BY <1>4 DEF Remove
<1>6. Follows(q, newest'[v], older')
  BY <1>1, <1>5 DEF Lists, Follows
<1> QED BY <1>1, <1>6 DEF Lists

\* release(u) puts u in front of its venue's sequence and leaves the others.
LEMMA PushGrows ==
  ASSUME PoolInv, NEW u \in Conn, state[u] = "inUse", PushNewest(u), venue' = venue,
         state' = [state EXCEPT ![u] = "pooled"],
         NEW v \in Venue, NEW q, Lists(q, v)
  PROVE  Lists(IF v = venue[u] THEN <<u>> \o q ELSE q, v)'
<1> USE DEF PoolInv
<1>0. q \in Seq(Conn) /\ Len(q) \in Nat /\ DOMAIN q = 1..Len(q)
  BY DEF Lists
<1>1. PooledAt(v)' = IF v = venue[u] THEN PooledAt(v) \cup {u} ELSE PooledAt(v)
  BY DEF TypeOK, PooledAt, Pooled
<1>2. \A i \in 1..Len(q) : q[i] \in PooledAt(v) /\ q[i] \in Conn /\ q[i] # u
  BY DEF Lists, PooledAt, Pooled
<1>3. \A i \in 1..Len(q) : older'[q[i]] = older[q[i]]
  BY <1>2 DEF PushNewest, TypeOK
<1>4. CASE v # venue[u]
  <2>1. newest'[v] = newest[v]
    BY <1>4 DEF PushNewest, TypeOK
  <2>2. Follows(q, newest'[v], older')
    BY <2>1, <1>0, <1>3 DEF Lists, Follows
  <2>3. Lists(q, v)'
    BY <1>4, <1>1, <2>2 DEF Lists
  <2> QED BY <2>3, <1>4
<1>5. CASE v = venue[u]
  <2> DEFINE r == <<u>> \o q
  <2>1. /\ r \in Seq(Conn) /\ Len(r) = Len(q) + 1 /\ DOMAIN r = 1..Len(r)
        /\ r[1] = u /\ \A i \in 1..Len(q) : r[i + 1] = q[i]
    <3>1. /\ <<u>> \in Seq(Conn) /\ Len(<<u>>) = 1 /\ <<u>>[1] = u
      OBVIOUS
    <3>2. /\ r \in Seq(Conn) /\ Len(r) = 1 + Len(q)
          /\ \A i \in 1..(1 + Len(q)) : r[i] = IF i <= 1 THEN <<u>>[i] ELSE q[i - 1]
      BY <3>1, <1>0, ConcatProperties
    <3>3. r[1] = u
      BY <3>1, <3>2, <1>0
    <3>4. ASSUME NEW i \in 1..Len(q) PROVE r[i + 1] = q[i]
      <4>1. i + 1 \in 1..(1 + Len(q)) /\ ~(i + 1 <= 1) /\ (i + 1) - 1 = i
        BY <1>0
      <4> QED BY <4>1, <3>2
    <3> QED BY <3>2, <3>3, <3>4, <1>0
  <2> HIDE DEF r
  <2>2. newest'[v] = u /\ older'[u] = newest[v]
    BY <1>5 DEF PushNewest, TypeOK
  <2>3. newest[v] = At(q, 1) /\ \A i \in 1..Len(q) : older[q[i]] = At(q, i + 1)
    BY <1>0 DEF Lists, Follows
  <2>4. \A i \in 1..Len(r) : i = 1 \/ (i - 1 \in 1..Len(q) /\ r[i] = q[i - 1])
    <3> SUFFICES ASSUME NEW i \in 1..Len(r), i # 1
                 PROVE  i - 1 \in 1..Len(q) /\ r[i] = q[i - 1]
      OBVIOUS
    <3>1. i - 1 \in 1..Len(q) /\ (i - 1) + 1 = i
      BY <2>1, <1>0
    <3> QED BY <3>1, <2>1
  <2>5. ASSUME NEW i \in 1..(Len(q) + 1) PROVE At(r, i + 1) = At(q, i)
    <3>1. CASE i \in 1..Len(q)
      <4>1. i + 1 \in 1..Len(r)
        BY <3>1, <2>1, <1>0
      <4> QED BY <3>1, <4>1, <2>1, <1>0 DEF At
    <3>2. CASE i \notin 1..Len(q)
      <4>1. i + 1 \notin 1..Len(r)
        BY <3>2, <2>1, <1>0
      <4> QED BY <3>2, <4>1, <2>1, <1>0 DEF At
    <3> QED BY <3>1, <3>2
  <2>6. ASSUME NEW i \in 1..Len(r) PROVE older'[r[i]] = At(r, i + 1)
    <3>0. i \in 1..(Len(q) + 1)
      BY <2>1
    <3>1. CASE i = 1
      BY <3>0, <3>1, <2>1, <2>2, <2>3, <2>5
    <3>2. CASE i # 1
      <4>1. i - 1 \in 1..Len(q) /\ r[i] = q[i - 1] /\ (i - 1) + 1 = i
        BY <3>2, <2>4, <1>0
      <4>2. older'[r[i]] = At(q, i)
        BY <4>1, <2>3, <1>3
      <4> QED BY <4>2, <3>0, <2>5
    <3> QED BY <3>1, <3>2
  <2>7. Follows(r, newest'[v], older')
    <3>1. 1 \in DOMAIN r
      BY <2>1, <1>0
    <3> QED BY <3>1, <2>1, <2>2, <2>6 DEF Follows, At
  <2>8. \A i \in 1..Len(r) : r[i] \in PooledAt(v)'
    BY <2>1, <2>4, <1>1, <1>2, <1>5
  <2>9. ASSUME NEW w \in PooledAt(v)' PROVE \E i \in 1..Len(r) : r[i] = w
    <3>1. CASE w = u
      <4>1. 1 \in 1..Len(r)
        BY <2>1, <1>0
      <4> QED BY <3>1, <4>1, <2>1
    <3>2. CASE w # u
      <4>1. PICK j \in 1..Len(q) : q[j] = w
        BY <3>2, <1>1, <1>5 DEF Lists
      <4>2. j + 1 \in 1..Len(r)
        BY <2>1, <1>0
      <4> QED BY <4>1, <4>2, <2>1
    <3> QED BY <3>1, <3>2
  <2>10. ASSUME NEW i \in 1..Len(r), NEW j \in 1..Len(r), r[i] = r[j] PROVE i = j
    <3>0. i \in Nat /\ j \in Nat
      BY <2>1, <1>0
    <3>1. CASE i = 1 \/ j = 1
      BY <3>1, <2>1, <2>4, <2>10, <1>2
    <3>2. CASE i # 1 /\ j # 1
      <4>1. i - 1 = j - 1
        BY <3>2, <2>4, <2>10 DEF Lists
      <4> QED BY <4>1, <3>0
    <3> QED BY <3>1, <3>2
  <2>11. Lists(r, v)'
    BY <2>1, <2>7, <2>8, <2>9, <2>10 DEF Lists
  <2> QED BY <2>11, <1>5 DEF r
<1> QED BY <1>4, <1>5

\* Nothing in the links moves.
LEMMA SameLists ==
  ASSUME UNCHANGED <<newest, older>>, NEW v, PooledAt(v)' = PooledAt(v), NEW q, Lists(q, v)
  PROVE  Lists(q, v)'
BY DEF Lists

-----------------------------------------------------------------------------
(* The steps of the stacks.                                                *)

\* for_each meets exactly the venue's pooled connections.
LEMMA WalkLists ==
  ASSUME Listed, NEW v \in Venue
  PROVE  Lists(Walk(v), v) /\ Stacks!Idle(v) = PooledAt(v)
<1>1. PICK q : Lists(q, v)
  BY DEF Listed
<1>2. Lists(Walk(v), v)
  BY <1>1, WalkOf
<1>3. {Walk(v)[i] : i \in DOMAIN Walk(v)} = PooledAt(v)
  BY <1>2 DEF Lists
<1> QED BY <1>2, <1>3 DEF Stacks!Idle

\* The number of idle connections is the count the pool compares with its cap.
LEMMA TotalIsCount ==
  ASSUME PoolInv, Listed
  PROVE  Stacks!Total = count
<1>1. {u \in Conn : \E v \in Venue : u \in Stacks!Idle(v)} = Pooled
  BY WalkLists DEF PoolInv, TypeOK, PooledAt, Pooled
<1>2. Stacks!Total = Cardinality({u \in Conn : \E v \in Venue : u \in Stacks!Idle(v)})
  BY DEF Stacks!Total, Stacks!Cardinality, Cardinality
<1>3. count = Cardinality(Pooled)
  BY DEF PoolInv, CountSound
<1> QED BY <1>1, <1>2, <1>3

\* Unlinking u takes one place out of one stack.
LEMMA RemoveStep ==
  ASSUME PoolInv, Listed, NEW u \in Conn, state[u] = "pooled", Remove(u), venue' = venue,
         NEW st \in {"closed", "inUse"}, state' = [state EXCEPT ![u] = st],
         NEW v \in Venue, v = venue[u], NEW k \in 1..Len(Walk(v)), Walk(v)[k] = u,
         NEW r, IsWithout(r, Walk(v), k)
  PROVE  /\ Listed'
         /\ [w \in Venue |-> Walk(w)]' = [[w \in Venue |-> Walk(w)] EXCEPT ![v] = r]
<1>1. Lists(r, v)'
  <2>1. PICK q : q = Walk(v)
    OBVIOUS
  <2>2. Lists(q, venue[u]) /\ k \in 1..Len(q) /\ q[k] = u /\ IsWithout(r, q, k)
    BY <2>1, WalkLists
  <2> QED BY <2>2, RemoveCuts
<1>2. ASSUME NEW w \in Venue, w # v PROVE Lists(Walk(w), w)'
  <2>1. PICK q : q = Walk(w) /\ Lists(q, w)
    BY WalkLists
  <2>2. Lists(q, w)'
    BY <1>2, <2>1, RemoveKeeps
  <2>3. Walk(w)' = q
    BY <2>2, WalkOfPrime
  <2> QED BY <2>2, <2>3
<1>3. \A w \in Venue : Walk(w)' = IF w = v THEN r ELSE Walk(w)
  <2> SUFFICES ASSUME NEW w \in Venue
               PROVE  Walk(w)' = IF w = v THEN r ELSE Walk(w)
    OBVIOUS
  <2>1. CASE w = v
    BY <2>1, <1>1, WalkOfPrime
  <2>2. CASE w # v
    <3>1. PICK q : q = Walk(w) /\ Lists(q, w)
      BY WalkLists
    <3>2. Lists(q, w)'
      BY <2>2, <3>1, RemoveKeeps
    <3> QED BY <2>2, <3>1, <3>2, WalkOfPrime
  <2> QED BY <2>1, <2>2
<1>4. Listed'
  <2> SUFFICES ASSUME NEW w \in Venue PROVE \E q : Lists(q, w)'
    BY DEF Listed
  <2> QED BY <1>1, <1>2
<1> QED BY <1>3, <1>4

\* Where no venue's pooled set and no link moves, neither does a stack.
LEMMA SameStep ==
  ASSUME Listed, UNCHANGED <<newest, older>>, \A v \in Venue : PooledAt(v)' = PooledAt(v)
  PROVE  Listed' /\ [w \in Venue |-> Walk(w)]' = [w \in Venue |-> Walk(w)]
<1>1. \A w \in Venue : Walk(w)' = Walk(w)
  BY DEF Walk
<1>2. Listed'
  <2> SUFFICES ASSUME NEW w \in Venue PROVE \E q : Lists(q, w)'
    BY DEF Listed
  <2>1. Lists(Walk(w), w)
    BY WalkLists
  <2>2. PICK q : Lists(q, w)
    BY <2>1
  <2> QED BY <2>2, SameLists
<1> QED BY <1>1, <1>2

\* A close is an eviction from the stack or the loss of a connection in use.
LEMMA CloseStep ==
  ASSUME PoolInv, Listed, NEW u \in Conn, CloseConn(u), venue' = venue, state[u] # "closed"
  PROVE  Listed' /\ Stacks!Next
<1>0. /\ state' = [state EXCEPT ![u] = "closed"] /\ venue[u] \in Venue
      /\ state[u] \in {"closed", "inUse", "pooled"} /\ "closed" \in {"closed", "inUse"}
  BY DEF CloseConn, PoolInv, TypeOK
<1>1. CASE state[u] = "pooled"
  <2>0. PICK v \in Venue : v = venue[u]
    BY <1>0
  <2>1. Lists(Walk(v), v) /\ u \in PooledAt(v)
    BY <2>0, <1>1, WalkLists DEF PooledAt, Pooled
  <2>2. PICK k \in 1..Len(Walk(v)) : Walk(v)[k] = u
    BY <2>1 DEF Lists
  <2>3. PICK r : r = SubSeq(Walk(v), 1, k - 1) \o SubSeq(Walk(v), k + 1, Len(Walk(v)))
    OBVIOUS
  <2>4. Walk(v) \in Seq(Conn)
    BY <2>1 DEF Lists
  <2>5. IsWithout(r, Walk(v), k)
    BY <2>3, <2>4, CutIsWithout
  <2>6. Remove(u)
    BY <1>1 DEF CloseConn
  <2>7. Listed' /\ [w \in Venue |-> Walk(w)]' = [[w \in Venue |-> Walk(w)] EXCEPT ![v] = r]
    BY <2>0, <2>2, <2>5, <2>6, <1>0, <1>1, RemoveStep
  <2>8. InUse' = InUse
    BY <1>0, <1>1 DEF InUse, PoolInv, TypeOK
  <2>9. k \in DOMAIN Walk(v)
    BY <2>4
  <2>10. Stacks!Evict(v, k)
    BY <2>3, <2>7, <2>8, <2>9 DEF Stacks!Evict
  <2> QED BY <2>7, <2>9, <2>10 DEF Stacks!Next
<1>2. CASE state[u] = "inUse"
  <2>1. UNCHANGED <<newest, older>>
    BY <1>2 DEF CloseConn, links
  <2>2. \A v \in Venue : PooledAt(v)' = PooledAt(v)
    BY <1>0, <1>2 DEF PooledAt, Pooled, PoolInv, TypeOK
  <2>3. Listed' /\ [w \in Venue |-> Walk(w)]' = [w \in Venue |-> Walk(w)]
    BY <2>1, <2>2, SameStep
  <2>4. InUse' = InUse \ {u} /\ u \in InUse
    BY <1>0, <1>2 DEF InUse, PoolInv, TypeOK
  <2>5. Stacks!Hangup(u)
    BY <2>3, <2>4 DEF Stacks!Hangup
  <2> QED BY <2>3, <2>5 DEF Stacks!Next
<1> QED BY <1>0, <1>1, <1>2

\* acquire() pops the venue's stack.
LEMMA AcquireStep ==
  ASSUME PoolInv, Listed, NEW v \in Venue, Acquire(v)
  PROVE  Listed' /\ Stacks!Next
<1>0. PICK u : u = newest[v]
  OBVIOUS
<1>1. /\ u \in Conn /\ state[u] = "pooled" /\ u # NoConn /\ v = venue[u] /\ Remove(u)
      /\ venue' = venue /\ state' = [state EXCEPT ![u] = "inUse"]
  BY <1>0 DEF Acquire, PoolInv, Ends, PooledAt, Pooled
<1>2. PICK q : q = Walk(v) /\ Lists(q, v)
  BY WalkLists
<1>3. q \in Seq(Conn) /\ q # <<>> /\ q[1] = u
  BY <1>0, <1>1, <1>2 DEF Lists, Follows, At
<1>4. IsWithout(Tail(q), q, 1) /\ Head(q) = u /\ 1 \in 1..Len(q)
  BY <1>3, TailIsWithout
<1>5. Listed' /\ [w \in Venue |-> Walk(w)]' = [[w \in Venue |-> Walk(w)] EXCEPT ![v] = Tail(q)]
  <2>1. 1 \in 1..Len(Walk(v)) /\ Walk(v)[1] = u /\ IsWithout(Tail(q), Walk(v), 1)
    BY <1>2, <1>3, <1>4
  <2>2. "inUse" \in {"closed", "inUse"}
    OBVIOUS
  <2> QED BY <2>1, <2>2, <1>1, RemoveStep
<1>6. InUse' = InUse \cup {u}
  BY <1>1 DEF InUse, PoolInv, TypeOK
<1>7. Stacks!Pop(v)
  BY <1>2, <1>3, <1>4, <1>5, <1>6 DEF Stacks!Pop
<1> QED BY <1>5, <1>7 DEF Stacks!Next

\* release() pushes, if there is room, or hangs up.
LEMMA ReleaseStep ==
  ASSUME PoolInv, Listed, NEW u \in Conn, NEW keepAlive \in BOOLEAN, NEW bodyEnded \in BOOLEAN,
         Release(u, keepAlive, bodyEnded)
  PROVE  Listed' /\ Stacks!Next
<1>0. state[u] = "inUse" /\ venue' = venue /\ venue[u] \in Venue
  BY DEF Release, PoolInv, TypeOK
<1>1. CASE Refusal(u, keepAlive, bodyEnded) # "None"
  <2>1. CloseConn(u)
    BY <1>1 DEF Release
  <2> QED BY <2>1, <1>0, CloseStep
<1>2. CASE Refusal(u, keepAlive, bodyEnded) = "None"
  <2>0. ~(count >= Cap)
    BY <1>2, <1>0 DEF Refusal
  <2>1. PushNewest(u) /\ state' = [state EXCEPT ![u] = "pooled"]
    BY <1>2 DEF Release
  <2>2. ASSUME NEW w \in Venue
        PROVE  LET r == IF w = venue[u] THEN <<u>> \o Walk(w) ELSE Walk(w)
               IN  Walk(w)' = r /\ \E q : Lists(q, w)'
    <3>1. PICK q : q = Walk(w) /\ Lists(q, w)
      BY WalkLists
    <3>2. PICK r : r = IF w = venue[u] THEN <<u>> \o q ELSE q
      OBVIOUS
    <3>3. Lists(r, w)'
      BY <3>1, <3>2, <1>0, <2>1, PushGrows
    <3> QED BY <3>1, <3>2, <3>3, WalkOfPrime
  <2>3. Listed'
    BY <2>2 DEF Listed
  <2>4. [w \in Venue |-> Walk(w)]'
          = [[w \in Venue |-> Walk(w)] EXCEPT ![venue[u]] = <<u>> \o Walk(venue[u])]
    BY <2>2, <1>0
  <2>5. InUse' = InUse \ {u} /\ u \in InUse
    BY <1>0, <2>1 DEF InUse, PoolInv, TypeOK
  <2>6. Stacks!Total < Cap
    BY <2>0, TotalIsCount, PoolConstants DEF PoolInv, TypeOK
  <2>7. Stacks!Push(u, venue[u])
    BY <2>4, <2>5, <2>6, <1>0 DEF Stacks!Push
  <2> QED BY <2>3, <2>7, <1>0 DEF Stacks!Next
<1> QED BY <1>1, <1>2

\* Every step of the pool is a step of the stacks, or leaves them alone.
LEMMA StepsAreStackSteps ==
  ASSUME PoolInv, Listed, [Next]_vars
  PROVE  Listed' /\ [Stacks!Next]_<<[v \in Venue |-> Walk(v)], InUse>>
<1>t. TypeOK
  BY DEF PoolInv
<1>1. ASSUME NEW u \in Conn, NEW x \in Venue, Open(u, x) PROVE Listed' /\ Stacks!Next
  <2>1. /\ state[u] = "closed" /\ state' = [state EXCEPT ![u] = "inUse"]
        /\ UNCHANGED <<newest, older>> /\ venue' = [venue EXCEPT ![u] = x]
    BY <1>1 DEF Open, links
  <2>2. \A v \in Venue : PooledAt(v)' = PooledAt(v)
    BY <2>1, <1>t DEF PooledAt, Pooled, TypeOK
  <2>3. Listed' /\ [w \in Venue |-> Walk(w)]' = [w \in Venue |-> Walk(w)]
    BY <2>1, <2>2, SameStep
  <2>4. InUse' = InUse \cup {u} /\ u \notin InUse
    BY <2>1, <1>t DEF InUse, TypeOK
  <2>5. \A v \in Venue : u \notin Stacks!Idle(v)
    BY <2>1, WalkLists DEF PooledAt, Pooled
  <2>6. Stacks!Dial(u)
    BY <2>3, <2>4, <2>5 DEF Stacks!Dial
  <2> QED BY <2>3, <2>6 DEF Stacks!Next
<1>2. ASSUME UNCHANGED <<newest, older, state, venue>>
      PROVE  Listed' /\ UNCHANGED <<[v \in Venue |-> Walk(v)], InUse>>
  <2>1. \A v \in Venue : PooledAt(v)' = PooledAt(v)
    BY <1>2 DEF PooledAt, Pooled
  <2>2. InUse' = InUse
    BY <1>2 DEF InUse
  <2> QED BY <1>2, <2>1, <2>2, SameStep
<1>3. ASSUME NEW u \in Conn, CloseConn(u), venue' = venue, state[u] # "closed"
      PROVE  Listed' /\ Stacks!Next
  BY <1>3, CloseStep
<1>4. ASSUME NEW u \in Conn,
             RequestSent(u) \/ VenueBytes(u) \/ ConsumeResponse(u) \/ VenueEof(u) \/ Close(u)
      PROVE  \/ UNCHANGED <<newest, older, state, venue>>
             \/ CloseConn(u) /\ venue' = venue /\ state[u] # "closed"
  BY <1>4 DEF RequestSent, VenueBytes, ConsumeResponse, VenueEof, Close, links
<1>5. ASSUME NEW u \in Conn, NEW k \in BOOLEAN, NEW b \in BOOLEAN, Release(u, k, b)
      PROVE  Listed' /\ Stacks!Next
  BY <1>5, ReleaseStep
<1>6. ASSUME NEW v \in Venue, Acquire(v) PROVE Listed' /\ Stacks!Next
  BY <1>6, AcquireStep
<1>7. ASSUME NEW v \in Venue, ReapOne(v) PROVE Listed' /\ Stacks!Next
  <2>1. oldest[v] \in Conn /\ state[oldest[v]] # "closed"
    BY <1>7 DEF ReapOne, Expired, PoolInv, Ends, PooledAt, Pooled
  <2>2. CloseConn(oldest[v]) /\ venue' = venue
    BY <1>7 DEF ReapOne
  <2> QED BY <2>1, <2>2, <1>3
<1>8. CASE ReapBegin \/ ReapEnd \/ Tick \/ UNCHANGED vars
  <2>1. UNCHANGED <<newest, older, state, venue>>
    BY <1>8 DEF ReapBegin, ReapEnd, Tick, vars
  <2> QED BY <2>1, <1>2
<1> QED BY <1>1, <1>2, <1>3, <1>4, <1>5, <1>6, <1>7, <1>8 DEF Next

\* At first every venue's list is the empty sequence.
LEMMA InitStacks ==
  ASSUME Init
  PROVE  Listed /\ Stacks!Init
<1>1. ASSUME NEW v \in Venue PROVE Lists(<<>>, v)
  <2>1. newest[v] = NoConn /\ PooledAt(v) = {}
    BY DEF Init, PooledAt, Pooled
  <2> QED BY <2>1 DEF Lists, Follows, At
<1>2. \A v \in Venue : Walk(v) = <<>>
  BY <1>1, WalkOf
<1>3. InUse = {}
  BY DEF Init, InUse
<1>4. Stacks!Init
  BY <1>2, <1>3 DEF Stacks!Init
<1> QED BY <1>1, <1>4 DEF Listed

\* Every behaviour of the pool is one of the abstract stacks: acquire pops the
\* newest, release pushes while the total is under the cap, and a close or a
\* reap takes one connection out wherever it lies, leaving the order of the
\* others as it was.
THEOREM PoolImplementsStacks == Spec => RefinesStacks
<1>1. Init => Listed /\ Stacks!Init
  BY InitStacks
<1>2. PoolInv /\ Listed /\ [Next]_vars
        => Listed' /\ [Stacks!Next]_<<[v \in Venue |-> Walk(v)], InUse>>
  BY StepsAreStackSteps
<1> QED BY <1>1, <1>2, PoolInvariant, PTL DEF Spec, RefinesStacks, Stacks!Spec
=============================================================================
