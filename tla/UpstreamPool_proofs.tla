------------------------- MODULE UpstreamPool_proofs -------------------------
(***************************************************************************)
(* Proofs about the upstream pool, for any number of connections and       *)
(* venues and any capacity.                                                *)
(***************************************************************************)
EXTENDS UpstreamPool, TLAPS, FiniteSetTheorems

\* What every step preserves.
PoolInv == TypeOK /\ Chained /\ Ends /\ Ranked /\ AgeOrdered /\ CountSound /\ PoolClean

-----------------------------------------------------------------------------
(* Unlinking and linking one connection.                                   *)

\* remove() keeps the links sound whatever the position of u in its list.
LEMMA RemoveChains ==
  ASSUME TypeOK, Chained, Ends,
         NEW u \in Conn, state[u] = "pooled",
         Remove(u), venue' = venue,
         NEW st \in {"closed", "inUse"}, state' = [state EXCEPT ![u] = st]
  PROVE  Chained'
<1>a. \A w \in Conn : w # u => venue'[w] = venue[w] /\ state'[w] = state[w]
  BY DEF TypeOK
<1>b. \A w \in Conn : PooledAt(venue[w])' = PooledAt(venue[w]) \ {u}
  BY DEF TypeOK, PooledAt, Pooled
<1>2. SUFFICES ASSUME NEW w \in Conn
               PROVE  IF state'[w] = "pooled"
    THEN /\ w \notin elder'[w]
         /\ elder'[w] \subseteq PooledAt(venue[w])'
         /\ IF older'[w] = NoConn
            THEN elder'[w] = {} /\ oldest'[venue[w]] = w
            ELSE elder'[w] = {older'[w]} \cup elder'[older'[w]] /\ newer'[older'[w]] = w
         /\ IF newer'[w] = NoConn
            THEN newest'[venue[w]] = w
            ELSE newer'[w] \in PooledAt(venue[w])' /\ older'[newer'[w]] = w
    ELSE newer'[w] = NoConn /\ older'[w] = NoConn /\ elder'[w] = {}
  BY DEF Chained
<1>3. CASE w = u
  BY <1>3 DEF TypeOK, Remove
<1>4. CASE w # u /\ state[w] # "pooled"
  <2>1. newer[w] = NoConn /\ older[w] = NoConn /\ elder[w] = {}
    BY <1>4 DEF Chained
  <2>2. w # newer[u] /\ w # older[u]
    BY <1>4, PoolConstants DEF Chained, TypeOK, PooledAt, Pooled
  <2> QED
    BY <1>4, <1>a, <2>1, <2>2 DEF Remove
<1>5. CASE w # u /\ state[w] = "pooled"
  <2>0. state'[w] = "pooled" /\ elder'[w] = elder[w] \ {u}
    BY <1>5, <1>a DEF Remove
  <2>1. w \notin elder'[w] /\ elder'[w] \subseteq PooledAt(venue[w])'
    BY <1>5, <1>b, <2>0 DEF Chained
  <2>2. IF older'[w] = NoConn
        THEN elder'[w] = {} /\ oldest'[venue[w]] = w
        ELSE elder'[w] = {older'[w]} \cup elder'[older'[w]] /\ newer'[older'[w]] = w
    <3>1. CASE w = newer[u]
      <4>1. older[w] = u /\ venue[w] = venue[u]
        BY <3>1, <1>5, PoolConstants DEF Chained, PooledAt
      <4>2. elder[w] = {u} \cup elder[u] /\ u \notin elder[u]
        BY <4>1, <1>5, PoolConstants DEF Chained
      <4>3. elder'[w] = elder[u] /\ older'[w] = older[u]
        BY <4>2, <2>0, <3>1, <1>5 DEF Remove
      <4>4. CASE older[u] = NoConn
        BY <4>1, <4>3, <4>4, <3>1 DEF Chained, Remove, TypeOK
      <4>5. CASE older[u] # NoConn
        <5>1. older[u] \in Conn /\ older[u] # u /\ elder[u] = {older[u]} \cup elder[older[u]]
          BY <4>5, <4>2 DEF Chained, TypeOK
        <5>2. elder'[older[u]] = elder[older[u]]
          BY <5>1, <4>2 DEF Remove
        <5>3. newer'[older[u]] = w
          BY <5>1, <3>1 DEF Remove
        <5> QED BY <4>3, <4>5, <5>1, <5>2, <5>3
      <4> QED BY <4>4, <4>5
    <3>2. CASE w # newer[u]
      <4>1. older'[w] = older[w]
        BY <3>2, <1>5 DEF Remove
      <4>2. older[w] # u
        BY <3>2, <1>5, PoolConstants DEF Chained
      <4>3. CASE older[w] = NoConn
        <5>1. elder[w] = {} /\ oldest[venue[w]] = w
          BY <4>3, <1>5 DEF Chained
        <5>2. older[u] = NoConn => venue[u] # venue[w]
          BY <5>1, <1>5 DEF Chained
        <5> QED BY <4>1, <4>3, <5>1, <5>2, <2>0 DEF Remove, TypeOK
      <4>4. CASE older[w] # NoConn
        <5>1. /\ older[w] \in Conn
              /\ elder[w] = {older[w]} \cup elder[older[w]] /\ newer[older[w]] = w
          BY <4>4, <1>5 DEF Chained, TypeOK
        <5>2. older[w] # older[u]
          BY <5>1, <1>5, <4>4 DEF Chained
        <5>3. elder'[older[w]] = elder[older[w]] \ {u} /\ newer'[older[w]] = w
          BY <5>1, <5>2, <4>2 DEF Remove
        <5> QED BY <4>1, <4>2, <4>4, <5>1, <5>3, <2>0
      <4> QED BY <4>3, <4>4
    <3> QED BY <3>1, <3>2
  <2>3. IF newer'[w] = NoConn
        THEN newest'[venue[w]] = w
        ELSE newer'[w] \in PooledAt(venue[w])' /\ older'[newer'[w]] = w
    <3>1. CASE w = older[u]
      <4>1. newer[w] = u /\ w \in PooledAt(venue[u])
        BY <3>1, <1>5, PoolConstants DEF Chained
      <4>2. newer'[w] = newer[u]
        BY <3>1, <1>5 DEF Remove
      <4>3. CASE newer[u] = NoConn
        BY <4>1, <4>2, <4>3, <3>1 DEF Remove, PooledAt, TypeOK
      <4>4. CASE newer[u] # NoConn
        <5>1. newer[u] \in PooledAt(venue[u]) /\ older[newer[u]] = u
          BY <4>4 DEF Chained
        <5>2. newer[u] # u
          BY <5>1, PoolConstants DEF Chained
        <5>3. newer[u] \in Conn
          BY <5>1 DEF PooledAt, Pooled
        <5>4. older'[newer[u]] = older[u]
          BY <5>2, <5>3 DEF Remove
        <5> QED BY <4>1, <4>2, <4>4, <5>1, <5>2, <5>4, <3>1, <1>b DEF PooledAt
      <4> QED BY <4>3, <4>4
    <3>2. CASE w # older[u]
      <4>1. newer'[w] = newer[w]
        BY <3>2, <1>5 DEF Remove
      <4>2. newer[w] # u
        BY <3>2, <1>5, PoolConstants DEF Chained
      <4>3. CASE newer[w] = NoConn
        <5>1. newest[venue[w]] = w
          BY <4>3, <1>5 DEF Chained
        <5>2. newer[u] = NoConn => venue[u] # venue[w]
          BY <5>1, <1>5 DEF Chained
        <5> QED BY <4>1, <4>3, <5>1, <5>2 DEF Remove, TypeOK
      <4>4. CASE newer[w] # NoConn
        <5>1. newer[w] \in PooledAt(venue[w]) /\ older[newer[w]] = w /\ newer[w] \in Conn
          BY <4>4, <1>5 DEF Chained, PooledAt, Pooled
        <5>2. newer[w] # newer[u]
          BY <5>1, <4>4, <1>5 DEF Chained
        <5>3. older'[newer[w]] = w
          BY <5>1, <5>2, <4>2 DEF Remove
        <5> QED BY <4>1, <4>2, <4>4, <5>1, <5>3, <1>b
      <4> QED BY <4>3, <4>4
    <3> QED BY <3>1, <3>2
  <2> QED BY <2>0, <2>1, <2>2, <2>3
<1> QED BY <1>3, <1>4, <1>5

\* remove() keeps both ends of every list pointing at its ends.
LEMMA RemoveEnds ==
  ASSUME TypeOK, Chained, Ends,
         NEW u \in Conn, state[u] = "pooled",
         Remove(u), venue' = venue,
         NEW st \in {"closed", "inUse"}, state' = [state EXCEPT ![u] = st]
  PROVE  Ends'
<1>1. SUFFICES ASSUME NEW v \in Venue
               PROVE  /\ newest'[v] # NoConn => /\ newest'[v] \in PooledAt(v)'
                             /\ newer'[newest'[v]] = NoConn
                             /\ PooledAt(v)' = {newest'[v]} \cup elder'[newest'[v]]
                      /\ oldest'[v] # NoConn => /\ oldest'[v] \in PooledAt(v)'
                             /\ older'[oldest'[v]] = NoConn
                      /\ newest'[v] = NoConn => PooledAt(v)' = {}
                      /\ oldest'[v] = NoConn => PooledAt(v)' = {}
  BY DEF Ends
<1>2. PooledAt(v)' = PooledAt(v) \ {u}
  BY DEF TypeOK, PooledAt, Pooled
<1>u. /\ u \notin elder[u] /\ elder[u] \subseteq PooledAt(venue[u])
      /\ u \in PooledAt(venue[u]) /\ venue[u] \in Venue
  BY DEF TypeOK, Chained, PooledAt, Pooled
<1>3. CASE v # venue[u]
  <2>1. newest'[v] = newest[v] /\ oldest'[v] = oldest[v] /\ PooledAt(v)' = PooledAt(v)
    BY <1>3, <1>2 DEF Remove, TypeOK, PooledAt
  <2>2. \A w \in PooledAt(v) : w # u /\ w # newer[u] /\ w # older[u]
    <3> SUFFICES ASSUME NEW w \in PooledAt(v)
                 PROVE  w # u /\ w # newer[u] /\ w # older[u]
      OBVIOUS
    <3>1. w \in Conn /\ venue[w] = v
      BY DEF PooledAt, Pooled
    <3>2. newer[u] # NoConn => newer[u] \in PooledAt(venue[u])
      BY DEF Chained
    <3>3. older[u] # NoConn => older[u] \in PooledAt(venue[u])
      BY DEF Chained
    <3> QED BY <3>1, <3>2, <3>3, <1>3, PoolConstants DEF PooledAt
  <2>3. \A w \in PooledAt(v) : w \in Conn /\ newer'[w] = newer[w]
                               /\ older'[w] = older[w] /\ elder'[w] = elder[w] \ {u}
    BY <2>2 DEF PooledAt, Pooled, Remove
  <2> QED BY <2>1, <2>2, <2>3 DEF Ends
<1>4. CASE v = venue[u]
  <2>1. CASE newer[u] = NoConn
    <3>1. newest[v] = u /\ newest'[v] = older[u]
      BY <2>1, <1>4, <1>u DEF Chained, Remove, TypeOK
    <3>2. PooledAt(v)' = elder[u]
      BY <3>1, <1>2, <1>u, PoolConstants DEF Ends
    <3>3. CASE older[u] = NoConn
      BY <3>1, <3>2, <3>3, <2>1, <1>4 DEF Chained, Remove, TypeOK
    <3>4. CASE older[u] # NoConn
      <4>1. /\ older[u] \in Conn /\ older[u] # u
            /\ elder[u] = {older[u]} \cup elder[older[u]] /\ newer[older[u]] = u
        BY <3>4, <1>u DEF Chained, TypeOK
      <4>2. newer'[older[u]] = NoConn /\ elder'[older[u]] = elder[older[u]]
        BY <4>1, <2>1, <1>u DEF Remove
      <4>3. oldest'[v] = oldest[v] /\ oldest[v] # NoConn /\ oldest[v] \in PooledAt(v)
        BY <3>4, <1>4, <1>u DEF Remove, Ends
      <4>4. oldest[v] # u /\ older[oldest[v]] = NoConn
        BY <4>3, <3>4 DEF Ends
      <4>5. older'[oldest[v]] = NoConn
        BY <4>3, <4>4, <2>1, PoolConstants DEF Remove, PooledAt, Pooled
      <4> QED BY <3>1, <3>2, <3>4, <4>1, <4>2, <4>3, <4>4, <4>5, <1>2
    <3> QED BY <3>3, <3>4
  <2>2. CASE newer[u] # NoConn
    <3>1. newest'[v] = newest[v] /\ newest[v] # NoConn
      BY <2>2, <1>4, <1>u DEF Remove, Ends
    <3>2. /\ newest[v] \in PooledAt(v) /\ newest[v] # u /\ newest[v] \in Conn
          /\ newer[newest[v]] = NoConn /\ PooledAt(v) = {newest[v]} \cup elder[newest[v]]
      BY <3>1, <2>2 DEF Ends, PooledAt, Pooled
    <3>3. newest[v] # older[u]
      BY <3>2, PoolConstants DEF Chained
    <3>4. newer'[newest[v]] = NoConn /\ elder'[newest[v]] = elder[newest[v]] \ {u}
      BY <3>2, <3>3 DEF Remove
    <3>5. newer[u] \in PooledAt(v) /\ older[newer[u]] = u /\ newer[u] \in Conn
      BY <2>2, <1>4 DEF Chained, PooledAt, Pooled
    <3>6. newer[u] # u
      BY <3>5, PoolConstants DEF Chained
    <3>7. CASE older[u] = NoConn
      <4>1. oldest'[v] = newer[u] /\ older'[newer[u]] = NoConn
        BY <3>7, <3>5, <3>6, <1>4 DEF Remove, TypeOK
      <4> QED BY <3>1, <3>2, <3>4, <3>5, <3>6, <4>1, <1>2, <2>2
    <3>8. CASE older[u] # NoConn
      <4>1. oldest'[v] = oldest[v] /\ oldest[v] # NoConn /\ oldest[v] \in PooledAt(v)
        BY <3>8, <1>4, <1>u DEF Remove, Ends
      <4>2. oldest[v] # u /\ older[oldest[v]] = NoConn /\ oldest[v] \in Conn
        BY <4>1, <3>8 DEF Ends, PooledAt, Pooled
      <4>3. older'[oldest[v]] = NoConn
        BY <4>2, <3>5, PoolConstants DEF Remove
      <4> QED BY <3>1, <3>2, <3>4, <4>1, <4>2, <4>3, <1>2
    <3> QED BY <3>7, <3>8
  <2> QED BY <2>1, <2>2
<1> QED BY <1>3, <1>4

\* release() links u in front of its venue's list and disturbs nothing else.
LEMMA PushSound ==
  ASSUME TypeOK, Chained, Ends,
         NEW u \in Conn, state[u] = "inUse",
         PushNewest(u), venue' = venue,
         state' = [state EXCEPT ![u] = "pooled"]
  PROVE  Chained' /\ Ends'
<1>0. PICK x \in Conn \cup {NoConn} : x = newest[venue[u]]
  BY DEF TypeOK
<1>1. venue[u] \in Venue /\ u \notin Pooled
      /\ newer[u] = NoConn /\ older[u] = NoConn /\ elder[u] = {}
  BY DEF TypeOK, Chained, Pooled
<1>2. \A v \in Venue : PooledAt(v)' = IF v = venue[u] THEN PooledAt(v) \cup {u}
                                                   ELSE PooledAt(v)
  BY DEF TypeOK, PooledAt, Pooled
<1>3. /\ x # NoConn => x \in PooledAt(venue[u]) /\ newer[x] = NoConn /\ x \in Conn
                       /\ PooledAt(venue[u]) = {x} \cup elder[x]
      /\ x = NoConn => PooledAt(venue[u]) = {} /\ oldest[venue[u]] = NoConn
      /\ x # u
  BY <1>0, <1>1, PoolConstants DEF Ends, PooledAt, Pooled
<1>4. /\ older'[u] = x /\ newer'[u] = NoConn /\ elder'[u] = PooledAt(venue[u])
      /\ newest'[venue[u]] = u /\ state'[u] = "pooled"
      /\ x = NoConn => oldest'[venue[u]] = u
      /\ x # NoConn => oldest' = oldest /\ newer'[x] = u
  BY <1>0, <1>1, <1>3 DEF PushNewest, TypeOK
<1>5. \A w \in Conn : w # u => /\ older'[w] = older[w] /\ elder'[w] = elder[w]
                               /\ state'[w] = state[w]
                               /\ (w # x => newer'[w] = newer[w])
  BY <1>0 DEF PushNewest, TypeOK
<1>6. \A v \in Venue : v # venue[u] => newest'[v] = newest[v] /\ oldest'[v] = oldest[v]
  BY DEF PushNewest, TypeOK
<1>a. \A w \in Conn : PooledAt(venue[w])' = IF venue[w] = venue[u]
                                             THEN PooledAt(venue[w]) \cup {u}
                                             ELSE PooledAt(venue[w])
  BY DEF TypeOK, PooledAt, Pooled
<1>b. x # NoConn => venue[x] = venue[u] /\ state[x] = "pooled"
  BY <1>3 DEF PooledAt, Pooled
<1>7. Chained'
  <2> SUFFICES ASSUME NEW w \in Conn
               PROVE  IF state'[w] = "pooled"
    THEN /\ w \notin elder'[w]
         /\ elder'[w] \subseteq PooledAt(venue[w])'
         /\ IF older'[w] = NoConn
            THEN elder'[w] = {} /\ oldest'[venue[w]] = w
            ELSE elder'[w] = {older'[w]} \cup elder'[older'[w]] /\ newer'[older'[w]] = w
         /\ IF newer'[w] = NoConn
            THEN newest'[venue[w]] = w
            ELSE newer'[w] \in PooledAt(venue[w])' /\ older'[newer'[w]] = w
    ELSE newer'[w] = NoConn /\ older'[w] = NoConn /\ elder'[w] = {}
    BY DEF Chained
  <2>1. CASE w = u
    BY <2>1, <1>1, <1>a, <1>3, <1>4, <1>5 DEF PooledAt
  <2>2. CASE w # u /\ state[w] # "pooled"
    <3>1. w # x
      BY <2>2, <1>b, PoolConstants
    <3> QED BY <3>1, <2>2, <1>5 DEF Chained
  <2>3. CASE w # u /\ state[w] = "pooled"
    <3>1. w \notin elder[w] /\ elder[w] \subseteq PooledAt(venue[w]) /\ venue[w] \in Venue
      BY <2>3 DEF Chained, TypeOK
    <3>2. elder'[w] \subseteq PooledAt(venue[w])' /\ w \notin elder'[w]
      BY <3>1, <2>3, <1>a, <1>5
    <3>3. CASE older[w] = NoConn
      <4>1. elder[w] = {} /\ oldest[venue[w]] = w
        BY <3>3, <2>3 DEF Chained
      <4>2. oldest'[venue[w]] = w
        BY <4>1, <3>1, <1>3, <1>4, <1>6, PoolConstants
      <4>3. IF newer'[w] = NoConn
            THEN newest'[venue[w]] = w
            ELSE newer'[w] \in PooledAt(venue[w])' /\ older'[newer'[w]] = w
        <5>1. CASE w = x
          BY <5>1, <1>3, <1>4, <1>a, <1>b, <1>1, PoolConstants
        <5>2. CASE w # x /\ newer[w] = NoConn
          <6>1. newest[venue[w]] = w
            BY <5>2, <2>3 DEF Chained
          <6> QED BY <6>1, <5>2, <2>3, <3>1, <1>5, <1>6, <1>0
        <5>3. CASE w # x /\ newer[w] # NoConn
          <6>1. newer[w] \in PooledAt(venue[w]) /\ older[newer[w]] = w
            BY <5>3, <2>3 DEF Chained
          <6>2. newer[w] \in Conn /\ newer[w] # u
            BY <6>1, <1>1 DEF PooledAt, Pooled
          <6> QED BY <6>1, <6>2, <5>3, <2>3, <3>1, <1>5, <1>a
        <5> QED BY <5>1, <5>2, <5>3
      <4> QED BY <3>2, <3>3, <4>1, <4>2, <4>3, <2>3, <1>5
    <3>4. CASE older[w] # NoConn
      <4>1. /\ elder[w] = {older[w]} \cup elder[older[w]] /\ newer[older[w]] = w
            /\ older[w] \in Conn
        BY <3>4, <2>3 DEF Chained, TypeOK
      <4>2. older[w] # u /\ older[w] # x
        BY <4>1, <3>1, <1>1, <1>3, <3>4, PoolConstants DEF PooledAt
      <4>3. elder'[w] = {older'[w]} \cup elder'[older'[w]] /\ newer'[older'[w]] = w
        BY <4>1, <4>2, <2>3, <1>5
      <4>4. IF newer'[w] = NoConn
            THEN newest'[venue[w]] = w
            ELSE newer'[w] \in PooledAt(venue[w])' /\ older'[newer'[w]] = w
        <5>1. CASE w = x
          BY <5>1, <1>3, <1>4, <1>a, <1>b, <1>1, PoolConstants
        <5>2. CASE w # x /\ newer[w] = NoConn
          <6>1. newest[venue[w]] = w
            BY <5>2, <2>3 DEF Chained
          <6> QED BY <6>1, <5>2, <2>3, <3>1, <1>5, <1>6, <1>0
        <5>3. CASE w # x /\ newer[w] # NoConn
          <6>1. newer[w] \in PooledAt(venue[w]) /\ older[newer[w]] = w
            BY <5>3, <2>3 DEF Chained
          <6>2. newer[w] \in Conn /\ newer[w] # u
            BY <6>1, <1>1 DEF PooledAt, Pooled
          <6> QED BY <6>1, <6>2, <5>3, <2>3, <3>1, <1>5, <1>a
        <5> QED BY <5>1, <5>2, <5>3
      <4> QED BY <3>2, <3>4, <4>3, <4>4, <2>3, <1>5
    <3> QED BY <3>3, <3>4
  <2> QED BY <2>1, <2>2, <2>3
<1>8. Ends'
  <2> SUFFICES ASSUME NEW v \in Venue
               PROVE  /\ newest'[v] # NoConn => /\ newest'[v] \in PooledAt(v)'
                             /\ newer'[newest'[v]] = NoConn
                             /\ PooledAt(v)' = {newest'[v]} \cup elder'[newest'[v]]
                      /\ oldest'[v] # NoConn => /\ oldest'[v] \in PooledAt(v)'
                             /\ older'[oldest'[v]] = NoConn
                      /\ newest'[v] = NoConn => PooledAt(v)' = {}
                      /\ oldest'[v] = NoConn => PooledAt(v)' = {}
    BY DEF Ends
  <2>1. CASE v # venue[u]
    <3>1. \A w \in PooledAt(v) : w \in Conn /\ w # u /\ w # x
      BY <2>1, <1>1, <1>3, PoolConstants DEF PooledAt, Pooled
    <3> QED BY <3>1, <2>1, <1>2, <1>5, <1>6 DEF Ends
  <2>2. CASE v = venue[u]
    <3>1. CASE x = NoConn
      BY <3>1, <2>2, <1>2, <1>3, <1>4, PoolConstants
    <3>2. CASE x # NoConn
      <4>1. oldest[v] # NoConn /\ oldest[v] \in PooledAt(v) /\ older[oldest[v]] = NoConn
        BY <3>2, <2>2, <1>3 DEF Ends
      <4>2. oldest[v] \in Conn /\ oldest[v] # u
        BY <4>1, <1>1 DEF PooledAt, Pooled
      <4> QED BY <4>1, <4>2, <3>2, <2>2, <1>2, <1>4, <1>5, PoolConstants
    <3> QED BY <3>1, <3>2
  <2> QED BY <2>1, <2>2
<1> QED BY <1>7, <1>8

-----------------------------------------------------------------------------
(* Each way a connection changes state preserves the invariant.            *)

LEMMA PooledFinite == IsFiniteSet(Pooled) /\ IsFiniteSet(Pooled')
  BY PoolConstants, FS_Subset DEF Pooled

\* A pooled connection leaves the pool: handed out, or closed.
LEMMA LeaveInv ==
  ASSUME PoolInv, NEW u \in Conn, state[u] = "pooled",
         Remove(u), UNCHANGED <<venue, now>>, cutoff' \in Nat,
         NEW st \in {"closed", "inUse"}, state' = [state EXCEPT ![u] = st],
         NEW d \in SUBSET Dirt, dirt' = [dirt EXCEPT ![u] = d],
         \/ ts' = ts
         \/ ts' = [ts EXCEPT ![u] = 0]
  PROVE  PoolInv'
<1> USE DEF PoolInv
<1>1. Chained' /\ Ends'
  BY RemoveChains, RemoveEnds
<1>2. Pooled' = Pooled \ {u} /\ u \in Pooled
  BY DEF Pooled, TypeOK
<1>3. CountSound'
  <2>1. Cardinality(Pooled') = Cardinality(Pooled) - 1
    BY <1>2, PooledFinite, FS_RemoveElement
  <2>2. Cardinality(Pooled) \in Nat
    BY PooledFinite, FS_CardinalityType
  <2> QED BY <2>1, <2>2, PoolConstants DEF CountSound, Remove, TypeOK
<1>4. count' \in Nat
  <2>1. Cardinality(Pooled') \in Nat
    BY PooledFinite, FS_CardinalityType
  <2> QED BY <2>1, <1>3 DEF CountSound
<1>5. TypeOK'
  <2>1. newest' \in [Venue -> Conn \cup {NoConn}] /\ oldest' \in [Venue -> Conn \cup {NoConn}]
    BY DEF TypeOK, Remove
  <2>2. newer' \in [Conn -> Conn \cup {NoConn}] /\ older' \in [Conn -> Conn \cup {NoConn}]
    BY DEF TypeOK, Remove
  <2>3. elder' \in [Conn -> SUBSET Conn]
    BY DEF TypeOK, Remove
  <2>4. /\ state' \in [Conn -> {"closed", "inUse", "pooled"}]
        /\ dirt' \in [Conn -> SUBSET Dirt] /\ ts' \in [Conn -> Nat]
    BY DEF TypeOK
  <2> QED BY <1>4, <2>1, <2>2, <2>3, <2>4 DEF TypeOK
<1>6. AgeOrdered'
  <2>1. \A w \in Conn : elder'[w] \subseteq elder[w] \ {u}
    BY DEF Remove, TypeOK
  <2>2. elder'[u] = {}
    BY DEF Remove
  <2>3. \A w \in Conn : w # u => ts'[w] = ts[w]
    BY DEF TypeOK
  <2>4. ts'[u] <= now
    BY DEF TypeOK, AgeOrdered
  <2> QED BY <2>1, <2>2, <2>3, <2>4 DEF AgeOrdered, TypeOK
<1>7. PoolClean'
  BY DEF PoolClean, TypeOK
<1>8. Ranked'
  BY <1>2 DEF Ranked, Remove, Pooled
<1> QED BY <1>1, <1>3, <1>5, <1>6, <1>7, <1>8

\* Steps that leave every list alone and pool nothing.
LEMMA OutsideInv ==
  ASSUME PoolInv, NEW u \in Conn, state[u] # "pooled",
         UNCHANGED links, now' \in Nat, now' >= now, cutoff' \in Nat,
         NEW st \in {"closed", "inUse"}, state' = [state EXCEPT ![u] = st],
         NEW v \in Venue, venue' = [venue EXCEPT ![u] = v],
         NEW d \in SUBSET Dirt, dirt' = [dirt EXCEPT ![u] = d],
         \/ ts' = ts
         \/ ts' = [ts EXCEPT ![u] = 0]
  PROVE  PoolInv'
<1> USE DEF PoolInv, links
<1>1. Pooled' = Pooled /\ u \notin Pooled
  BY DEF Pooled, TypeOK
<1>2. \A w \in Conn : w # u => venue'[w] = venue[w] /\ state'[w] = state[w]
                              /\ dirt'[w] = dirt[w] /\ ts'[w] = ts[w]
  BY DEF TypeOK
<1>3. \A x : PooledAt(x)' = PooledAt(x)
  BY <1>1, <1>2 DEF PooledAt, Pooled
<1>4. Chained'
  <2>1. state'[u] # "pooled" /\ newer[u] = NoConn /\ older[u] = NoConn /\ elder[u] = {}
    BY DEF Chained, TypeOK
  <2>2. \A w \in Conn : w # u => PooledAt(venue[w])' = PooledAt(venue[w])
    BY <1>1, <1>2 DEF PooledAt, Pooled
  <2> QED BY <1>2, <2>1, <2>2 DEF Chained
<1>5. Ends'
  BY <1>3 DEF Ends
<1>6. CountSound' /\ TypeOK'
  BY <1>1 DEF CountSound, TypeOK
<1>7. AgeOrdered'
  <2>1. \A w \in Conn : u \notin elder[w]
    BY <1>1 DEF Chained, PooledAt
  <2>2. elder[u] = {}
    BY DEF Chained
  <2>3. ts'[u] <= now'
    BY DEF TypeOK, AgeOrdered
  <2>4. \A w \in Conn : ts'[w] <= now'
    BY <1>2, <2>3 DEF AgeOrdered, TypeOK
  <2> QED BY <1>2, <2>1, <2>2, <2>4 DEF AgeOrdered, TypeOK
<1>8. PoolClean'
  BY <1>1, <1>2 DEF PoolClean, Pooled, TypeOK
<1>9. Ranked'
  BY <1>1, <1>2 DEF Ranked, Pooled
<1> QED BY <1>4, <1>5, <1>6, <1>7, <1>8, <1>9

LEMMA CloseInv ==
  ASSUME PoolInv, NEW u \in Conn, CloseConn(u), UNCHANGED <<venue, now, cutoff>>
  PROVE  PoolInv'
<1>1. /\ state' = [state EXCEPT ![u] = "closed"] /\ dirt' = [dirt EXCEPT ![u] = {}]
      /\ ts' = [ts EXCEPT ![u] = 0]
  BY DEF CloseConn
<1>2. {} \in SUBSET Dirt /\ "closed" \in {"closed", "inUse"} /\ cutoff' \in Nat
      /\ now' \in Nat /\ now' >= now
  BY DEF PoolInv, TypeOK
<1>3. CASE state[u] = "pooled"
  <2>1. Remove(u)
    BY <1>3 DEF CloseConn
  <2> QED BY <1>1, <1>2, <1>3, <2>1, LeaveInv
<1>4. CASE state[u] # "pooled"
  <2>1. venue' = [venue EXCEPT ![u] = venue[u]] /\ venue[u] \in Venue
    BY DEF PoolInv, TypeOK
  <2>2. UNCHANGED links
    BY <1>4 DEF CloseConn
  <2> QED BY <1>1, <1>2, <1>4, <2>1, <2>2, OutsideInv
<1> QED BY <1>3, <1>4

LEMMA ReleaseInv ==
  ASSUME PoolInv, NEW u \in Conn, NEW keepAlive \in BOOLEAN, NEW bodyEnded \in BOOLEAN,
         Release(u, keepAlive, bodyEnded)
  PROVE  PoolInv'
<1>1. CASE Refusal(u, keepAlive, bodyEnded) # "None"
  BY <1>1, CloseInv DEF Release
<1>2. CASE Refusal(u, keepAlive, bodyEnded) = "None"
  <2> USE DEF PoolInv
  <2>0. state[u] = "inUse" /\ ~(count >= Cap) /\ dirt[u] \subseteq {"secret"}
    <3>1. state[u] = "inUse"
      BY DEF Release
    <3>2. /\ "eof" \notin dirt[u] /\ "leftover" \notin dirt[u] /\ "unsent" \notin dirt[u]
          /\ ~(count >= Cap)
      BY <1>2, <3>1 DEF Refusal
    <3> QED BY <3>1, <3>2 DEF TypeOK, Dirt
  <2>1. /\ PushNewest(u) /\ state' = [state EXCEPT ![u] = "pooled"]
        /\ dirt' = [dirt EXCEPT ![u] = dirt[u] \ {"secret"}]
        /\ ts' = [ts EXCEPT ![u] = now] /\ UNCHANGED <<venue, now, cutoff>>
    BY <1>2 DEF Release
  <2>2. Chained' /\ Ends'
    BY <2>0, <2>1, PushSound
  <2>3. Pooled' = Pooled \cup {u} /\ u \notin Pooled
    BY <2>0, <2>1 DEF Pooled, TypeOK
  <2>4. CountSound'
    <3>1. Cardinality(Pooled') = Cardinality(Pooled) + 1
      BY <2>3, PooledFinite, FS_AddElement
    <3> QED BY <3>1, <2>0, <2>1, PoolConstants DEF CountSound, PushNewest, TypeOK
  <2>5. TypeOK'
    <3>1. newest' \in [Venue -> Conn \cup {NoConn}] /\ oldest' \in [Venue -> Conn \cup {NoConn}]
      BY <2>1 DEF TypeOK, PushNewest
    <3>2. newer' \in [Conn -> Conn \cup {NoConn}] /\ older' \in [Conn -> Conn \cup {NoConn}]
      BY <2>1 DEF TypeOK, PushNewest
    <3>3. elder' \in [Conn -> SUBSET Conn] /\ count' \in Nat
      BY <2>1 DEF TypeOK, PushNewest, PooledAt, Pooled
    <3>4. /\ state' \in [Conn -> {"closed", "inUse", "pooled"}]
          /\ dirt' \in [Conn -> SUBSET Dirt] /\ ts' \in [Conn -> Nat]
      BY <2>1 DEF TypeOK
    <3> QED BY <2>1, <3>1, <3>2, <3>3, <3>4 DEF TypeOK
  <2>6. AgeOrdered'
    <3>1. elder' = [elder EXCEPT ![u] = PooledAt(venue[u])] /\ u \notin PooledAt(venue[u])
      BY <2>1, <2>3 DEF PushNewest, PooledAt
    <3>2. \A w \in Conn : u \notin elder[w]
      BY <2>3 DEF Chained, PooledAt
    <3>3. \A w \in Conn : ts'[w] = IF w = u THEN now ELSE ts[w]
      BY <2>1 DEF TypeOK
    <3>4. PooledAt(venue[u]) \subseteq Conn
      BY DEF PooledAt, Pooled
    <3>5. \A w \in Conn : ts[w] \in Nat /\ elder[w] \subseteq Conn
      BY DEF TypeOK
    <3>6. \A w \in Conn : ts'[w] <= now'
      BY <2>1, <3>3, <3>5 DEF AgeOrdered, TypeOK
    <3>7. ASSUME NEW y \in Conn, NEW w \in elder'[y] PROVE ts'[w] <= ts'[y]
      <4>1. CASE y = u
        <5>1. w \in Conn /\ w # u
          BY <4>1, <3>1, <3>4 DEF TypeOK
        <5> QED BY <4>1, <5>1, <3>3 DEF AgeOrdered
      <4>2. CASE y # u
        <5>1. w \in elder[y] /\ w # u /\ w \in Conn
          BY <4>2, <3>1, <3>2, <3>5 DEF TypeOK
        <5> QED BY <4>2, <5>1, <3>3 DEF AgeOrdered
      <4> QED BY <4>1, <4>2
    <3> QED BY <3>6, <3>7 DEF AgeOrdered
  <2>7. PoolClean'
    BY <2>0, <2>1 DEF PoolClean, TypeOK
  <2>8. Ranked'
    <3>1. \A w \in Conn : elder'[w] = IF w = u THEN PooledAt(venue[u]) ELSE elder[w]
      BY <2>1 DEF PushNewest, TypeOK
    <3>2. SUFFICES ASSUME NEW y \in Pooled \cup {u}, NEW w \in Pooled \cup {u},
                          venue[y] = venue[w]
                   PROVE  y = w \/ w \in elder'[y] \/ y \in elder'[w]
      BY <2>1, <2>3 DEF Ranked
    <3>3. y \in Conn /\ w \in Conn
      BY DEF Pooled
    <3>4. CASE y # u /\ w # u
      BY <3>1, <3>2, <3>3, <3>4 DEF Ranked
    <3>5. CASE y = u \/ w = u
      BY <3>1, <3>2, <3>3, <3>5 DEF PooledAt
    <3> QED BY <3>4, <3>5
  <2> QED BY <2>2, <2>4, <2>5, <2>6, <2>7, <2>8
<1> QED BY <1>1, <1>2

-----------------------------------------------------------------------------

LEMMA InitInv == Init => PoolInv
<1> SUFFICES ASSUME Init PROVE PoolInv
  OBVIOUS
<1>1. Pooled = {} /\ \A v : PooledAt(v) = {}
  BY DEF Init, Pooled, PooledAt
<1>2. CountSound
  BY <1>1, FS_EmptySet, PoolConstants DEF CountSound, Init
<1>3. TypeOK
  BY PoolConstants DEF Init, TypeOK, NoCutoff
<1>4. Chained /\ Ends
  BY <1>1 DEF Init, Chained, Ends
<1>5. Ranked /\ AgeOrdered /\ PoolClean
  BY <1>1 DEF Init, Ranked, AgeOrdered, PoolClean
<1> QED BY <1>2, <1>3, <1>4, <1>5 DEF PoolInv

LEMMA StutterInv ==
  ASSUME PoolInv, UNCHANGED <<newest, oldest, newer, older, state, venue, dirt, ts, count, elder>>,
         now' \in Nat, now' >= now, cutoff' \in Nat
  PROVE  PoolInv'
<1>1. Pooled' = Pooled /\ \A v : PooledAt(v)' = PooledAt(v)
  BY DEF Pooled, PooledAt
<1>2. \A w \in Conn : PooledAt(venue[w])' = PooledAt(venue[w])
  BY DEF Pooled, PooledAt
<1>3. TypeOK' /\ CountSound' /\ PoolClean' /\ Ends' /\ Ranked'
  BY <1>1 DEF PoolInv, TypeOK, CountSound, PoolClean, Ends, Ranked
<1>4. Chained'
  BY <1>2 DEF PoolInv, Chained
<1>5. AgeOrdered'
  BY DEF PoolInv, AgeOrdered, TypeOK
<1> QED BY <1>3, <1>4, <1>5 DEF PoolInv

LEMMA NextInv == PoolInv /\ [Next]_vars => PoolInv'
<1> SUFFICES ASSUME PoolInv, [Next]_vars PROVE PoolInv'
  OBVIOUS
<1>t. TypeOK
  BY DEF PoolInv
<1>1. ASSUME NEW u \in Conn, NEW v \in Venue, Open(u, v) PROVE PoolInv'
  <2>1. {"unsent", "secret"} \in SUBSET Dirt /\ now' \in Nat /\ now' >= now /\ cutoff' \in Nat
    BY <1>1, <1>t DEF Dirt, Open, TypeOK
  <2>2. state[u] # "pooled" /\ UNCHANGED links /\ ts' = ts
    BY <1>1 DEF Open
  <2>3. /\ state' = [state EXCEPT ![u] = "inUse"] /\ venue' = [venue EXCEPT ![u] = v]
        /\ dirt' = [dirt EXCEPT ![u] = {"unsent", "secret"}]
    BY <1>1 DEF Open
  <2> QED BY <2>1, <2>2, <2>3, OutsideInv
<1>2. ASSUME NEW u \in Conn, RequestSent(u) \/ ConsumeResponse(u)
                             \/ (state[u] = "inUse" /\ (VenueBytes(u) \/ VenueEof(u)))
      PROVE  PoolInv'
  <2>1. PICK d \in SUBSET Dirt : dirt' = [dirt EXCEPT ![u] = d]
    BY <1>2, <1>t DEF RequestSent, ConsumeResponse, VenueBytes, VenueEof, Dirt, TypeOK
  <2>2. /\ state[u] = "inUse" /\ state' = state /\ venue' = venue /\ ts' = ts
        /\ now' = now /\ cutoff' = cutoff /\ UNCHANGED links
    BY <1>2 DEF RequestSent, ConsumeResponse, VenueBytes, VenueEof
  <2>3. /\ state' = [state EXCEPT ![u] = "inUse"] /\ venue' = [venue EXCEPT ![u] = venue[u]]
        /\ venue[u] \in Venue /\ now' \in Nat /\ now' >= now /\ cutoff' \in Nat
    BY <2>2, <1>t DEF TypeOK
  <2> QED BY <2>1, <2>2, <2>3, OutsideInv
<1>3. ASSUME NEW u \in Conn, Close(u) \/ (state[u] = "pooled" /\ (VenueBytes(u) \/ VenueEof(u)))
      PROVE  PoolInv'
  BY <1>3, CloseInv DEF Close, VenueBytes, VenueEof
<1>4. ASSUME NEW u \in Conn, NEW keepAlive \in BOOLEAN, NEW bodyEnded \in BOOLEAN,
             Release(u, keepAlive, bodyEnded)
      PROVE  PoolInv'
  BY <1>4, ReleaseInv
<1>5. ASSUME NEW v \in Venue, Acquire(v) PROVE PoolInv'
  <2>0. PICK u : u = newest[v]
    OBVIOUS
  <2>1. u \in Conn /\ state[u] = "pooled"
    BY <1>5, <2>0 DEF Acquire, PoolInv, Ends, PooledAt, Pooled
  <2>2. /\ Remove(u) /\ state' = [state EXCEPT ![u] = "inUse"]
        /\ dirt' = [dirt EXCEPT ![u] = {"unsent", "secret"}]
        /\ ts' = ts /\ UNCHANGED <<venue, now>> /\ cutoff' = cutoff
    BY <1>5, <2>0 DEF Acquire
  <2>3. {"unsent", "secret"} \in SUBSET Dirt /\ cutoff' \in Nat
    BY <2>2, <1>t DEF Dirt, TypeOK
  <2> QED BY <2>1, <2>2, <2>3, LeaveInv
<1>6. ASSUME NEW v \in Venue, ReapOne(v) PROVE PoolInv'
  <2>1. oldest[v] \in Conn
    BY <1>6 DEF ReapOne, Expired, PoolInv, Ends, PooledAt, Pooled
  <2> QED BY <1>6, <2>1, CloseInv DEF ReapOne
<1>7. CASE ReapBegin \/ ReapEnd \/ Tick \/ UNCHANGED vars
  <2>1. /\ UNCHANGED <<newest, oldest, newer, older, state, venue, dirt, ts, count, elder>>
        /\ now' \in Nat /\ now' >= now
    BY <1>7, <1>t DEF ReapBegin, ReapEnd, Tick, vars, TypeOK
  <2>2. cutoff' \in Nat
    BY <1>7, <1>t, PoolConstants DEF ReapBegin, ReapEnd, Tick, vars, TypeOK, NoCutoff
  <2> QED BY <2>1, <2>2, StutterInv
<1>8. ASSUME NEW u \in Conn, VenueBytes(u) \/ VenueEof(u)
      PROVE  state[u] = "inUse" \/ state[u] = "pooled"
  BY <1>8 DEF VenueBytes, VenueEof
<1> QED BY <1>1, <1>2, <1>3, <1>4, <1>5, <1>6, <1>7, <1>8 DEF Next

\* The invariant holds in every reachable state.
THEOREM PoolInvariant == Spec => []PoolInv
  BY InitInv, NextInv, PTL DEF Spec

\* Every variable of the pool keeps its type.
THEOREM PoolTypeCorrect == Spec => []TypeOK
<1>1. PoolInv => TypeOK
  BY DEF PoolInv
<1> QED BY <1>1, PoolInvariant, PTL

\* The intrusive lists stay sound under removal from any position: a walk of
\* a venue's list meets exactly its pooled connections, newest to oldest.
THEOREM PoolListsSound == Spec => []ListsSound
<1>1. PoolInv => ListsSound
  BY DEF PoolInv, ListsSound
<1> QED BY <1>1, PoolInvariant, PTL

\* The count is exact and the cap on the total is never passed.
THEOREM PoolCountSound == Spec => []CountSound
<1>1. PoolInv => CountSound
  BY DEF PoolInv
<1> QED BY <1>1, PoolInvariant, PTL

\* No pooled connection carries anything of its last exchange.
THEOREM PoolStaysClean == Spec => []PoolClean
<1>1. PoolInv => PoolClean
  BY DEF PoolInv
<1> QED BY <1>1, PoolInvariant, PTL

\* acquire() hands out the most recently pooled connection of the venue.
THEOREM PoolAcquiresNewest == Spec => AcquireNewest
<1>1. PoolInv /\ [Next]_vars
      => [\A u \in Conn : state[u] = "pooled" /\ state'[u] = "inUse"
             => PooledAt(venue[u]) = {u} \cup elder[u]]_vars
  <2> SUFFICES ASSUME PoolInv, Next, NEW u \in Conn, state[u] = "pooled", state'[u] = "inUse"
               PROVE  PooledAt(venue[u]) = {u} \cup elder[u]
    OBVIOUS
  <2>t. TypeOK
    BY DEF PoolInv
  <2>1. PICK v \in Venue : Acquire(v)
    <3>1. ASSUME NEW w \in Conn, CloseConn(w) PROVE FALSE
      BY <3>1, <2>t DEF CloseConn, TypeOK
    <3>2. ASSUME NEW w \in Conn, NEW v \in Venue, Open(w, v) PROVE FALSE
      BY <3>2, <2>t DEF Open, TypeOK
    <3>3. ASSUME NEW w \in Conn, RequestSent(w) \/ VenueBytes(w) \/ ConsumeResponse(w)
                                 \/ VenueEof(w) \/ Close(w)
          PROVE  FALSE
      BY <3>1, <3>3 DEF RequestSent, VenueBytes, ConsumeResponse, VenueEof, Close
    <3>4. ASSUME NEW w \in Conn, NEW k \in BOOLEAN, NEW b \in BOOLEAN, Release(w, k, b)
          PROVE  FALSE
      BY <3>1, <3>4, <2>t DEF Release, TypeOK
    <3>5. ASSUME NEW v \in Venue, ReapOne(v) PROVE FALSE
      <4>1. oldest[v] \in Conn
        BY <3>5 DEF ReapOne, Expired, PoolInv, Ends, PooledAt, Pooled
      <4> QED BY <3>1, <3>5, <4>1 DEF ReapOne
    <3>6. ~ReapBegin /\ ~ReapEnd /\ ~Tick
      BY DEF ReapBegin, ReapEnd, Tick
    <3> QED BY <3>2, <3>3, <3>4, <3>5, <3>6 DEF Next
  <2>2. u = newest[v]
    BY <2>1, <2>t DEF Acquire, TypeOK
  <2>3. newest[v] # NoConn /\ newest[v] \in PooledAt(v)
    BY <2>1 DEF Acquire, PoolInv, Ends
  <2> QED BY <2>2, <2>3 DEF PoolInv, Ends, PooledAt
<1> QED BY <1>1, PoolInvariant, PTL DEF Spec, AcquireNewest

\* reap() stops at the first survivor of each venue, and still nothing older
\* than the cutoff is left behind it.
THEOREM PoolReapComplete == Spec => ReapComplete
<1>1. PoolInv /\ [Next]_vars
      => [cutoff # NoCutoff /\ cutoff' = NoCutoff
            => \A u \in Conn : state[u] = "pooled" => ts[u] >= cutoff]_vars
  <2> SUFFICES ASSUME PoolInv, Next, cutoff # NoCutoff, cutoff' = NoCutoff,
                      NEW u \in Conn, state[u] = "pooled"
               PROVE  ts[u] >= cutoff
    OBVIOUS
  <2>1. ReapEnd
    BY DEF Next, Open, RequestSent, VenueBytes, ConsumeResponse, VenueEof, Release,
           Close, Acquire, ReapOne, ReapBegin, Tick
  <2>2. PICK o : o = oldest[venue[u]]
    OBVIOUS
  <2>3. venue[u] \in Venue /\ u \in Pooled /\ u \in PooledAt(venue[u])
    BY DEF PoolInv, TypeOK, Pooled, PooledAt
  <2>4. o # NoConn /\ o \in PooledAt(venue[u]) /\ older[o] = NoConn /\ o \in Pooled
        /\ o \in Conn /\ venue[o] = venue[u]
    BY <2>2, <2>3 DEF PoolInv, Ends, PooledAt, Pooled
  <2>5. elder[o] = {}
    BY <2>4 DEF PoolInv, Chained, Pooled
  <2>6. o = u \/ o \in elder[u]
    BY <2>3, <2>4, <2>5 DEF PoolInv, Ranked
  <2>7. ts[o] <= ts[u] /\ ts[o] \in Nat /\ ts[u] \in Nat /\ cutoff \in Nat
    BY <2>4, <2>6 DEF PoolInv, AgeOrdered, TypeOK
  <2>8. ~(ts[o] < cutoff)
    BY <2>1, <2>2, <2>3, <2>4 DEF ReapEnd, Expired
  <2> QED BY <2>7, <2>8
<1> QED BY <1>1, PoolInvariant, PTL DEF Spec, ReapComplete
=============================================================================
