---------------------------- MODULE UpstreamPool ----------------------------
(***************************************************************************)
(* The keep-alive pool of upstream connections (core/pool.hpp, pool.cpp):  *)
(* one intrusive doubly linked list per venue, newest first out, capped in *)
(* total, unlinked from the middle when a pooled connection closes, and    *)
(* reaped from the old end by the sweep.                                   *)
(*                                                                         *)
(* The pointers are modelled as the code keeps them: `newest' and `oldest' *)
(* are the two ends of a venue's List, `newer' and `older' the links       *)
(* stored in each connection.  One worker's event loop runs every          *)
(* operation to completion; only the reap is a loop, and it is taken one   *)
(* iteration at a time (no other operation runs while `cutoff' is set).    *)
(***************************************************************************)
EXTENDS Naturals, FiniteSets, Sequences

CONSTANTS Conn,      \* upstream connection objects
          Venue,     \* configured upstreams
          Cap,       \* the pool's total capacity (_cap)
          IdleFor,   \* how long a pooled connection may idle, in clock ticks
          MaxNow,    \* bound on the clock
          NoConn     \* the null pointer

ASSUME PoolConstants == /\ IsFiniteSet(Conn)
                        /\ NoConn \notin Conn
                        /\ Cap \in Nat
                        /\ IdleFor \in Nat
                        /\ MaxNow \in Nat

VARIABLES newest,    \* List::newest, per venue
          oldest,    \* List::oldest, per venue
          newer,     \* UpstreamConn::pool_newer
          older,     \* UpstreamConn::pool_older
          state,     \* closed (doomed or never opened), in use, or pooled
          venue,     \* UpstreamConn::venue
          dirt,      \* what makes a connection unfit for another client
          ts,        \* UpstreamConn::ts_pooled
          count,     \* _count
          now,       \* the monotonic clock
          cutoff,    \* the reap under way, or NoCutoff
          elder      \* history: who was in u's list when u was pooled, and still is

links == <<newest, oldest, newer, older, count, elder>>
vars  == <<newest, oldest, newer, older, state, venue, dirt, ts, count, now,
           cutoff, elder>>

NoCutoff == 0

\* "unsent": our request has not fully left; "secret": the out buffer still
\* holds the request and its credential; "leftover": bytes in rbuf;
\* "eof": the venue sent EOF.
Dirt == {"unsent", "secret", "leftover", "eof"}

Pooled    == {u \in Conn : state[u] = "pooled"}
PooledAt(v) == {u \in Pooled : venue[u] = v}

Init == /\ newest = [v \in Venue |-> NoConn]
        /\ oldest = [v \in Venue |-> NoConn]
        /\ newer  = [u \in Conn |-> NoConn]
        /\ older  = [u \in Conn |-> NoConn]
        /\ state  = [u \in Conn |-> "closed"]
        /\ venue \in [Conn -> Venue]
        /\ dirt   = [u \in Conn |-> {}]
        /\ ts     = [u \in Conn |-> 0]
        /\ count  = 0
        /\ now    = 0
        /\ cutoff = NoCutoff
        /\ elder  = [u \in Conn |-> {}]

-----------------------------------------------------------------------------
(* The two list operations.                                                *)

\* Mutants of remove: the newer neighbour keeps pointing at u; the tail pointer
\* of the list is not moved.
Remove_OneWay(u) ==
  /\ newest' = IF newer[u] = NoConn THEN [newest EXCEPT ![venue[u]] = older[u]] ELSE newest
  /\ oldest' = IF older[u] = NoConn THEN [oldest EXCEPT ![venue[u]] = newer[u]] ELSE oldest
  /\ older'  = [older EXCEPT ![u] = NoConn]
  /\ newer'  = [w \in Conn |-> IF w = u THEN NoConn
                               ELSE IF w = older[u] THEN newer[u] ELSE newer[w]]
  /\ count'  = count - 1
  /\ elder'  = [w \in Conn |-> IF w = u THEN {} ELSE elder[w] \ {u}]
Remove_KeepsOldest(u) ==
  /\ newest' = IF newer[u] = NoConn THEN [newest EXCEPT ![venue[u]] = older[u]] ELSE newest
  /\ oldest' = oldest
  /\ older'  = [w \in Conn |-> IF w = u THEN NoConn
                               ELSE IF w = newer[u] THEN older[u] ELSE older[w]]
  /\ newer'  = [w \in Conn |-> IF w = u THEN NoConn
                               ELSE IF w = older[u] THEN newer[u] ELSE newer[w]]
  /\ count'  = count - 1
  /\ elder'  = [w \in Conn |-> IF w = u THEN {} ELSE elder[w] \ {u}]

\* UpstreamPool::remove on a pooled connection: O(1), from any position.
Remove(u) ==
  /\ newest' = IF newer[u] = NoConn THEN [newest EXCEPT ![venue[u]] = older[u]]
                                    ELSE newest
  /\ oldest' = IF older[u] = NoConn THEN [oldest EXCEPT ![venue[u]] = newer[u]]
                                    ELSE oldest
  /\ older'  = [w \in Conn |-> IF w = u THEN NoConn
                               ELSE IF w = newer[u] THEN older[u] ELSE older[w]]
  /\ newer'  = [w \in Conn |-> IF w = u THEN NoConn
                               ELSE IF w = older[u] THEN newer[u] ELSE newer[w]]
  /\ count'  = count - 1
  /\ elder'  = [w \in Conn |-> IF w = u THEN {} ELSE elder[w] \ {u}]

\* The tail of UpstreamPool::release: link u in as its venue's newest.
PushNewest(u) ==
  LET v == venue[u] IN
  /\ older'  = [older EXCEPT ![u] = newest[v]]
  /\ newer'  = [w \in Conn |-> IF w = u THEN NoConn
                               ELSE IF w = newest[v] THEN u ELSE newer[w]]
  /\ oldest' = IF newest[v] = NoConn THEN [oldest EXCEPT ![v] = u] ELSE oldest
  /\ newest' = [newest EXCEPT ![v] = u]
  /\ count'  = count + 1
  /\ elder'  = [elder EXCEPT ![u] = PooledAt(v)]

\* Why release() will not pool u, or "None".  The order is the code's.
Refusal(u, keepAlive, bodyEnded) ==
  CASE state[u] # "inUse"       -> "Closed"
    [] ~keepAlive               -> "NotKeepAlive"
    [] ~bodyEnded               -> "BodyOpen"
    [] "eof" \in dirt[u]        -> "PeerClosed"
    [] "leftover" \in dirt[u]   -> "Leftover"
    [] "unsent" \in dirt[u]     -> "Unsent"
    [] count >= Cap             -> "Full"
    [] OTHER                    -> "None"

\* Engine::forget(UpstreamConn*) and the backend's close: out of the pool if
\* pooled, then doomed and freed (a later Open is a new object).
CloseConn(u) ==
  /\ state' = [state EXCEPT ![u] = "closed"]
  /\ dirt'  = [dirt EXCEPT ![u] = {}]
  /\ ts'    = [ts EXCEPT ![u] = 0]
  /\ IF state[u] = "pooled" THEN Remove(u) ELSE UNCHANGED links

-----------------------------------------------------------------------------
(* Operations of the event loop.                                           *)

\* new_upstream: dial a fresh connection and stage the request on it.
Open(u, v) ==
  /\ cutoff = NoCutoff
  /\ state[u] = "closed"
  /\ state' = [state EXCEPT ![u] = "inUse"]
  /\ venue' = [venue EXCEPT ![u] = v]
  /\ dirt'  = [dirt EXCEPT ![u] = {"unsent", "secret"}]
  /\ UNCHANGED <<ts, now, cutoff, links>>

\* acquire(v): the newest connection, unlinked; the dispatch stages on it.
Acquire(v) ==
  LET u == newest[v] IN
  /\ cutoff = NoCutoff
  /\ u # NoConn
  /\ Remove(u)
  /\ state' = [state EXCEPT ![u] = "inUse"]
  /\ dirt'  = [dirt EXCEPT ![u] = {"unsent", "secret"}]
  /\ UNCHANGED <<venue, ts, now, cutoff>>

\* The exchange's own progress on a connection in use.
RequestSent(u) ==
  /\ cutoff = NoCutoff
  /\ state[u] = "inUse" /\ "unsent" \in dirt[u]
  /\ dirt' = [dirt EXCEPT ![u] = @ \ {"unsent"}]
  /\ UNCHANGED <<state, venue, ts, now, cutoff, links>>

\* Bytes reach rbuf; a connection in the pool has no client, so bytes close it.
VenueBytes(u) ==
  /\ cutoff = NoCutoff
  /\ \/ /\ state[u] = "inUse" /\ "eof" \notin dirt[u]
        /\ dirt' = [dirt EXCEPT ![u] = @ \cup {"leftover"}]
        /\ UNCHANGED <<state, ts, links>>
     \/ state[u] = "pooled" /\ CloseConn(u)
  /\ UNCHANGED <<venue, now, cutoff>>

\* on_response: the framed response leaves rbuf.
ConsumeResponse(u) ==
  /\ cutoff = NoCutoff
  /\ state[u] = "inUse" /\ "leftover" \in dirt[u]
  /\ dirt' = [dirt EXCEPT ![u] = @ \ {"leftover"}]
  /\ UNCHANGED <<state, venue, ts, now, cutoff, links>>

\* EOF from the venue: noted as peer_eof in use, fatal in the pool.
VenueEof(u) ==
  /\ cutoff = NoCutoff
  /\ \/ /\ state[u] = "inUse" /\ "eof" \notin dirt[u]
        /\ dirt' = [dirt EXCEPT ![u] = @ \cup {"eof"}]
        /\ UNCHANGED <<state, ts, links>>
     \/ state[u] = "pooled" /\ CloseConn(u)
  /\ UNCHANGED <<venue, now, cutoff>>

\* release_upstream: pooled and scrubbed when nothing is in doubt, else closed.
Release(u, keepAlive, bodyEnded) ==
  /\ cutoff = NoCutoff
  /\ state[u] = "inUse"
  /\ IF Refusal(u, keepAlive, bodyEnded) = "None"
     THEN /\ PushNewest(u)
          /\ state' = [state EXCEPT ![u] = "pooled"]
          /\ dirt'  = [dirt EXCEPT ![u] = @ \ {"secret"}]
          /\ ts'    = [ts EXCEPT ![u] = now]
     ELSE CloseConn(u)
  /\ UNCHANGED <<venue, now, cutoff>>

\* Any other close: an abort, a deadline, a venue swap.
Close(u) ==
  /\ cutoff = NoCutoff
  /\ state[u] # "closed"
  /\ CloseConn(u)
  /\ UNCHANGED <<venue, now, cutoff>>

\* The sweep reaps what was pooled before now - IdleFor.
ReapBegin ==
  /\ cutoff = NoCutoff
  /\ now > IdleFor
  /\ cutoff' = now - IdleFor
  /\ UNCHANGED <<newest, oldest, newer, older, state, venue, dirt, ts, count,
                 now, elder>>

\* Mutant: the reap looks at the wrong end.
Expired_Newest(v) == newest[v] # NoConn /\ ts[newest[v]] < cutoff

Expired(v) == oldest[v] # NoConn /\ ts[oldest[v]] < cutoff

\* One turn of reap()'s inner loop.
ReapOne(v) ==
  /\ cutoff # NoCutoff
  /\ Expired(v)
  /\ CloseConn(oldest[v])
  /\ UNCHANGED <<venue, now, cutoff>>

ReapEnd ==
  /\ cutoff # NoCutoff
  /\ \A v \in Venue : ~Expired(v)
  /\ cutoff' = NoCutoff
  /\ UNCHANGED <<newest, oldest, newer, older, state, venue, dirt, ts, count,
                 now, elder>>

Tick ==
  /\ cutoff = NoCutoff
  /\ now < MaxNow
  /\ now' = now + 1
  /\ UNCHANGED <<newest, oldest, newer, older, state, venue, dirt, ts, count,
                 cutoff, elder>>

Next ==
  \/ \E u \in Conn :
       \/ \E v \in Venue : Open(u, v)
       \/ RequestSent(u) \/ VenueBytes(u) \/ ConsumeResponse(u) \/ VenueEof(u)
       \/ \E keepAlive, bodyEnded \in BOOLEAN : Release(u, keepAlive, bodyEnded)
       \/ Close(u)
  \/ \E v \in Venue : Acquire(v) \/ ReapOne(v)
  \/ ReapBegin \/ ReapEnd \/ Tick

Spec == Init /\ [][Next]_vars

-----------------------------------------------------------------------------
(* Properties.                                                             *)

\* Every variable has its type (a connection's links are connections or null).
TypeOK ==
  /\ newest \in [Venue -> Conn \cup {NoConn}]
  /\ oldest \in [Venue -> Conn \cup {NoConn}]
  /\ newer \in [Conn -> Conn \cup {NoConn}]
  /\ older \in [Conn -> Conn \cup {NoConn}]
  /\ state \in [Conn -> {"closed", "inUse", "pooled"}]
  /\ venue \in [Conn -> Venue]
  /\ dirt \in [Conn -> SUBSET Dirt]
  /\ ts \in [Conn -> Nat]
  /\ count \in Nat
  /\ now \in Nat
  /\ cutoff \in Nat
  /\ elder \in [Conn -> SUBSET Conn]

\* The links of a venue's list run through exactly its pooled connections,
\* newest to oldest: stepping to `older' drops precisely one connection from
\* the set of those still ahead, so the walk of for_each meets each once and
\* ends at `oldest'; both directions agree; nothing else has a link.
Chained ==
  \A u \in Conn :
    IF state[u] = "pooled"
    THEN /\ u \notin elder[u]
         /\ elder[u] \subseteq PooledAt(venue[u])
         /\ IF older[u] = NoConn
            THEN elder[u] = {} /\ oldest[venue[u]] = u
            ELSE elder[u] = {older[u]} \cup elder[older[u]] /\ newer[older[u]] = u
         /\ IF newer[u] = NoConn
            THEN newest[venue[u]] = u
            ELSE newer[u] \in PooledAt(venue[u]) /\ older[newer[u]] = u
    ELSE newer[u] = NoConn /\ older[u] = NoConn /\ elder[u] = {}

Ends ==
  \A v \in Venue :
    /\ newest[v] # NoConn => /\ newest[v] \in PooledAt(v)
                             /\ newer[newest[v]] = NoConn
                             /\ PooledAt(v) = {newest[v]} \cup elder[newest[v]]
    /\ oldest[v] # NoConn => /\ oldest[v] \in PooledAt(v)
                             /\ older[oldest[v]] = NoConn
    /\ newest[v] = NoConn => PooledAt(v) = {}
    /\ oldest[v] = NoConn => PooledAt(v) = {}

\* An older member of a list was pooled no later than a newer one.
AgeOrdered ==
  /\ \A u \in Conn : ts[u] <= now
  /\ \A u \in Conn : \A w \in elder[u] : ts[w] <= ts[u]

\* Of two connections pooled for one venue, one is the elder.
Ranked ==
  \A u, w \in Pooled : venue[u] = venue[w] => u = w \/ w \in elder[u] \/ u \in elder[w]

\* The pool's lists are sound: the structure for_each, remove and reap rely on.
\* Walking a venue's links meets exactly its pooled connections, each once,
\* from the newest to the oldest in the order they were pooled, and every
\* other connection is linked to nothing.
ListsSound == Chained /\ Ends /\ Ranked /\ AgeOrdered

\* size() is the number of pooled connections, over every venue, and the cap
\* on the total holds however connections are released, reaped and closed.
CountSound == count = Cardinality(Pooled) /\ count <= Cap

\* What waits in the pool is fit for another client: no bytes of the last
\* exchange, none of its credential, no EOF, nothing unsent.
PoolClean == \A u \in Conn : state[u] = "pooled" => dirt[u] = {}

\* acquire() hands out the most recently pooled connection of that venue.
AcquireNewest ==
  [][\A u \in Conn : state[u] = "pooled" /\ state'[u] = "inUse"
        => PooledAt(venue[u]) = {u} \cup elder[u]]_vars

\* When reap() returns, nothing pooled before the cutoff is left, though it
\* looked at no more than one survivor of each venue.
ReapComplete ==
  [][cutoff # NoCutoff /\ cutoff' = NoCutoff
        => \A u \in Conn : state[u] = "pooled" => ts[u] >= cutoff]_vars

-----------------------------------------------------------------------------
(* The refinement of PoolSpec: a stack per venue.                          *)

\* q is what for_each meets, starting at `first' and following the links `next'.
At(q, i) == IF i \in DOMAIN q THEN q[i] ELSE NoConn
Follows(q, first, next) ==
  /\ first = At(q, 1)
  /\ \A i \in DOMAIN q : next[q[i]] = At(q, i + 1)

\* for_each: the connections met walking from newest along older.
WalkFrom(first, next) == CHOOSE q \in UNION {[1..n -> Conn] : n \in 0..Cardinality(Conn)} :
                            Follows(q, first, next)
Walk(v) == WalkFrom(newest[v], older)

InUse == {u \in Conn : state[u] = "inUse"}

Stacks == INSTANCE PoolSpec WITH idle <- [v \in Venue |-> Walk(v)], busy <- InUse

\* Every step of the pool is a step of the abstract stacks.
RefinesStacks == Stacks!Spec
=============================================================================
