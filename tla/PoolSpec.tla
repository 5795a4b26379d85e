------------------------------ MODULE PoolSpec ------------------------------
(***************************************************************************)
(* What the upstream pool promises its callers, without pointers: each     *)
(* venue has a stack of idle connections, the newest at the head.  A       *)
(* request takes the head of its venue's stack or a fresh connection; a    *)
(* finished one is pushed if the pool has room; a connection may leave the *)
(* system from anywhere.                                                   *)
(***************************************************************************)
EXTENDS Naturals, Sequences, FiniteSets

CONSTANTS Conn, Venue, Cap

VARIABLES idle,  \* per venue, the idle connections, newest first
          busy   \* the connections some request holds

Idle(v) == {idle[v][i] : i \in DOMAIN idle[v]}
Total   == Cardinality({u \in Conn : \E v \in Venue : u \in Idle(v)})

Init == idle = [v \in Venue |-> <<>>] /\ busy = {}

Dial(u) ==
  /\ u \notin busy /\ \A v \in Venue : u \notin Idle(v)
  /\ busy' = busy \cup {u}
  /\ UNCHANGED idle

Pop(v) ==
  /\ idle[v] # <<>>
  /\ busy' = busy \cup {Head(idle[v])}
  /\ idle' = [idle EXCEPT ![v] = Tail(@)]

Push(u, v) ==
  /\ u \in busy
  /\ Total < Cap
  /\ busy' = busy \ {u}
  /\ idle' = [idle EXCEPT ![v] = <<u>> \o @]

Hangup(u) == u \in busy /\ busy' = busy \ {u} /\ UNCHANGED idle

Evict(v, i) ==
  /\ i \in DOMAIN idle[v]
  /\ idle' = [idle EXCEPT ![v] = SubSeq(@, 1, i - 1) \o SubSeq(@, i + 1, Len(@))]
  /\ UNCHANGED busy

Next == \/ \E u \in Conn : Dial(u) \/ Hangup(u)
        \/ \E u \in Conn, v \in Venue : Push(u, v)
        \/ \E v \in Venue : Pop(v) \/ \E i \in DOMAIN idle[v] : Evict(v, i)

Spec == Init /\ [][Next]_<<idle, busy>>
=============================================================================
