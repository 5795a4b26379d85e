---------------------------- MODULE Hedge_proofs ----------------------------
(***************************************************************************)
(* What holds of a hedged request for any number of legs and tokens.       *)
(*                                                                         *)
(* A state is a race still on (Racing: the client waits, and each leg runs, *)
(* has yet to be sent, or is gone with its record) or one that is settled  *)
(* (Settled: no leg is left, and what the client has read and what was     *)
(* recorded fit the winner, or that there is none).  A handler of one leg  *)
(* is followed through Acting, the race with that leg in the middle of its *)
(* handler: each lemma below takes one helper of the model from one of the *)
(* three to another, and each action is a chain of them.                   *)
(***************************************************************************)
EXTENDS Hedge, TLAPS

(* The types of the state's parts. *)

Phases == {"Idle", "Dispatched", "Streaming", "Replying"}
Kinds == {"own", "ok", "bad", "head", "token", "done"}
Items == [leg : Conns, kind : Kinds]
Reqs ==
  [leg : Conns, phase : Phases, streaming : BOOLEAN, ended : BOOLEAN, token : BOOLEAN,
   sunk : BOOLEAN, won : BOOLEAN, cut : BOOLEAN, failed : BOOLEAN]
ConnStates ==
  [open : BOOLEAN, req : Reqs, out : Seq(Items), owes : BOOLEAN, up : Conns, closing : BOOLEAN, of : BOOLEAN]
Ups == [st : {"none", "dialing", "ready", "pooled", "closed"}, stale : BOOLEAN, reset : BOOLEAN, tokens : Nat]
States ==
  [conn : [Conns -> ConnStates], legs : SUBSET Leg, waiting : BOOLEAN, ups : [Leg -> Ups],
   recs : [Conns -> Nat], seen : Seq(Items), left : BOOLEAN, turn : Conns]

\* What the leaves never touch: the race itself, and what the client has read.
Unmoved(t, r) == r \in States /\ r.turn = t.turn /\ r.waiting = t.waiting /\ r.legs = t.legs /\ r.seen = t.seen
\* r is t with connection i now c, its venue connection v, and n records of its request.
Moves(t, r, i, k, c, v, n) ==
  /\ Unmoved(t, r)
  /\ r.conn[i] = c /\ \A j \in Conns : j # i => r.conn[j] = t.conn[j]
  /\ (k \in Leg => r.ups[k] = v) /\ \A j \in Leg : j # k => r.ups[j] = t.ups[j]
  /\ r.recs[k] = n /\ \A j \in Conns : j # k => r.recs[j] = t.recs[j]

\* One connection changes.
LEMMA ConnMoves ==
  ASSUME NEW t \in States, NEW i \in Conns, NEW k \in Conns, NEW c \in ConnStates
  PROVE  Moves(t, [t EXCEPT !.conn[i] = c], i, k, c, t.ups[k], t.recs[k])
  <1>1. [t EXCEPT !.conn[i] = c] \in States
    BY DEF States
  <1> QED
    BY <1>1 DEF Moves, Unmoved, States

\* One venue connection changes.
LEMMA UpMoves ==
  ASSUME NEW t \in States, NEW i \in Conns, NEW k \in Conns, k \in Leg, NEW v \in Ups
  PROVE  Moves(t, [t EXCEPT !.ups[k] = v], i, k, t.conn[i], v, t.recs[k])
  <1>1. [t EXCEPT !.ups[k] = v] \in States
    BY DEF States
  <1> QED
    BY <1>1 DEF Moves, Unmoved, States

\* One count of records changes.
LEMMA RecMoves ==
  ASSUME NEW t \in States, NEW i \in Conns, NEW k \in Conns, NEW m \in Nat
  PROVE  Moves(t, [t EXCEPT !.recs[k] = m], i, k, t.conn[i], t.ups[k], m)
  <1>1. [t EXCEPT !.recs[k] = m] \in States
    BY DEF States
  <1> QED
    BY <1>1 DEF Moves, Unmoved, States

\* Two changes of the same connection are one.
LEMMA MovesOn ==
  ASSUME NEW t, NEW r, NEW q, NEW i \in Conns, NEW k \in Conns, NEW c, NEW v, NEW n, NEW d, NEW w, NEW m,
         Moves(t, r, i, k, c, v, n), Moves(r, q, i, k, d, w, m)
  PROVE  Moves(t, q, i, k, d, w, m)
  BY DEF Moves, Unmoved

\* The type of a connection.
LEMMA ConnIs == ASSUME NEW t \in States, NEW i \in Conns PROVE t.conn[i] \in ConnStates
  BY DEF States
\* The type of a connection's request.
LEMMA ReqIs == ASSUME NEW c \in ConnStates PROVE c.req \in Reqs
  BY DEF ConnStates
\* The type of an item staged.
LEMMA ItemIs == ASSUME NEW i \in Conns, NEW k \in Kinds PROVE Item(i, k) \in Items
  BY DEF Item, Items
\* 0 is the client, and every other connection is a leg.
LEMMA Zero == 0 \in Conns /\ 0 \notin Leg /\ Leg \subseteq Conns /\ \A k \in Conns : k # 0 => k \in Leg
  BY LegsAssumption DEF Leg, Conns

\* Staging appends one item of the request's own leg.
LEMMA Stages ==
  ASSUME NEW t \in States, NEW i \in Conns, NEW k \in Conns, NEW kind \in Kinds, t.conn[i].req.leg = k
  PROVE  Moves(t, Stage(t, i, kind), i, k, 
           [t.conn[i] EXCEPT !.out = Append(t.conn[i].out, Item(k, kind)), !.owes = TRUE], t.ups[k], t.recs[k])
  <1> DEFINE c == [t.conn[i] EXCEPT !.out = Append(t.conn[i].out, Item(k, kind)), !.owes = TRUE]
  <1>1. t.conn[i] \in ConnStates
    BY ConnIs
  <1>3. Append(t.conn[i].out, Item(k, kind)) \in Seq(Items)
    BY <1>1, ItemIs DEF ConnStates
  <1>4. c \in ConnStates
    BY <1>1, <1>3 DEF ConnStates
  <1>5. Stage(t, i, kind) = [t EXCEPT !.conn[i] = c]
    BY <1>1 DEF Stage
  <1> HIDE DEF c
  <1>6. Moves(t, [t EXCEPT !.conn[i] = c], i, k, c, t.ups[k], t.recs[k])
    BY <1>4, ConnMoves
  <1> QED
    BY <1>5, <1>6 DEF c

\* Dropping a venue connection closes it and unpairs it.
LEMMA Drops ==
  ASSUME NEW t \in States, NEW i \in Conns, NEW k \in Conns, t.conn[i].up \in {0, k}
  PROVE  Moves(t, DropUp(t, i), i, k, [t.conn[i] EXCEPT !.up = 0],
               IF t.conn[i].up = 0 THEN t.ups[k] ELSE [t.ups[k] EXCEPT !.st = "closed"], t.recs[k])
  <1> DEFINE c == [t.conn[i] EXCEPT !.up = 0]
             a == [t EXCEPT !.conn[i] = c]
  <1>1. t.conn[i] \in ConnStates
    BY ConnIs
  <1>2. c \in ConnStates
    BY <1>1, Zero DEF ConnStates
  <1>3. Unpair(t, i) = a
    BY <1>1 DEF Unpair
  <1>4. DropUp(t, i) = CloseUp(a, t.conn[i].up)
    BY <1>3 DEF DropUp
  <1> HIDE DEF c
  <1>5. Moves(t, a, i, k, c, t.ups[k], t.recs[k])
    BY <1>2, ConnMoves
  <1> HIDE DEF a
  <1>6. CASE t.conn[i].up = 0
    BY <1>4, <1>5, <1>6 DEF CloseUp, c
  <1>7. CASE t.conn[i].up # 0
    <2>1. k \in Leg /\ t.conn[i].up = k /\ k # 0
      BY <1>7 DEF Leg, Conns
    <2>2. a \in States /\ a.ups[k] = t.ups[k] /\ t.ups[k] \in Ups
      BY <1>5, <2>1 DEF Moves, Unmoved, States
    <2> DEFINE v == [t.ups[k] EXCEPT !.st = "closed"]
    <2>3. v \in Ups
      BY <2>2 DEF Ups
    <2>4. CloseUp(a, k) = [a EXCEPT !.ups[k] = v]
      BY <2>1, <2>2 DEF CloseUp
    <2> HIDE DEF v
    <2>5. [a EXCEPT !.ups[k] = v] \in States
      BY <2>1, <2>2, <2>3 DEF States
    <2>6. Moves(t, [a EXCEPT !.ups[k] = v], i, k, c, v, t.recs[k])
      BY <1>5, <2>1, <2>2, <2>5 DEF Moves, Unmoved, States
    <2> QED
      BY <1>4, <1>7, <2>1, <2>4, <2>6 DEF c, v
  <1> QED
    BY <1>6, <1>7

\* Releasing one pools or closes it.
LEMMA Releases ==
  ASSUME NEW t \in States, NEW i \in Conns, NEW k \in Leg, NEW keep \in BOOLEAN, t.conn[i].up = k
  PROVE  \E st \in {"pooled", "closed"} :
           Moves(t, Release(t, i, keep), i, k, [t.conn[i] EXCEPT !.up = 0], [t.ups[k] EXCEPT !.st = st], t.recs[k])
  <1> DEFINE c == [t.conn[i] EXCEPT !.up = 0]
             a == [t EXCEPT !.conn[i] = c]
             st == IF keep /\ ~ t.ups[k].reset THEN "pooled" ELSE "closed"
             v == [t.ups[k] EXCEPT !.st = st]
  <1>1. t.conn[i] \in ConnStates
    BY ConnIs
  <1>2. c \in ConnStates
    BY <1>1, Zero DEF ConnStates
  <1>3. Unpair(t, i) = a
    BY <1>1 DEF Unpair
  <1>4. t.ups[k] \in Ups /\ k \in Conns
    BY Zero DEF States
  <1>5. st \in {"pooled", "closed"}
    OBVIOUS
  <1> HIDE DEF st
  <1>6. v \in Ups
    BY <1>4, <1>5 DEF Ups
  <1> HIDE DEF c
  <1>7. Moves(t, a, i, k, c, t.ups[k], t.recs[k])
    BY <1>2, <1>4, ConnMoves
  <1> HIDE DEF a
  <1>8. a \in States /\ a.ups[k] = t.ups[k] /\ a.conn[i] = c /\ a.recs[k] = t.recs[k]
    BY <1>7 DEF Moves, Unmoved
  <1>9. Release(t, i, keep) = [a EXCEPT !.ups[k] = v]
    BY <1>3, <1>8 DEF Release, st
  <1> HIDE DEF v
  <1>10. Moves(a, [a EXCEPT !.ups[k] = v], i, k, c, v, t.recs[k])
    BY <1>4, <1>6, <1>8, UpMoves
  <1>11. Moves(t, [a EXCEPT !.ups[k] = v], i, k, c, v, t.recs[k])
    BY <1>4, <1>7, <1>10, MovesOn
  <1> QED
    BY <1>5, <1>9, <1>11 DEF c, v

\* The connection once its request is recorded.
Sunk(c) == [c EXCEPT !.req = [c.req EXCEPT !.sunk = TRUE]]

\* Its type.
LEMMA SunkIs == ASSUME NEW c \in ConnStates PROVE Sunk(c) \in ConnStates
  <1>1. [c.req EXCEPT !.sunk = TRUE] \in Reqs
    BY ReqIs DEF Reqs
  <1> QED
    BY <1>1 DEF Sunk, ConnStates

\* A record counts for the leg whose request it is.
LEMMA Sinks ==
  ASSUME NEW t \in States, NEW i \in Conns, NEW k \in Conns, t.conn[i].req.leg = k
  PROVE  Moves(t, SinkEmit(t, i), i, k, Sunk(t.conn[i]), t.ups[k], t.recs[k] + 1)
  <1> DEFINE c == Sunk(t.conn[i])
             a == [t EXCEPT !.conn[i] = c]
             m == t.recs[k] + 1
  <1>1. t.conn[i] \in ConnStates
    BY ConnIs
  <1>2. c \in ConnStates
    BY <1>1, SunkIs
  <1>3. SinkEmit(t, i) = [a EXCEPT !.recs[k] = m]
    BY <1>1 DEF SinkEmit, Sunk, States
  <1> HIDE DEF c
  <1>4. m \in Nat
    BY DEF States
  <1> HIDE DEF m
  <1>5. Moves(t, a, i, k, c, t.ups[k], t.recs[k])
    BY <1>2, ConnMoves
  <1> HIDE DEF a
  <1>6. a \in States /\ a.conn[i] = c /\ (k \in Leg => a.ups[k] = t.ups[k])
    BY <1>5 DEF Moves, Unmoved
  <1>7. Moves(a, [a EXCEPT !.recs[k] = m], i, k, c, a.ups[k], m)
    BY <1>4, <1>6, RecMoves
  <1>8. Moves(t, [a EXCEPT !.recs[k] = m], i, k, c, a.ups[k], m)
    BY <1>5, <1>7, MovesOn
  <1> QED
    BY <1>3, <1>6, <1>8 DEF c, m, Moves

\* A request already recorded is not recorded again.
LEMMA SinksOnce ==
  ASSUME NEW t \in States, NEW i \in Conns, NEW k \in Conns, t.conn[i].req.leg = k
  PROVE  Moves(t, SinkUnlessSunk(t, i), i, k, Sunk(t.conn[i]), t.ups[k],
               IF t.conn[i].req.sunk THEN t.recs[k] ELSE t.recs[k] + 1)
  <1>1. CASE t.conn[i].req.sunk
    <2>1. t.conn[i] \in ConnStates /\ t.conn[i].req \in Reqs
      BY ConnIs, ReqIs
    <2>2. [t.conn[i].req EXCEPT !.sunk = TRUE] = t.conn[i].req
      BY <1>1, <2>1 DEF Reqs
    <2>3. Sunk(t.conn[i]) = t.conn[i]
      BY <2>1, <2>2 DEF ConnStates, Sunk
    <2> QED
      BY <1>1, <2>3 DEF SinkUnlessSunk, Moves, Unmoved
  <1>2. CASE ~ t.conn[i].req.sunk
    BY <1>2, Sinks DEF SinkUnlessSunk
  <1> QED
    BY <1>1, <1>2

-----------------------------------------------------------------------------
\* Every item is of leg i; none tells of a failure; a venue connection nobody waits on; streaming
\* goes with the phase; the records a request has left.
AllOf(q, i) == \A k \in 1 .. Len(q) : q[k].leg = i
Clean(q) == \A k \in 1 .. Len(q) : q[k].kind \notin {"own", "bad"}
Quiet(u) == u.st \notin {"dialing", "ready"}
Modes(f) == f.streaming <=> f.phase = "Streaming"
Recorded(f) == IF f.sunk THEN 1 ELSE 0

\* A leg in the race, still linked: what all its states share.
LegBase(c, j) == c.open /\ c.of /\ c.req.leg = j /\ ~ c.req.cut /\ AllOf(c.out, j)
\* A leg that was sent: it holds its own venue connection and has shown no token.
LegRuns(c, u, n, j) ==
  /\ LegBase(c, j) /\ ~ c.req.sunk /\ n = 0
  /\ ~ c.req.failed /\ Clean(c.out) /\ ~ c.req.token /\ ~ c.req.ended
  /\ c.req.phase \in {"Dispatched", "Streaming"} /\ Modes(c.req) /\ (c.req.phase = "Dispatched" => ~ c.owes)
  /\ ~ c.closing
  /\ c.up = j /\ ~ Quiet(u) /\ (c.req.streaming => u.st = "ready")
\* A leg that is linked and not yet sent.
LegWaits(c, u, n, j) ==
  /\ LegBase(c, j) /\ ~ c.req.sunk /\ n = 0
  /\ c.req.phase = "Idle" /\ Modes(c.req) /\ ~ c.req.failed /\ ~ c.req.token /\ ~ c.req.ended
  /\ ~ c.closing /\ ~ c.owes
  /\ c.out = <<>> /\ c.up = 0 /\ u.st = "none"
\* A leg that went by itself: recorded once, never cut.
LegGone(c, u, n) == ~ c.open /\ ~ c.req.cut /\ n = 1 /\ Quiet(u)
\* The legs from n on are not yet sent.
LegIn(c, u, m, j, n) == IF j < n THEN LegRuns(c, u, m, j) ELSE LegWaits(c, u, m, j)
\* A leg of the race is linked, or gone.
LegStatus(t, j, n) ==
  IF j \in t.legs THEN LegIn(t.conn[j], t.ups[j], t.recs[j], j, n)
  ELSE LegGone(t.conn[j], t.ups[j], t.recs[j]) /\ j < n
\* The client of a race has read nothing, owes nothing, and waits.
ClientWaits(t) ==
  /\ t.waiting /\ t.recs[0] = 0 /\ t.seen = <<>>
  /\ t.conn[0].open /\ t.conn[0].req = [NewReq(0) EXCEPT !.phase = "Dispatched"]
  /\ t.conn[0].out = <<>> /\ ~ t.conn[0].owes /\ t.conn[0].up = 0 /\ ~ t.conn[0].closing
\* A race still on, the legs before n sent.
Racing(t, n) == t \in States /\ ClientWaits(t) /\ t.legs # {} /\ \A j \in Leg : LegStatus(t, j, n)

\* A leg in the middle of one of its handlers.
LegActs(c, u, m, j) ==
  /\ LegBase(c, j) /\ m = Recorded(c.req)
  /\ c.up \in {0, j} /\ (c.up = 0 => Quiet(u))
  /\ Clean(c.out) \/ c.req.failed
\* The race around leg i.
Rest(t, i, n) == ClientWaits(t) /\ i \in t.legs /\ \A j \in Leg : j # i => LegStatus(t, j, n)
\* The race with leg i in the middle of its handler.
Acting(t, i, n) == t \in States /\ i < n /\ Rest(t, i, n) /\ LegActs(t.conn[i], t.ups[i], t.recs[i], i)

\* What leg i does to itself leaves the rest of the race alone.
LEMMA RestOn ==
  ASSUME NEW t, NEW r, NEW i \in Leg, NEW n \in 1 .. Legs + 1, NEW c, NEW v, NEW m,
         Rest(t, i, n), Moves(t, r, i, i, c, v, m)
  PROVE  Rest(r, i, n)
  <1>1. r.legs = t.legs /\ r.waiting = t.waiting /\ r.seen = t.seen
    BY DEF Moves, Unmoved
  <1>2. \A j \in Conns : j # i => r.conn[j] = t.conn[j] /\ r.recs[j] = t.recs[j]
    BY DEF Moves
  <1>3. \A j \in Leg : j # i => r.ups[j] = t.ups[j]
    BY DEF Moves
  <1>4. ClientWaits(r)
    BY <1>1, <1>2, Zero DEF Rest, ClientWaits
  <1>5. \A j \in Leg : j # i => LegStatus(r, j, n)
    BY <1>1, <1>2, <1>3, Zero DEF Rest, LegStatus
  <1> QED
    BY <1>1, <1>4, <1>5 DEF Rest

\* Leg i goes on with its handler.
LEMMA ActsOn ==
  ASSUME NEW t, NEW r, NEW i \in Leg, NEW n \in 1 .. Legs + 1, NEW c, NEW v, NEW m,
         Acting(t, i, n), Moves(t, r, i, i, c, v, m), LegActs(c, v, m, i)
  PROVE  Acting(r, i, n)
  <1>1. Rest(r, i, n)
    BY RestOn DEF Acting
  <1>2. r \in States /\ r.conn[i] = c /\ r.ups[i] = v /\ r.recs[i] = m
    BY DEF Moves, Unmoved
  <1> QED
    BY <1>1, <1>2 DEF Acting

\* An open leg that was sent may start a handler.
LEMMA RaceActs ==
  ASSUME NEW t, NEW i \in Leg, NEW n \in 1 .. Legs + 1, Racing(t, n), t.conn[i].open, i < n
  PROVE  Acting(t, i, n) /\ LegRuns(t.conn[i], t.ups[i], t.recs[i], i)
  <1>1. i \in t.legs
    BY DEF Racing, LegStatus, LegGone
  <1>2. LegRuns(t.conn[i], t.ups[i], t.recs[i], i)
    BY <1>1 DEF Racing, LegStatus, LegIn
  <1>3. LegActs(t.conn[i], t.ups[i], t.recs[i], i)
    BY <1>2 DEF LegRuns, LegActs, Recorded, Leg
  <1> QED
    BY <1>1, <1>2, <1>3 DEF Racing, Acting, Rest

\* A handler that leaves its leg running leaves the race on.
LEMMA RunsOn ==
  ASSUME NEW t, NEW i \in Leg, NEW n \in 1 .. Legs + 1, Acting(t, i, n), LegRuns(t.conn[i], t.ups[i], t.recs[i], i)
  PROVE  Racing(t, n)
  <1>1. LegStatus(t, i, n)
    BY DEF Acting, Rest, LegStatus, LegIn
  <1> QED
    BY <1>1 DEF Acting, Rest, Racing

\* An item of the leg keeps the bytes its own, and clean unless it tells of a failure.
LEMMA AllOfs ==
  ASSUME NEW q \in Seq(Items), NEW i \in Conns, AllOf(q, i)
  PROVE  /\ \A kind \in Kinds : AllOf(Append(q, Item(i, kind)), i)
         /\ \A kind \in Kinds \ {"own", "bad"} : Clean(q) => Clean(Append(q, Item(i, kind)))
  <1>1. \A kind \in Kinds : Item(i, kind) \in Items /\ Item(i, kind).leg = i /\ Item(i, kind).kind = kind
    BY ItemIs DEF Item
  <1> QED
    BY <1>1 DEF AllOf, Clean

\* Nothing staged is anyone's.
LEMMA Empties == ASSUME NEW i PROVE AllOf(<<>>, i) /\ Clean(<<>>)
  <1>1. Len(<<>>) = 0
    OBVIOUS
  <1> QED
    BY <1>1 DEF AllOf, Clean

\* What the client has read, with what it is still owed.
LEMMA Joins ==
  ASSUME NEW p \in Seq(Items), NEW q \in Seq(Items), NEW i, AllOf(p, i), AllOf(q, i)
  PROVE  AllOf(p \o q, i) /\ (Clean(p) /\ Clean(q) => Clean(p \o q)) /\ p \o q \in Seq(Items)
  <1>1. p \o q \in Seq(Items) /\ Len(p \o q) = Len(p) + Len(q) /\ Len(p) \in Nat /\ Len(q) \in Nat
    OBVIOUS
  <1>2. \A k \in 1 .. Len(p) + Len(q) : (p \o q)[k] = IF k <= Len(p) THEN p[k] ELSE q[k - Len(p)]
    OBVIOUS
  <1>3. \A k \in 1 .. Len(p) + Len(q) : IF k <= Len(p) THEN k \in 1 .. Len(p) ELSE k - Len(p) \in 1 .. Len(q)
    BY <1>1
  <1>4. AllOf(p \o q, i)
    BY <1>1, <1>2, <1>3 DEF AllOf
  <1>5. Clean(p) /\ Clean(q) => Clean(p \o q)
    BY <1>1, <1>2, <1>3 DEF Clean
  <1> QED
    BY <1>1, <1>4, <1>5

-----------------------------------------------------------------------------
\* A leg of a settled race: closed, its venue connection quiet or the client's own, and reset if
\* the leg was cut.
LegOver(d, u, c, j) ==
  /\ ~ d.open
  /\ Quiet(u) \/ (c.open /\ c.up = j /\ c.req.leg = j)
  /\ d.req.cut /\ u.st # "none" => u.reset /\ u.st = "closed"
  /\ c.req.leg = j => ~ d.req.cut
\* No leg was cut.
NoneCut(t) == \A j \in Leg : ~ t.conn[j].req.cut
\* A request refused before a leg was made; one whose legs all went with nothing to show, or whose
\* client left; one that a leg won.
NotHedged(t) ==
  /\ t.conn[0].req.leg = 0 /\ (\A j \in Leg : t.recs[j] = 0 /\ t.ups[j] = NoUp)
  /\ t.recs[0] = Recorded(t.conn[0].req)
NoWinner(t) ==
  /\ t.conn[0].req.leg = 0 /\ (\A j \in Leg : t.recs[j] = 1) /\ t.recs[0] = 0
  /\ t.conn[0].req.sunk \/ ~ t.conn[0].open
Won(t) ==
  /\ t.conn[0].req.leg # 0 /\ t.recs[0] = 0
  /\ \A j \in Leg : t.recs[j] = IF j = t.conn[0].req.leg THEN Recorded(t.conn[0].req) ELSE 1
  /\ t.conn[0].req.phase = "Idle" => t.conn[0].req.sunk
Tally(t) == NotHedged(t) \/ NoWinner(t) \/ Won(t)
\* The client of a settled race: idle and owing nothing, or answered in part.
ClientOver(c) ==
  c.open => /\ Modes(c.req)
            /\ IF c.req.phase = "Idle" THEN c.out = <<>> /\ ~ c.owes /\ c.up = 0 /\ ~ c.closing
               ELSE c.req.phase \in {"Streaming", "Replying"}
\* The client has a venue connection only while it streams its winner's.
Holds(c, u) == c.up # 0 => c.up = c.req.leg /\ c.req.streaming /\ u.st = "ready"
\* All the client read is its winner's, and it is told of a failure only if no leg was cut.
Told(t) ==
  /\ AllOf(t.seen, t.conn[0].req.leg) /\ AllOf(t.conn[0].out, t.conn[0].req.leg)
  /\ (Clean(t.seen) /\ Clean(t.conn[0].out)) \/ NoneCut(t)
\* A race that is over.
Settled(t) ==
  /\ t \in States /\ ~ t.waiting /\ t.legs = {}
  /\ \A j \in Leg : LegOver(t.conn[j], t.ups[j], t.conn[0], j)
  /\ Told(t) /\ Tally(t)
  /\ ClientOver(t.conn[0]) /\ Holds(t.conn[0], t.ups[t.conn[0].up])

\* A leg that settle_hedge cut, and what it leaves of the whole race.
LegCut(c, u, m) == ~ c.open /\ c.req.cut /\ u.reset /\ u.st = "closed" /\ m = 1
Settles(b, z) ==
  /\ z \in States /\ ~ z.waiting /\ z.legs = {} /\ z.seen = b.seen /\ z.turn = b.turn
  /\ z.conn[0] = b.conn[0] /\ z.recs[0] = b.recs[0]
  /\ \A j \in Leg : IF j \in b.legs THEN LegCut(z.conn[j], z.ups[j], z.recs[j])
                    ELSE z.conn[j] = b.conn[j] /\ z.recs[j] = b.recs[j] /\ z.ups[j] = b.ups[j]

\* cut_leg of a connection.
LEMMA CutConnIs ==
  ASSUME NEW c \in ConnStates PROVE CutConn(c) \in ConnStates /\ ~ CutConn(c).open /\ CutConn(c).req.cut
  <1> DEFINE f == [c.req EXCEPT !.cut = TRUE, !.sunk = TRUE]
  <1>1. c.req \in Reqs /\ f \in Reqs /\ f.cut
    BY ReqIs DEF Reqs
  <1>2. CutConn(c) = [c EXCEPT !.req = f, !.open = FALSE, !.of = FALSE, !.up = 0]
    BY <1>1 DEF CutConn, ConnStates
  <1> HIDE DEF f
  <1> QED
    BY <1>1, <1>2, Zero DEF ConnStates
\* cut_leg of a venue connection.
LEMMA CutUpIs ==
  ASSUME NEW u \in Ups PROVE CutUp(u) \in Ups /\ CutUp(u).reset /\ CutUp(u).st = "closed"
  BY DEF CutUp, Ups

\* settle_hedge cuts each leg still linked, and records it.
LEMMA SettlesAll ==
  ASSUME NEW b \in States, \A j \in b.legs : LegRuns(b.conn[j], b.ups[j], b.recs[j], j)
  PROVE  Settles(b, Settle(b))
  <1> DEFINE R == [i \in Conns |-> IF i \in b.legs THEN b.recs[i] + CutRecords(b, i) ELSE b.recs[i]]
             U == [u \in Leg |-> IF \E i \in b.legs : b.conn[i].up = u THEN CutUp(b.ups[u]) ELSE b.ups[u]]
             C == [i \in Conns |-> IF i \in b.legs THEN CutConn(b.conn[i]) ELSE b.conn[i]]
  <1>1. Settle(b) = [b EXCEPT !.waiting = FALSE, !.legs = {}, !.recs = R, !.ups = U, !.conn = C]
    BY DEF Settle, States
  <1>0. b.legs \subseteq Leg /\ 0 \notin b.legs
    BY Zero DEF States
  <1>2. \A j \in b.legs : b.recs[j] = 0 /\ CutRecords(b, j) = 1 /\ b.conn[j].up = j
    BY DEF LegRuns, CutRecords
  <1>3. R \in [Conns -> Nat] /\ (\A j \in b.legs : R[j] = 1) /\ \A j \in Conns : j \notin b.legs => R[j] = b.recs[j]
    BY <1>0, <1>2, Zero DEF States
  <1>4. U \in [Leg -> Ups]
    BY CutUpIs DEF States
  <1>5. \A j \in b.legs : U[j].reset /\ U[j].st = "closed"
    BY <1>0, <1>2, CutUpIs DEF States
  <1>6. \A j \in Leg : j \notin b.legs => U[j] = b.ups[j]
    BY <1>2
  <1>7. C \in [Conns -> ConnStates]
    BY CutConnIs DEF States
  <1>8. \A j \in b.legs : ~ C[j].open /\ C[j].req.cut
    BY <1>0, CutConnIs, Zero DEF States
  <1>9. \A j \in Conns : j \notin b.legs => C[j] = b.conn[j]
    OBVIOUS
  <1> HIDE DEF R, U, C
  <1>10. /\ Settle(b) \in States /\ Settle(b).waiting = FALSE /\ Settle(b).legs = {} /\ Settle(b).recs = R
         /\ Settle(b).ups = U /\ Settle(b).conn = C /\ Settle(b).seen = b.seen /\ Settle(b).turn = b.turn
    BY <1>1, <1>3, <1>4, <1>7 DEF States
  <1> QED
    BY <1>0, <1>3, <1>5, <1>6, <1>8, <1>9, <1>10, Zero DEF Settles, LegCut

\* A leg is alone only once every leg was sent.
LEMMA AloneLast ==
  ASSUME NEW t, NEW i \in Leg, NEW n \in 1 .. Legs + 1, Acting(t, i, n), LegAlone(t, i)
  PROVE  n = Legs + 1 /\ t.legs = {i}
  <1>1. t.legs = {i}
    BY DEF LegAlone, Acting, Rest
  <1>2. ASSUME n # Legs + 1 PROVE FALSE
    <2>1. n \in Leg /\ n # i /\ ~ (n < n)
      BY <1>2, LegsAssumption DEF Leg, Acting
    <2>2. LegStatus(t, n, n)
      BY <2>1 DEF Acting, Rest
    <2> QED
      BY <1>1, <2>1, <2>2 DEF LegStatus
  <1> QED
    BY <1>1, <1>2

\* The state adopt_leg leaves to settle_hedge.
Handed(t, i) == Closed(Swapped(t, i), i)
\* adopt_leg moves the request, the venue and the bytes to the client, and closes the leg.
LEMMA Hands ==
  ASSUME NEW t \in States, NEW i \in Leg
  PROVE  LET b == Handed(t, i)
         IN /\ b \in States /\ b.turn = t.turn /\ b.legs = t.legs \ {i} /\ b.seen = t.seen /\ b.ups = t.ups /\ b.recs = t.recs
            /\ b.conn[0] = Adopter(t.conn[0], t.conn[i]) /\ ~ b.conn[i].open /\ b.conn[i].req.cut = t.conn[0].req.cut
            /\ \A j \in Leg : j # i => b.conn[j] = t.conn[j]
  <1> DEFINE f == [t.conn[i].req EXCEPT !.won = TRUE]
             c == Adopter(t.conn[0], t.conn[i])
             g == [t.conn[0].req EXCEPT !.sunk = TRUE]
             e == Emptied(t.conn[i], t.conn[0])
             d == [e EXCEPT !.open = FALSE]
             a == Swapped(t, i)
             b == Handed(t, i)
  <1>1. 0 \in Conns /\ i \in Conns /\ i # 0 /\ t.conn[0] \in ConnStates /\ t.conn[i] \in ConnStates
    BY Zero, ConnIs
  <1>2. t.conn[0].req \in Reqs /\ t.conn[i].req \in Reqs
    BY <1>1, ReqIs
  <1>3. f \in Reqs /\ g \in Reqs /\ g.cut = t.conn[0].req.cut
    BY <1>2 DEF Reqs
  <1>4. t.conn[0].out \o t.conn[i].out \in Seq(Items)
    BY <1>1 DEF ConnStates
  <1>5. c \in ConnStates
    BY <1>1, <1>3, <1>4 DEF ConnStates, Adopter
  <1>6b. e = [t.conn[i] EXCEPT !.req = g, !.out = <<>>, !.owes = FALSE, !.up = 0, !.of = FALSE]
    BY DEF Emptied
  <1> HIDE DEF g, e
  <1>6c. t.conn[i] \in ConnStates /\ g \in Reqs /\ <<>> \in Seq(Items) /\ 0 \in Conns
    BY <1>1, <1>3
  <1>6a. e \in ConnStates /\ e.req = g
    BY <1>6b, <1>6c DEF ConnStates
  <1>6. d \in ConnStates /\ ~ d.open /\ d.req = g
    BY <1>6a DEF ConnStates
  <1> DEFINE C == [t.conn EXCEPT ![0] = c, ![i] = e]
  <1>7. a = [t EXCEPT !.legs = t.legs \ {i}, !.conn = C]
    BY DEF Swapped, e
  <1> HIDE DEF c, d
  <1>7a. C \in [Conns -> ConnStates] /\ C[0] = c /\ C[i] = e /\ \A j \in Leg : j # i => C[j] = t.conn[j]
    BY <1>1, <1>5, <1>6a, Zero DEF States
  <1> HIDE DEF C
  <1>8. /\ a \in States /\ a.turn = t.turn /\ a.legs = t.legs \ {i} /\ a.seen = t.seen /\ a.ups = t.ups /\ a.recs = t.recs
        /\ a.conn[0] = c /\ a.conn[i] = e /\ \A j \in Leg : j # i => a.conn[j] = t.conn[j]
    BY <1>7, <1>7a DEF States
  <1> HIDE DEF a
  <1>9. b = [a EXCEPT !.conn[i] = d]
    BY <1>1, <1>8 DEF Handed, Closed, a, d
  <1> HIDE DEF b
  <1>10. /\ b \in States /\ b.turn = a.turn /\ b.legs = a.legs /\ b.seen = a.seen /\ b.ups = a.ups /\ b.recs = a.recs
         /\ b.conn[0] = a.conn[0] /\ b.conn[i] = d /\ \A j \in Leg : j # i => b.conn[j] = a.conn[j]
    BY <1>1, <1>6, <1>8, <1>9, Zero DEF States
  <1> QED
    BY <1>3, <1>6, <1>8, <1>10 DEF c, b

\* A race is settled by its winner's adoption, and the client goes on with the winner's request.
LEMMA Adopts ==
  ASSUME NEW t, NEW i \in Leg, NEW n \in 1 .. Legs + 1, Acting(t, i, n),
         t.conn[i].req.phase \in {"Streaming", "Replying"}, Modes(t.conn[i].req), Holds(t.conn[i], t.ups[i]),
         LegAlone(t, i) \/ (n = Legs + 1 /\ Clean(t.conn[i].out)),
         NEW z \in Adopted(t, i)
  PROVE  /\ Settled(z) /\ z.turn = t.turn /\ n = Legs + 1
         /\ z.conn[0].open /\ z.conn[0].req = [t.conn[i].req EXCEPT !.won = TRUE]
  <1> DEFINE b == Handed(t, i)
             c == t.conn[0]
             d == t.conn[i]
             e == Adopter(c, d)
  <1>1. z = Settle(b)
    BY DEF Adopted, Then, Handed
  <1>2. /\ t \in States /\ i \in Conns /\ i # 0 /\ c \in ConnStates /\ d \in ConnStates /\ d.req \in Reqs
        /\ d.out \in Seq(Items) /\ t.legs \subseteq Leg /\ i \in t.legs
    BY Zero, ConnIs, ReqIs DEF Acting, Rest, ConnStates, States
  <1>3. /\ b \in States /\ b.turn = t.turn /\ b.legs = t.legs \ {i} /\ b.seen = t.seen /\ b.ups = t.ups /\ b.recs = t.recs
        /\ b.conn[0] = e /\ ~ b.conn[i].open /\ b.conn[i].req.cut = c.req.cut
        /\ \A j \in Leg : j # i => b.conn[j] = t.conn[j]
    BY <1>2, Hands
  <1> HIDE DEF b
  <1>4. n = Legs + 1
    BY AloneLast
  <1>5. \A j \in Leg : j < n
    BY <1>4, LegsAssumption DEF Leg
  <1>6. \A j \in b.legs : LegRuns(b.conn[j], b.ups[j], b.recs[j], j)
    BY <1>2, <1>3, <1>5 DEF Acting, Rest, LegStatus, LegIn
  <1>7. Settles(b, z)
    BY <1>1, <1>3, <1>6, SettlesAll
  <1>8. c.open /\ c.out = <<>> /\ ~ c.req.cut /\ t.recs[0] = 0 /\ t.seen = <<>>
    BY DEF Acting, Rest, ClientWaits, NewReq
  <1>9. /\ e.open /\ e.req = [d.req EXCEPT !.won = TRUE] /\ e.closing = d.closing /\ e.out = d.out /\ e.up = d.up
    BY <1>2, <1>8 DEF Adopter, ConnStates
  <1>10. /\ e.req.leg = i /\ e.req.phase = d.req.phase /\ e.req.sunk = d.req.sunk /\ e.req.streaming = d.req.streaming
    BY <1>2, <1>9 DEF Acting, LegActs, LegBase, Reqs
  <1> HIDE DEF e
  <1>11. /\ z \in States /\ ~ z.waiting /\ z.legs = {} /\ z.seen = <<>> /\ z.turn = t.turn /\ z.conn[0] = e
         /\ z.recs[0] = 0
         /\ \A j \in Leg : IF j \in b.legs THEN LegCut(z.conn[j], z.ups[j], z.recs[j])
                           ELSE z.conn[j] = b.conn[j] /\ z.recs[j] = b.recs[j] /\ z.ups[j] = b.ups[j]
    BY <1>3, <1>7, <1>8 DEF Settles
  <1>12. ~ z.conn[i].open /\ ~ z.conn[i].req.cut /\ z.recs[i] = Recorded(d.req) /\ z.ups[i] = t.ups[i]
    BY <1>2, <1>3, <1>8, <1>11 DEF Acting, LegActs
  <1>13. \A j \in Leg : j # i /\ j \notin b.legs => LegGone(z.conn[j], z.ups[j], z.recs[j])
    BY <1>2, <1>3, <1>11 DEF Acting, Rest, LegStatus
  <1>14. d.up \in {0, i} /\ (d.up = 0 => Quiet(t.ups[i])) /\ AllOf(d.out, i) /\ (Clean(d.out) \/ d.req.failed)
    BY DEF Acting, LegActs, LegBase
  <1>15. \A j \in Leg : LegOver(z.conn[j], z.ups[j], e, j)
    <2> SUFFICES ASSUME NEW j \in Leg PROVE LegOver(z.conn[j], z.ups[j], e, j)
      OBVIOUS
    <2>1. CASE j = i
      BY <1>9, <1>10, <1>12, <1>14, <2>1 DEF LegOver
    <2>2. CASE j \in b.legs
      BY <1>3, <1>10, <1>11, <2>2 DEF LegOver, LegCut, Quiet
    <2>3. CASE j # i /\ j \notin b.legs
      BY <1>10, <1>13, <2>3 DEF LegOver, LegGone
    <2> QED
      BY <2>1, <2>2, <2>3
  <1>16. Told(z)
    <2>1. LegAlone(t, i) => NoneCut(z)
      BY <1>2, <1>3, <1>12, <1>13 DEF LegAlone, NoneCut, LegGone
    <2>2. AllOf(<<>>, i) /\ Clean(<<>>)
      BY Empties
    <2>3. Clean(d.out) \/ NoneCut(z)
      BY <2>1
    <2>4. z.seen = <<>> /\ z.conn[0].out = d.out /\ z.conn[0].req.leg = i
      BY <1>9, <1>10, <1>11
    <2> QED
      BY <1>14, <2>2, <2>3, <2>4 DEF Told
  <1>17. Won(z)
    <2>1. \A j \in Leg : j # i => z.recs[j] = 1
      BY <1>11, <1>13 DEF LegCut, LegGone
    <2>2. z.conn[0].req.leg = i /\ z.conn[0].req.phase # "Idle" /\ Recorded(z.conn[0].req) = Recorded(d.req)
      BY <1>10, <1>11 DEF Recorded
    <2> QED
      BY <1>2, <1>11, <1>12, <2>1, <2>2 DEF Won
  <1>18. ClientOver(e)
    BY <1>9, <1>10 DEF ClientOver, Modes
  <1>19. Holds(e, z.ups[e.up])
    BY <1>9, <1>10, <1>12, <1>14 DEF Holds, Acting, LegActs, LegBase
  <1> QED
    BY <1>4, <1>9, <1>11, <1>15, <1>16, <1>17, <1>18, <1>19 DEF Settled, Tally

-----------------------------------------------------------------------------
\* The records that fit the client's connection c, with m of its request.
ClientTally(t, c, m) ==
  IF c.req.leg # 0 THEN m = Recorded(c.req) /\ (c.req.phase = "Idle" => c.req.sunk)
  ELSE IF NotHedged(t) THEN m = Recorded(c.req) ELSE m = 0 /\ (c.req.sunk \/ ~ c.open)
\* A change of the client's connection that leaves a settled race settled.
ClientStep(t, c, v, m, k) ==
  /\ c.req.leg = k
  /\ k # 0 => Quiet(v) \/ (c.open /\ c.up = k)
  /\ AllOf(c.out, k) /\ ((Clean(t.seen) /\ Clean(c.out)) \/ NoneCut(t))
  /\ ClientOver(c) /\ Holds(c, v)
  /\ ClientTally(t, c, m)

\* It does.
LEMMA SettledOn ==
  ASSUME NEW t, NEW r, NEW k \in Conns, NEW c, NEW v, NEW m, Settled(t), t.conn[0].req.leg = k,
         Moves(t, r, 0, k, c, v, m), ClientStep(t, c, v, m, k)
  PROVE  Settled(r) /\ r.turn = t.turn
  <1>1. r \in States /\ ~ r.waiting /\ r.legs = {} /\ r.seen = t.seen /\ r.turn = t.turn /\ r.conn[0] = c
    BY DEF Moves, Unmoved, Settled
  <1>2. \A j \in Leg : r.conn[j] = t.conn[j]
    BY Zero DEF Moves
  <1>3. /\ \A j \in Leg : j # k => r.ups[j] = t.ups[j]
        /\ k \in Leg => r.ups[k] = v
    BY DEF Moves
  <1>4. r.recs[k] = m /\ \A j \in Conns : j # k => r.recs[j] = t.recs[j]
    BY DEF Moves
  <1>5. c.req.leg = k /\ (k # 0 => k \in Leg)
    BY DEF ClientStep, Leg, Conns
  <1>6. \A j \in Leg : LegOver(r.conn[j], r.ups[j], c, j)
    <2> SUFFICES ASSUME NEW j \in Leg PROVE LegOver(r.conn[j], r.ups[j], c, j)
      OBVIOUS
    <2>1. LegOver(t.conn[j], t.ups[j], t.conn[0], j) /\ j # 0
      BY Zero DEF Settled
    <2>2. CASE j = k
      BY <1>2, <1>3, <1>5, <2>1, <2>2 DEF LegOver, ClientStep
    <2>3. CASE j # k
      BY <1>2, <1>3, <1>5, <2>1, <2>3 DEF LegOver
    <2> QED
      BY <2>2, <2>3
  <1>7. Told(r)
    <2>1. NoneCut(t) => NoneCut(r)
      BY <1>2 DEF NoneCut
    <2> QED
      BY <1>1, <1>5, <2>1 DEF Told, Settled, ClientStep
  <1>8. Tally(r)
    <2>1. CASE k = 0 /\ NotHedged(t)
      BY <1>1, <1>3, <1>4, <1>5, <2>1, Zero DEF Tally, NotHedged, ClientStep, ClientTally
    <2>2. CASE k = 0 /\ ~ NotHedged(t)
      <3>1. NoWinner(t)
        BY <2>2 DEF Settled, Tally, Won
      <3> QED
        BY <1>1, <1>3, <1>4, <1>5, <2>2, <3>1, Zero DEF Tally, NoWinner, ClientStep, ClientTally
    <2>3. CASE k # 0
      <3>1. Won(t)
        BY <2>3 DEF Settled, Tally, NoWinner, NotHedged
      <3> QED
        BY <1>1, <1>3, <1>4, <1>5, <2>3, <3>1, Zero DEF Tally, Won, ClientStep, ClientTally
    <2> QED
      BY <2>1, <2>2, <2>3
  <1>9. Holds(c, r.ups[c.up])
    BY <1>3, <1>5 DEF Holds, ClientStep
  <1> QED
    BY <1>1, <1>6, <1>7, <1>8, <1>9 DEF Settled, ClientStep

\* What a settled state already gives of a step of its client.
LEMMA StepStarts ==
  ASSUME NEW t, Settled(t)
  PROVE  LET c == t.conn[0]
             k == c.req.leg
         IN /\ t \in States /\ 0 \in Conns /\ k \in Conns /\ c \in ConnStates /\ c.req \in Reqs
            /\ c.up \in {0, k} /\ ClientStep(t, c, t.ups[k], t.recs[k], k)
            /\ (k # 0 => t.ups[k] \in Ups) /\ t.recs[k] \in Nat
  <1> DEFINE c == t.conn[0]
             k == c.req.leg
  <1>1. t \in States /\ 0 \in Conns /\ c \in ConnStates /\ c.req \in Reqs
    BY Zero, ConnIs, ReqIs DEF Settled
  <1>2. k \in Conns
    BY <1>1 DEF Reqs
  <1>3. k # 0 => k \in Leg /\ t.ups[k] \in Ups
    BY <1>1, <1>2, Zero DEF States
  <1>4. t.recs[k] \in Nat
    BY <1>1, <1>2 DEF States
  <1>5. c.up \in {0, k} /\ Holds(c, t.ups[k])
    BY DEF Settled, Holds
  <1>6. k # 0 => Quiet(t.ups[k]) \/ (c.open /\ c.up = k)
    BY <1>3 DEF Settled, LegOver
  <1>7. ClientTally(t, c, t.recs[k])
    <2>1. CASE k = 0
      BY <2>1 DEF Settled, Tally, NotHedged, NoWinner, Won, ClientTally
    <2>2. CASE k # 0
      <3>1. Won(t)
        BY <2>2 DEF Settled, Tally, NoWinner, NotHedged
      <3> QED
        BY <1>3, <2>2, <3>1 DEF Won, ClientTally
    <2> QED
      BY <2>1, <2>2
  <1>8. AllOf(c.out, k) /\ ((Clean(t.seen) /\ Clean(c.out)) \/ NoneCut(t)) /\ ClientOver(c)
    BY DEF Settled, Told
  <1>9. ClientStep(t, c, t.ups[k], t.recs[k], k)
    BY <1>5, <1>6, <1>7, <1>8 DEF ClientStep
  <1> QED
    BY <1>1, <1>2, <1>3, <1>4, <1>5, <1>9

\* A lost client is noted.
LEMMA LeftIs ==
  ASSUME NEW t, Settled(t)
  PROVE  Settled([t EXCEPT !.left = TRUE]) /\ [t EXCEPT !.left = TRUE].turn = t.turn
  <1> DEFINE r == [t EXCEPT !.left = TRUE]
  <1>1. t \in States
    BY DEF Settled
  <1>2. /\ r \in States /\ r.conn = t.conn /\ r.legs = t.legs /\ r.waiting = t.waiting /\ r.ups = t.ups
        /\ r.recs = t.recs /\ r.seen = t.seen /\ r.turn = t.turn
    BY <1>1 DEF States
  <1> HIDE DEF r
  <1>3. Told(r) /\ Tally(r)
    BY <1>2 DEF Settled, Told, NoneCut, Tally, NotHedged, NoWinner, Won
  <1> QED
    BY <1>2, <1>3 DEF Settled, r

\* What is left of a connection that is closed.
Gone(c) == Shut([c EXCEPT !.up = 0])
\* Its type and fields.
LEMMA GoneIs ==
  ASSUME NEW c \in ConnStates
  PROVE  /\ Gone(c) \in ConnStates /\ ~ Gone(c).open /\ Gone(c).out = <<>> /\ Gone(c).up = 0 /\ Gone(c).req = c.req
  <1>1. <<>> \in Seq(Items) /\ 0 \in Conns
    BY Zero
  <1> QED
    BY <1>1 DEF Gone, Shut, ConnStates

\* CloseClient after the record: the venue connection dropped, the connection shut.
Drop0(a) == [DropUp(a, 0) EXCEPT !.conn[0] = Shut(@)]
\* A closed client drops its venue connection.
LEMMA Shuts ==
  ASSUME NEW a \in States, NEW k \in Conns, a.conn[0].up \in {0, k}
  PROVE  Moves(a, Drop0(a), 0, k, Gone(a.conn[0]),
               IF a.conn[0].up = 0 THEN a.ups[k] ELSE [a.ups[k] EXCEPT !.st = "closed"], a.recs[k])
  <1> DEFINE c == a.conn[0]
             d == [c EXCEPT !.up = 0]
             v == IF c.up = 0 THEN a.ups[k] ELSE [a.ups[k] EXCEPT !.st = "closed"]
             b == DropUp(a, 0)
  <1>1. 0 \in Conns /\ c \in ConnStates
    BY Zero, ConnIs
  <1>2. Moves(a, b, 0, k, d, v, a.recs[k])
    BY <1>1, Drops
  <1>3. d \in ConnStates
    BY <1>1 DEF ConnStates
  <1>4. b \in States /\ b.conn[0] = d /\ (k \in Leg => b.ups[k] = v) /\ b.recs[k] = a.recs[k]
    BY <1>2 DEF Moves, Unmoved
  <1>5. Gone(c) \in ConnStates
    BY <1>1, GoneIs
  <1>6. Gone(c) = Shut(d)
    BY DEF Gone
  <1>7. Drop0(a) = [b EXCEPT !.conn[0] = Gone(c)]
    BY <1>4, <1>6 DEF Drop0
  <1> HIDE DEF b, d, v
  <1>8. Moves(b, [b EXCEPT !.conn[0] = Gone(c)], 0, k, Gone(c), b.ups[k], b.recs[k])
    BY <1>1, <1>4, <1>5, ConnMoves
  <1>9. Moves(a, [b EXCEPT !.conn[0] = Gone(c)], 0, k, Gone(c), b.ups[k], b.recs[k])
    BY <1>1, <1>2, <1>8, MovesOn
  <1> QED
    BY <1>4, <1>7, <1>9 DEF Moves, v

\* sink_unfinished of a settled race records at most the request no leg was made for.
LEMMA Unfinished ==
  ASSUME NEW t, Settled(t)
  PROVE  LET k == t.conn[0].req.leg
         IN \/ SinkUnfinished(t) = t
            \/ /\ k = 0 /\ NotHedged(t) /\ ~ t.conn[0].req.sunk
               /\ Moves(t, SinkUnfinished(t), 0, k, Sunk(t.conn[0]), t.ups[k], t.recs[k] + 1)
  <1> DEFINE k == t.conn[0].req.leg
  <1>1. CASE Hedged(t) \/ t.conn[0].req.sunk \/ t.conn[0].req.phase = "Idle"
    BY <1>1 DEF SinkUnfinished
  <1>2. CASE ~ (Hedged(t) \/ t.conn[0].req.sunk \/ t.conn[0].req.phase = "Idle")
    <2>1. SinkUnfinished(t) = SinkEmit(t, 0) /\ ~ t.conn[0].req.sunk /\ k = 0
      BY <1>2 DEF SinkUnfinished, Hedged
    <2>2. 1 \in Leg
      BY LegsAssumption DEF Leg
    <2>3. ~ (t.recs[1] > 0)
      BY <1>2, <2>2 DEF Hedged
    <2>4. NotHedged(t)
      BY <2>1, <2>2, <2>3 DEF Settled, Tally, NoWinner, Won
    <2>5. t \in States /\ 0 \in Conns
      BY Zero DEF Settled
    <2>6. Moves(t, SinkEmit(t, 0), 0, 0, Sunk(t.conn[0]), t.ups[0], t.recs[0] + 1)
      BY <2>1, <2>5, Sinks
    <2> QED
      BY <2>1, <2>4, <2>6
  <1> QED
    BY <1>1, <1>2

\* What close leaves of a settled race is settled.
LEMMA ClosesOn ==
  ASSUME NEW t, Settled(t), NEW a, NEW k \in Conns, NEW c \in ConnStates, NEW w, NEW m, t.conn[0].req.leg = k,
         Moves(t, a, 0, k, c, w, m), c.up \in {0, k}, c.req.leg = k, ClientTally(t, c, m),
         k # 0 => w \in Ups /\ (c.up = 0 => Quiet(w))
  PROVE  Settled(Drop0(a)) /\ Drop0(a).turn = t.turn
  <1> DEFINE g == Gone(c)
             v == IF c.up = 0 THEN w ELSE [w EXCEPT !.st = "closed"]
  <1>1. ClientStep(t, t.conn[0], t.ups[k], t.recs[k], k)
    BY StepStarts
  <1>2. a \in States /\ a.conn[0] = c /\ (k # 0 => a.ups[k] = w) /\ a.recs[k] = m
    BY Zero DEF Moves, Unmoved
  <1>3. Moves(a, Drop0(a), 0, k, g, IF c.up = 0 THEN a.ups[k] ELSE [a.ups[k] EXCEPT !.st = "closed"], m)
    BY <1>2, Shuts
  <1>4. g.req = c.req /\ ~ g.open /\ g.out = <<>> /\ g.up = 0
    BY GoneIs
  <1> HIDE DEF g
  <1>5. Moves(a, Drop0(a), 0, k, g, v, m)
    BY <1>2, <1>3, Zero DEF Moves
  <1>6. Moves(t, Drop0(a), 0, k, g, v, m)
    BY <1>5, MovesOn, Zero
  <1>7. k # 0 => Quiet(v)
    BY DEF Quiet, Ups
  <1>8. ClientStep(t, g, v, m, k)
    <2>1. AllOf(<<>>, k) /\ Clean(<<>>)
      BY Empties
    <2>2. ClientTally(t, g, m)
      BY <1>4 DEF ClientTally, Recorded
    <2>3. ClientOver(g) /\ Holds(g, v)
      BY <1>4 DEF ClientOver, Holds
    <2>4. Clean(t.seen) \/ NoneCut(t)
      BY <1>1 DEF ClientStep
    <2> QED
      BY <1>4, <1>7, <2>1, <2>2, <2>3, <2>4 DEF ClientStep
  <1> QED
    BY <1>6, <1>8, SettledOn

\* Closing after the record is made adds none.
LEMMA ClosesSunk ==
  ASSUME NEW t, Settled(t), NEW a, NEW k \in Conns, NEW c \in ConnStates, NEW w, NEW m, t.conn[0].req.leg = k,
         Moves(t, a, 0, k, c, w, m), c.up \in {0, k}, c.req.leg = k, ClientTally(t, c, m),
         k # 0 => w \in Ups /\ (c.up = 0 => Quiet(w)), c.open, c.req.sunk
  PROVE  Settled(CloseClient(a)) /\ CloseClient(a).turn = t.turn
  <1>1. a.conn[0] = c /\ ~ a.waiting
    BY DEF Moves, Unmoved, Settled
  <1>2. SinkUnfinished(a) = a
    BY <1>1 DEF SinkUnfinished
  <1>3. CloseClient(a) = Drop0(a)
    BY <1>1, <1>2 DEF CloseClient, Drop0
  <1> QED
    BY <1>3, ClosesOn

\* close_client of a settled race.
LEMMA Closes ==
  ASSUME NEW t, Settled(t)
  PROVE  Settled(CloseClient(t)) /\ CloseClient(t).turn = t.turn
  <1> DEFINE k == t.conn[0].req.leg
             c == t.conn[0]
  <1>1. CASE ~ t.conn[0].open
    BY <1>1 DEF CloseClient
  <1>2. CASE t.conn[0].open
    <2>1. CloseClient(t) = Drop0(SinkUnfinished(t))
      BY <1>2 DEF CloseClient, Drop0, Settled
    <2>2. /\ t \in States /\ 0 \in Conns /\ k \in Conns /\ c \in ConnStates /\ c.req \in Reqs
          /\ ClientStep(t, c, t.ups[k], t.recs[k], k)
      BY StepStarts
    <2>3. ClientTally(t, c, t.recs[k])
      BY <2>2 DEF ClientStep
    <2>6. c.up \in {0, k} /\ (k # 0 => t.ups[k] \in Ups /\ (c.up = 0 => Quiet(t.ups[k])))
      BY StepStarts DEF ClientStep
    <2>4. CASE SinkUnfinished(t) = t
      <3>1. Moves(t, t, 0, k, c, t.ups[k], t.recs[k])
        BY <2>2 DEF Moves, Unmoved
      <3> HIDE DEF k
      <3>2. Settled(Drop0(t)) /\ Drop0(t).turn = t.turn
        BY <2>2, <2>3, <2>6, <3>1, ClosesOn DEF k
      <3> QED
        BY <2>1, <2>4, <3>2
    <2>5. CASE /\ k = 0 /\ NotHedged(t) /\ ~ c.req.sunk
               /\ Moves(t, SinkUnfinished(t), 0, k, Sunk(c), t.ups[k], t.recs[k] + 1)
      <3> DEFINE d == Sunk(c)
                 a == SinkUnfinished(t)
                 m == t.recs[k] + 1
      <3>1. d \in ConnStates
        BY <2>2, SunkIs
      <3>2. d.up = c.up /\ d.req.leg = k /\ d.req.phase = c.req.phase /\ d.req.sunk
        BY <2>2 DEF Sunk, ConnStates, Reqs
      <3>3. m = 1
        BY <2>5 DEF NotHedged, Recorded
      <3>4. Moves(t, a, 0, k, d, t.ups[k], m)
        BY <2>5
      <3> HIDE DEF d, a, m
      <3>5. ClientTally(t, d, m)
        BY <2>5, <3>2, <3>3 DEF ClientTally, Recorded
      <3>6. Settled(Drop0(a)) /\ Drop0(a).turn = t.turn
        BY <2>2, <2>5, <2>6, <3>1, <3>2, <3>4, <3>5, ClosesOn
      <3> QED
        BY <2>1, <3>6 DEF a
    <2> QED
      BY <2>4, <2>5, Unfinished
  <1> QED
    BY <1>1, <1>2

\* abort_client of a settled race.
LEMMA Aborts ==
  ASSUME NEW t, Settled(t)
  PROVE  Settled(AbortClient(t)) /\ AbortClient(t).turn = t.turn
  BY Closes, LeftIs DEF AbortClient

\* The client of a race that leaves it: every leg is cut.
LEMMA Leaves ==
  ASSUME NEW t, Racing(t, Legs + 1)
  PROVE  Settled(CloseClient(t)) /\ CloseClient(t).turn = t.turn
  <1> DEFINE b == Drop0(t)
             z == Settle(b)
             c == t.conn[0]
             g == Gone(c)
  <1>1. t \in States /\ 0 \in Conns /\ c \in ConnStates /\ t.legs \subseteq Leg
    BY Zero, ConnIs DEF Racing, States
  <1>2. /\ t.waiting /\ c.open /\ c.up = 0 /\ c.req.leg = 0 /\ ~ c.req.sunk /\ t.recs[0] = 0 /\ t.seen = <<>>
        /\ c.req.phase = "Dispatched"
    BY DEF Racing, ClientWaits, NewReq
  <1>3. CloseClient(t) = z
    BY <1>2 DEF CloseClient, SinkUnfinished, Hedged, Drop0
  <1>4. Moves(t, b, 0, 0, g, t.ups[0], t.recs[0])
    BY <1>1, <1>2, Shuts
  <1>5. g.req = c.req /\ ~ g.open /\ g.out = <<>> /\ g.up = 0
    BY <1>1, GoneIs
  <1> HIDE DEF b, g
  <1>6. /\ b \in States /\ b.legs = t.legs /\ b.seen = <<>> /\ b.turn = t.turn /\ b.conn[0] = g /\ b.recs[0] = 0
        /\ \A j \in Leg : b.conn[j] = t.conn[j] /\ b.ups[j] = t.ups[j] /\ b.recs[j] = t.recs[j]
    BY <1>2, <1>4, Zero DEF Moves, Unmoved
  <1>7. \A j \in Leg : j < Legs + 1
    BY LegsAssumption DEF Leg
  <1>8. \A j \in b.legs : LegRuns(b.conn[j], b.ups[j], b.recs[j], j)
    BY <1>1, <1>6, <1>7 DEF Racing, LegStatus, LegIn
  <1>9. Settles(b, z)
    BY <1>6, <1>8, SettlesAll
  <1> HIDE DEF z
  <1>10. /\ z \in States /\ ~ z.waiting /\ z.legs = {} /\ z.seen = <<>> /\ z.turn = t.turn /\ z.conn[0] = g
         /\ z.recs[0] = 0
         /\ \A j \in Leg : IF j \in b.legs THEN LegCut(z.conn[j], z.ups[j], z.recs[j])
                           ELSE z.conn[j] = b.conn[j] /\ z.recs[j] = b.recs[j] /\ z.ups[j] = b.ups[j]
    BY <1>6, <1>9 DEF Settles
  <1>11. \A j \in Leg : j \notin b.legs => LegGone(z.conn[j], z.ups[j], z.recs[j])
    BY <1>6, <1>10 DEF Racing, LegStatus
  <1>12. \A j \in Leg : LegOver(z.conn[j], z.ups[j], g, j)
    BY <1>2, <1>5, <1>10, <1>11, Zero DEF LegOver, LegCut, LegGone, Quiet
  <1>13. \A j \in Leg : z.recs[j] = 1
    BY <1>10, <1>11 DEF LegCut, LegGone
  <1>14. NoWinner(z)
    BY <1>2, <1>5, <1>10, <1>13 DEF NoWinner
  <1>15. Told(z)
    <2>1. AllOf(<<>>, 0) /\ Clean(<<>>)
      BY Empties
    <2> QED
      BY <1>2, <1>5, <1>10, <2>1 DEF Told
  <1>16. ClientOver(g) /\ Holds(g, z.ups[g.up])
    BY <1>5 DEF ClientOver, Holds
  <1> QED
    BY <1>3, <1>10, <1>12, <1>14, <1>15, <1>16 DEF Settled, Tally

\* A connection whose bytes the kernel took.
LEMMA WroteIs ==
  ASSUME NEW c \in ConnStates
  PROVE  LET d == Wrote(c)
         IN /\ d \in ConnStates /\ d.out = <<>> /\ ~ d.owes /\ d.req = c.req /\ d.up = c.up /\ d.open = c.open
            /\ d.closing = c.closing /\ d.of = c.of
  <1>1. <<>> \in Seq(Items)
    OBVIOUS
  <1> QED
    BY <1>1 DEF Wrote, ConnStates

\* What is staged reaches the client.
LEMMA Sends ==
  ASSUME NEW t, Settled(t)
  PROVE  LET d == SendDone(t)
         IN /\ Settled(d) /\ d.turn = t.turn /\ d.conn[0].out = <<>> /\ ~ d.conn[0].owes
            /\ d.conn[0].req = t.conn[0].req /\ d.conn[0].up = t.conn[0].up /\ d.conn[0].open = t.conn[0].open
            /\ d.conn[0].closing = t.conn[0].closing
  <1> DEFINE c == t.conn[0]
             k == c.req.leg
             q == t.seen \o c.out
             d == Wrote(c)
             r == SendDone(t)
  <1>1. t \in States /\ 0 \in Conns /\ c \in ConnStates /\ t.seen \in Seq(Items) /\ c.out \in Seq(Items)
    BY Zero, ConnIs DEF Settled, States, ConnStates
  <1>2. /\ d \in ConnStates /\ d.out = <<>> /\ ~ d.owes /\ d.req = c.req /\ d.up = c.up /\ d.open = c.open
        /\ d.closing = c.closing
    BY <1>1, WroteIs
  <1>3. AllOf(t.seen, k) /\ AllOf(c.out, k) /\ ((Clean(t.seen) /\ Clean(c.out)) \/ NoneCut(t))
    BY DEF Settled, Told
  <1>4. q \in Seq(Items) /\ AllOf(q, k) /\ (Clean(t.seen) /\ Clean(c.out) => Clean(q))
    BY <1>1, <1>3, Joins
  <1> DEFINE C == [t.conn EXCEPT ![0] = d]
  <1>5. r = [t EXCEPT !.seen = q, !.conn = C]
    BY DEF SendDone
  <1>5a. d \in ConnStates /\ q \in Seq(Items)
    BY <1>2, <1>4
  <1> HIDE DEF d, q
  <1>5b. C \in [Conns -> ConnStates] /\ C[0] = d /\ \A j \in Leg : C[j] = t.conn[j]
    BY <1>1, <1>5a, Zero DEF States
  <1> HIDE DEF C
  <1>6. /\ r \in States /\ r.seen = q /\ r.conn[0] = d /\ r.turn = t.turn /\ r.waiting = t.waiting /\ r.legs = t.legs
        /\ r.ups = t.ups /\ r.recs = t.recs /\ \A j \in Leg : r.conn[j] = t.conn[j]
    BY <1>1, <1>5, <1>5a, <1>5b DEF States
  <1> HIDE DEF r
  <1>7. \A j \in Leg : LegOver(r.conn[j], r.ups[j], d, j)
    BY <1>2, <1>6 DEF Settled, LegOver
  <1>8. Told(r)
    <2>1. AllOf(<<>>, k) /\ Clean(<<>>)
      BY Empties
    <2>2. NoneCut(t) => NoneCut(r)
      BY <1>6 DEF NoneCut
    <2> QED
      BY <1>2, <1>3, <1>4, <1>6, <2>1, <2>2 DEF Told
  <1>9. Tally(r)
    BY <1>2, <1>6 DEF Settled, Tally, NotHedged, NoWinner, Won
  <1>10. ClientOver(d) /\ Holds(d, r.ups[d.up])
    BY <1>2, <1>6 DEF Settled, ClientOver, Holds
  <1> QED
    BY <1>2, <1>6, <1>7, <1>8, <1>9, <1>10 DEF Settled, r

\* A connection whose request is over.
Idled(c) == [c EXCEPT !.req = [c.req EXCEPT !.phase = "Idle"]]
\* Its fields.
LEMMA IdledIs ==
  ASSUME NEW c \in ConnStates
  PROVE  LET d == Idled(c)
         IN /\ d \in ConnStates /\ d.open = c.open /\ d.out = c.out /\ d.owes = c.owes /\ d.up = c.up
            /\ d.closing = c.closing /\ d.of = c.of
            /\ d.req.phase = "Idle" /\ d.req.leg = c.req.leg /\ d.req.sunk = c.req.sunk /\ d.req.cut = c.req.cut
            /\ d.req.failed = c.req.failed /\ d.req.streaming = c.req.streaming
  <1> DEFINE f == [c.req EXCEPT !.phase = "Idle"]
  <1>1. /\ f \in Reqs /\ f.phase = "Idle" /\ f.leg = c.req.leg /\ f.sunk = c.req.sunk /\ f.cut = c.req.cut
        /\ f.failed = c.req.failed /\ f.streaming = c.req.streaming
    BY ReqIs DEF Reqs, Phases
  <1> HIDE DEF f
  <1> QED
    BY <1>1 DEF Idled, ConnStates, f

\* A record changes nothing else of the connection.
LEMMA SunkSame ==
  ASSUME NEW c \in ConnStates
  PROVE  LET d == Sunk(c)
         IN /\ d \in ConnStates /\ d.open = c.open /\ d.out = c.out /\ d.owes = c.owes /\ d.up = c.up
            /\ d.closing = c.closing /\ d.of = c.of
            /\ d.req.phase = c.req.phase /\ d.req.leg = c.req.leg /\ d.req.sunk /\ d.req.cut = c.req.cut
            /\ d.req.failed = c.req.failed /\ d.req.streaming = c.req.streaming
  <1> DEFINE f == [c.req EXCEPT !.sunk = TRUE]
  <1>1. /\ f \in Reqs /\ f.phase = c.req.phase /\ f.leg = c.req.leg /\ f.sunk /\ f.cut = c.req.cut
        /\ f.failed = c.req.failed /\ f.streaming = c.req.streaming
    BY ReqIs DEF Reqs
  <1> HIDE DEF f
  <1> QED
    BY <1>1 DEF Sunk, ConnStates, f

\* The record of the client's request, if it had none.
LEMMA TallySunk ==
  ASSUME NEW t, Settled(t), NEW c, t.conn[0].open, c.req.leg = t.conn[0].req.leg, c.req.sunk
  PROVE  ClientTally(t, c, IF t.conn[0].req.sunk THEN t.recs[c.req.leg] ELSE t.recs[c.req.leg] + 1)
  <1>1. ClientTally(t, t.conn[0], t.recs[c.req.leg])
    BY StepStarts DEF ClientStep
  <1>2. t.recs[c.req.leg] \in Nat
    BY StepStarts
  <1> QED
    BY <1>1, <1>2 DEF ClientTally, Recorded

\* finish_response records the winner's request, and closes a connection that is to close.
LEMMA Finishes ==
  ASSUME NEW t, Settled(t), t.conn[0].open, t.conn[0].req.phase = "Replying", t.conn[0].out = <<>>, ~ t.conn[0].owes
  PROVE  Settled(FinishClient(t)) /\ FinishClient(t).turn = t.turn
  <1> DEFINE c == t.conn[0]
             k == c.req.leg
             a == SinkUnlessSunk(t, 0)
             e == Sunk(c)
             d == Idled(e)
             m == IF c.req.sunk THEN t.recs[k] ELSE t.recs[k] + 1
             b == [a EXCEPT !.conn[0] = d]
  <1>1. /\ t \in States /\ 0 \in Conns /\ k \in Conns /\ c \in ConnStates
        /\ ClientStep(t, c, t.ups[k], t.recs[k], k) /\ (k # 0 => t.ups[k] \in Ups)
    BY StepStarts
  <1>2. c.up = 0 /\ ~ c.req.streaming
    BY <1>1 DEF ClientStep, ClientOver, Holds, Modes
  <1>3. Moves(t, a, 0, k, e, t.ups[k], m)
    BY <1>1, SinksOnce
  <1>4. /\ e \in ConnStates /\ e.open /\ e.out = <<>> /\ ~ e.owes /\ e.up = 0 /\ e.closing = c.closing
        /\ e.req.leg = k /\ e.req.sunk /\ ~ e.req.streaming
    BY <1>1, <1>2, SunkSame
  <1> HIDE DEF e
  <1>5. /\ d \in ConnStates /\ d.open /\ d.out = <<>> /\ ~ d.owes /\ d.up = 0 /\ d.closing = c.closing
        /\ d.req.leg = k /\ d.req.sunk /\ d.req.phase = "Idle" /\ ~ d.req.streaming
    BY <1>4, IdledIs
  <1>6. a \in States /\ a.conn[0] = e /\ (k \in Leg => a.ups[k] = t.ups[k]) /\ a.recs[k] = m
    BY <1>3 DEF Moves, Unmoved
  <1> HIDE DEF a
  <1>7. [a EXCEPT !.conn[0].req.phase = "Idle"] = b
    BY <1>6 DEF Idled
  <1>8. ClientTally(t, d, m)
    BY <1>5, TallySunk
  <1> HIDE DEF m, d
  <1>9. Moves(t, b, 0, k, d, t.ups[k], m)
    <2>1. Moves(a, b, 0, k, d, a.ups[k], m)
      BY <1>1, <1>5, <1>6, ConnMoves
    <2>2. Moves(a, b, 0, k, d, t.ups[k], m)
      BY <1>6, <2>1 DEF Moves
    <2>3. 0 \in Conns /\ k \in Conns
      BY <1>1
    <2> HIDE DEF k
    <2> QED
      BY <1>3, <2>2, <2>3, MovesOn
  <1> HIDE DEF b
  <1>10. k # 0 => Quiet(t.ups[k])
    BY <1>1, <1>2 DEF ClientStep
  <1>11. CASE c.closing
    <2>1. FinishClient(t) = CloseClient(b)
      BY <1>7, <1>11 DEF FinishClient, a
    <2> QED
      BY <1>1, <1>5, <1>8, <1>9, <1>10, <2>1, ClosesSunk
  <1>12. CASE ~ c.closing
    <2>1. FinishClient(t) = b
      BY <1>7, <1>12 DEF FinishClient, a
    <2>2. ClientStep(t, d, t.ups[k], m, k)
      <3>1. AllOf(<<>>, k) /\ Clean(<<>>)
        BY Empties
      <3>2. ClientOver(d) /\ Holds(d, t.ups[k])
        BY <1>5, <1>12 DEF ClientOver, Holds, Modes
      <3> QED
        BY <1>1, <1>5, <1>8, <1>10, <3>1, <3>2 DEF ClientStep
    <2>3. t.conn[0].req.leg = k
      OBVIOUS
    <2> HIDE DEF k
    <2> QED
      BY <1>1, <1>9, <2>1, <2>2, <2>3, SettledOn
  <1> QED
    BY <1>11, <1>12

\* A reply on its way to the client of a settled race.
LEMMA RespondsClient ==
  ASSUME NEW t, Settled(t), t.conn[0].open, t.conn[0].req.phase = "Replying", NEW r \in RespondClient(t)
  PROVE  Settled(r) /\ r.turn = t.turn
  <1> DEFINE d == SendDone(t)
  <1>1. r \in {FinishClient(d), t, AbortClient(t)}
    BY DEF RespondClient, Then
  <1>2. /\ Settled(d) /\ d.turn = t.turn /\ d.conn[0].out = <<>> /\ ~ d.conn[0].owes
        /\ d.conn[0].req.phase = "Replying" /\ d.conn[0].open
    BY Sends
  <1> HIDE DEF d
  <1>3. Settled(FinishClient(d)) /\ FinishClient(d).turn = t.turn
    BY <1>2, Finishes
  <1> QED
    BY <1>1, <1>3, Aborts

\* A request with no reply begun: refused before a leg was made, or with no leg left.
Bare(t) ==
  /\ t \in States /\ ~ t.waiting /\ t.legs = {} /\ t.seen = <<>>
  /\ \A j \in Leg : ~ t.conn[j].open /\ ~ t.conn[j].req.cut /\ Quiet(t.ups[j])
  /\ NotHedged(t) \/ NoWinner(t)
  /\ t.conn[0].open /\ t.conn[0].req.leg = 0 /\ t.conn[0].req.phase \in {"Idle", "Dispatched"}
  /\ t.conn[0].out = <<>> /\ ~ t.conn[0].owes /\ t.conn[0].up = 0 /\ ~ t.conn[0].req.streaming

\* A connection whose request gets the gateway's own reply.
Staged(d, k, kind) == [d EXCEPT !.out = Append(d.out, Item(k, kind)), !.owes = TRUE]
Failing(c) == Owning(Staged([c EXCEPT !.up = 0], c.req.leg, "own"))

\* What staging leaves of a connection.
LEMMA StagedIs ==
  ASSUME NEW d \in ConnStates, NEW k \in Conns, NEW kind \in Kinds
  PROVE  LET e == Staged(d, k, kind)
         IN /\ e \in ConnStates /\ e.open = d.open /\ e.out = Append(d.out, Item(k, kind)) /\ e.owes /\ e.up = d.up
            /\ e.closing = d.closing /\ e.of = d.of /\ e.req = d.req
  <1>1. Append(d.out, Item(k, kind)) \in Seq(Items)
    BY ItemIs DEF ConnStates
  <1> QED
    BY <1>1 DEF Staged, ConnStates

\* What our own reply leaves of a connection.
LEMMA OwningIs ==
  ASSUME NEW e \in ConnStates
  PROVE  LET d == Owning(e)
         IN /\ d \in ConnStates /\ d.open = e.open /\ d.out = e.out /\ d.owes = e.owes /\ d.up = e.up /\ d.of = e.of
            /\ d.req.phase = "Replying" /\ d.req.failed /\ d.req.leg = e.req.leg /\ d.req.sunk = e.req.sunk
            /\ d.req.cut = e.req.cut /\ d.req.streaming = e.req.streaming
  <1> DEFINE f == [e.req EXCEPT !.phase = "Replying"]
             g == [f EXCEPT !.failed = TRUE]
             h == [e EXCEPT !.req = f]
             i == [h EXCEPT !.req = g]
  <1>1. /\ f \in Reqs /\ f.phase = "Replying" /\ f.leg = e.req.leg /\ f.sunk = e.req.sunk
        /\ f.cut = e.req.cut /\ f.streaming = e.req.streaming
    BY ReqIs DEF Reqs, Phases
  <1> HIDE DEF f
  <1>2. /\ g \in Reqs /\ g.phase = "Replying" /\ g.failed /\ g.leg = e.req.leg /\ g.sunk = e.req.sunk
        /\ g.cut = e.req.cut /\ g.streaming = e.req.streaming
    BY <1>1 DEF Reqs
  <1>3. /\ h \in ConnStates /\ h.open = e.open /\ h.out = e.out /\ h.owes = e.owes /\ h.up = e.up /\ h.of = e.of
        /\ h.req = f
    BY <1>1 DEF ConnStates
  <1>4. Owning(e) = [[h EXCEPT !.req.failed = TRUE] EXCEPT !.closing = TRUE]
    BY DEF Owning, f
  <1> HIDE DEF h
  <1>5. [h EXCEPT !.req.failed = TRUE] = i
    BY <1>3
  <1> HIDE DEF g
  <1>6. /\ i \in ConnStates /\ i.open = e.open /\ i.out = e.out /\ i.owes = e.owes /\ i.up = e.up /\ i.of = e.of
        /\ i.req = g
    BY <1>2, <1>3 DEF ConnStates
  <1> HIDE DEF i
  <1>7. Owning(e) = [i EXCEPT !.closing = TRUE]
    BY <1>4, <1>5
  <1> DEFINE d == [i EXCEPT !.closing = TRUE]
  <1>8. /\ d \in ConnStates /\ d.open = e.open /\ d.out = e.out /\ d.owes = e.owes /\ d.up = e.up /\ d.of = e.of
        /\ d.req = g
    BY <1>6 DEF ConnStates
  <1> QED
    BY <1>2, <1>7, <1>8

\* A connection with our own reply staged and its venue dropped.
LEMMA FailingIs ==
  ASSUME NEW c \in ConnStates
  PROVE  LET d == Failing(c)
         IN /\ d \in ConnStates /\ d.open = c.open /\ d.out = Append(c.out, Item(c.req.leg, "own")) /\ d.up = 0
            /\ d.of = c.of
            /\ d.req.phase = "Replying" /\ d.req.failed /\ d.req.leg = c.req.leg /\ d.req.sunk = c.req.sunk
            /\ d.req.cut = c.req.cut /\ d.req.streaming = c.req.streaming
  <1> DEFINE b == [c EXCEPT !.up = 0]
             k == c.req.leg
             e == Staged(b, k, "own")
  <1>1. b \in ConnStates /\ b.open = c.open /\ b.out = c.out /\ b.of = c.of /\ b.req = c.req /\ b.up = 0
    BY Zero DEF ConnStates
  <1>2. k \in Conns /\ "own" \in Kinds
    BY ReqIs DEF Reqs, Kinds
  <1> HIDE DEF b, k
  <1>3. /\ e \in ConnStates /\ e.open = c.open /\ e.out = Append(c.out, Item(k, "own")) /\ e.up = 0
        /\ e.of = c.of /\ e.req = c.req
    BY <1>1, <1>2, StagedIs
  <1> HIDE DEF e
  <1>4. Failing(c) = Owning(e)
    BY DEF Failing, b, e, k
  <1> QED
    BY <1>3, <1>4, OwningIs DEF k

\* error_respond up to its send.
LEMMA RepliesOwn ==
  ASSUME NEW t \in States, NEW i \in Conns, NEW k \in Conns, t.conn[i].req.leg = k, t.conn[i].up \in {0, k}
  PROVE  Moves(t, ReplyOwn(t, i), i, k, Failing(t.conn[i]),
               IF t.conn[i].up = 0 THEN t.ups[k] ELSE [t.ups[k] EXCEPT !.st = "closed"], t.recs[k])
  <1> DEFINE c == t.conn[i]
             d == [c EXCEPT !.up = 0]
             a == DropUp(t, i)
             e == Staged(d, k, "own")
             b == Stage(a, i, "own")
             v == IF t.conn[i].up = 0 THEN t.ups[k] ELSE [t.ups[k] EXCEPT !.st = "closed"]
             z == [b EXCEPT !.conn[i] = Failing(c)]
  <1>0. c \in ConnStates /\ c.req \in Reqs
    BY ConnIs, ReqIs
  <1>1. Moves(t, a, i, k, d, v, t.recs[k])
    BY Drops
  <1>2. a \in States /\ a.conn[i] = d /\ (k \in Leg => a.ups[k] = v) /\ a.recs[k] = t.recs[k]
    BY <1>1 DEF Moves, Unmoved
  <1>3. d.req.leg = k /\ d \in ConnStates /\ d.req = c.req /\ d.out = c.out
    BY <1>0, Zero DEF ConnStates
  <1> HIDE DEF a, v, d
  <1>4. Moves(a, b, i, k, e, a.ups[k], t.recs[k])
    BY <1>2, <1>3, Stages DEF Kinds, Staged
  <1>5. b \in States /\ b.conn[i] = e /\ (k \in Leg => b.ups[k] = v) /\ b.recs[k] = t.recs[k]
    BY <1>2, <1>4 DEF Moves, Unmoved
  <1> HIDE DEF b
  <1>6. [b EXCEPT !.conn[i] = Owning(b.conn[i])] = z
    <2>1. Failing(c) = Owning(e)
      BY <1>0 DEF Failing, d
    <2> HIDE DEF e
    <2> QED
      BY <1>5, <2>1
  <1>7. Failing(c) \in ConnStates
    BY <1>0, FailingIs
  <1> HIDE DEF e
  <1>8. Moves(b, z, i, k, Failing(c), b.ups[k], t.recs[k])
    BY <1>5, <1>7, ConnMoves
  <1> HIDE DEF z
  <1>9. Moves(b, z, i, k, Failing(c), v, t.recs[k]) /\ Moves(a, b, i, k, e, v, t.recs[k])
    BY <1>2, <1>4, <1>5, <1>8 DEF Moves
  <1>10. Moves(t, z, i, k, Failing(c), v, t.recs[k])
    BY <1>1, <1>9, MovesOn
  <1> QED
    BY <1>6, <1>10 DEF ReplyOwn, a, b, v

\* The gateway's own reply settles a request with no leg.
LEMMA ErrorsBare ==
  ASSUME NEW t, Bare(t), NEW r \in ErrorRespondClient(t)
  PROVE  Settled(r) /\ r.turn = t.turn
  <1> DEFINE c == t.conn[0]
             d == Failing(c)
             b == ReplyOwn(t, 0)
  <1>1. t \in States /\ 0 \in Conns /\ c \in ConnStates
    BY Zero, ConnIs DEF Bare
  <1>2. r \in RespondClient(b)
    BY DEF ErrorRespondClient, Begun, Bare, Then
  <1>3. Moves(t, b, 0, 0, d, t.ups[0], t.recs[0])
    BY <1>1, RepliesOwn DEF Bare
  <1>4. /\ d.open /\ d.out = Append(<<>>, Item(0, "own")) /\ d.up = 0 /\ d.req.phase = "Replying" /\ d.req.leg = 0
        /\ d.req.sunk = c.req.sunk /\ ~ d.req.streaming
    BY <1>1, FailingIs DEF Bare
  <1> HIDE DEF d, b
  <1>5. /\ b \in States /\ ~ b.waiting /\ b.legs = {} /\ b.seen = <<>> /\ b.turn = t.turn /\ b.conn[0] = d
        /\ b.recs[0] = t.recs[0]
        /\ \A j \in Leg : b.conn[j] = t.conn[j] /\ b.ups[j] = t.ups[j] /\ b.recs[j] = t.recs[j]
    BY <1>3, Zero DEF Moves, Unmoved, Bare
  <1>6. \A j \in Leg : LegOver(b.conn[j], b.ups[j], d, j)
    BY <1>4, <1>5, Zero DEF LegOver, Bare
  <1>7. Told(b)
    <2>1. AllOf(<<>>, 0)
      BY Empties
    <2>2. <<>> \in Seq(Items) /\ "own" \in Kinds
      BY DEF Kinds
    <2>3. AllOf(Append(<<>>, Item(0, "own")), 0)
      BY <1>1, <2>1, <2>2, AllOfs
    <2>4. NoneCut(b)
      BY <1>5 DEF Bare, NoneCut
    <2> QED
      BY <1>4, <1>5, <2>1, <2>3, <2>4 DEF Told
  <1>8. Tally(b)
    <2>1. CASE NotHedged(t)
      BY <1>4, <1>5, <2>1 DEF Tally, NotHedged, Recorded
    <2>2. CASE NoWinner(t)
      BY <1>4, <1>5, <2>2 DEF Tally, NoWinner, Bare
    <2> QED
      BY <2>1, <2>2 DEF Bare
  <1>9. ClientOver(d) /\ Holds(d, b.ups[d.up])
    BY <1>4 DEF ClientOver, Holds, Modes
  <1>10. Settled(b)
    BY <1>5, <1>6, <1>7, <1>8, <1>9 DEF Settled
  <1> QED
    BY <1>2, <1>4, <1>5, <1>10, RespondsClient

\* An error after a reply was begun closes the client.
LEMMA ErrorsSettled ==
  ASSUME NEW t, Settled(t), t.conn[0].req.phase # "Idle", NEW r \in ErrorRespondClient(t)
  PROVE  Settled(r) /\ r.turn = t.turn
  <1>1. t.conn[0].open => Begun(t, 0)
    BY DEF Begun, Settled, ClientOver
  <1>2. r \in {t, AbortClient(t)}
    BY <1>1 DEF ErrorRespondClient
  <1> QED
    BY <1>2, Aborts

\* A connection whose stream was recorded.
LEMMA StreamOverIs ==
  ASSUME NEW c \in ConnStates
  PROVE  LET d == StreamOver(c)
         IN /\ d \in ConnStates /\ d.open = c.open /\ d.out = c.out /\ d.owes = c.owes /\ d.up = c.up
            /\ d.closing = c.closing
            /\ d.req.phase = "Idle" /\ ~ d.req.streaming /\ d.req.leg = c.req.leg /\ d.req.sunk = c.req.sunk
  <1> DEFINE f == [c.req EXCEPT !.phase = "Idle"]
             g == [f EXCEPT !.streaming = FALSE]
             h == [c EXCEPT !.req = f]
             d == [h EXCEPT !.req = g]
  <1>1. f \in Reqs /\ f.phase = "Idle" /\ f.leg = c.req.leg /\ f.sunk = c.req.sunk
    BY ReqIs DEF Reqs, Phases
  <1> HIDE DEF f
  <1>2. g \in Reqs /\ g.phase = "Idle" /\ ~ g.streaming /\ g.leg = c.req.leg /\ g.sunk = c.req.sunk
    BY <1>1 DEF Reqs
  <1>3. /\ h \in ConnStates /\ h.open = c.open /\ h.out = c.out /\ h.owes = c.owes /\ h.up = c.up
        /\ h.closing = c.closing /\ h.req = f
    BY <1>1 DEF ConnStates
  <1>4. StreamOver(c) = [h EXCEPT !.req.streaming = FALSE]
    BY DEF StreamOver, f
  <1> HIDE DEF h
  <1>5. [h EXCEPT !.req.streaming = FALSE] = d
    BY <1>3
  <1> HIDE DEF g
  <1>6. /\ d \in ConnStates /\ d.open = c.open /\ d.out = c.out /\ d.owes = c.owes /\ d.up = c.up
        /\ d.closing = c.closing /\ d.req = g
    BY <1>2, <1>3 DEF ConnStates
  <1> QED
    BY <1>2, <1>4, <1>5, <1>6

\* finalize_stream of the client's own connection.
LEMMA FinalizesClient ==
  ASSUME NEW t, Settled(t), t.conn[0].open, t.conn[0].req.phase = "Streaming", t.conn[0].out = <<>>, ~ t.conn[0].owes,
         NEW r \in Finalize(t, 0)
  PROVE  Settled(r) /\ r.turn = t.turn
  <1> DEFINE c == t.conn[0]
             k == c.req.leg
  <1>1. /\ t \in States /\ 0 \in Conns /\ k \in Conns /\ c \in ConnStates /\ c.up \in {0, k}
        /\ ClientStep(t, c, t.ups[k], t.recs[k], k) /\ (k # 0 => t.ups[k] \in Ups)
    BY StepStarts
  <1>2. PICK keep \in BOOLEAN : r \in Finalized(SinkUnlessSunk(Released(t, 0, keep), 0), 0)
    BY DEF Finalize, Then
  <1> DEFINE a == Released(t, 0, keep)
             b == SinkUnlessSunk(a, 0)
             d == [c EXCEPT !.up = 0]
             e == Sunk(d)
             m == IF c.req.sunk THEN t.recs[k] ELSE t.recs[k] + 1
  <1>3. d \in ConnStates /\ d.open /\ d.out = <<>> /\ ~ d.owes /\ d.up = 0 /\ d.req = c.req /\ d.closing = c.closing
    BY <1>1 DEF ConnStates
  <1>4. \E v : Moves(t, a, 0, k, d, v, t.recs[k]) /\ (k # 0 => v \in Ups /\ Quiet(v))
    <2>1. CASE c.up = 0
      <3>1. a = t /\ d = c
        BY <1>1, <2>1 DEF Released, ConnStates
      <3>2. Moves(t, t, 0, k, c, t.ups[k], t.recs[k])
        BY <1>1 DEF Moves, Unmoved
      <3>3. k # 0 => Quiet(t.ups[k])
        BY <1>1, <2>1 DEF ClientStep
      <3> QED
        BY <1>1, <3>1, <3>2, <3>3
    <2>2. CASE c.up # 0
      <3>1. c.up = k /\ k \in Leg
        BY <1>1, <2>2, Zero
      <3>2. a = Release(t, 0, keep /\ ~ c.closing) /\ (keep /\ ~ c.closing) \in BOOLEAN
        BY <2>2 DEF Released
      <3> HIDE DEF a, d, k
      <3>3. \E st \in {"pooled", "closed"} : Moves(t, a, 0, k, d, [t.ups[k] EXCEPT !.st = st], t.recs[k])
        BY <1>1, <3>1, <3>2, Releases DEF d
      <3>4. PICK st \in {"pooled", "closed"} : Moves(t, a, 0, k, d, [t.ups[k] EXCEPT !.st = st], t.recs[k])
        BY <3>3
      <3> DEFINE v == [t.ups[k] EXCEPT !.st = st]
      <3>5. t.ups[k] \in Ups
        BY <1>1, <2>2
      <3>6. v \in Ups /\ Quiet(v)
        BY <3>5 DEF Ups, Quiet
      <3> QED
        BY <3>4, <3>6
    <2> QED
      BY <2>1, <2>2
  <1>5. PICK v : Moves(t, a, 0, k, d, v, t.recs[k]) /\ (k # 0 => v \in Ups /\ Quiet(v))
    BY <1>4
  <1>6. a \in States /\ a.conn[0] = d /\ (k \in Leg => a.ups[k] = v) /\ a.recs[k] = t.recs[k]
    BY <1>5 DEF Moves, Unmoved
  <1> HIDE DEF a, d
  <1>7. Moves(a, b, 0, k, e, a.ups[k], m)
    BY <1>1, <1>3, <1>6, SinksOnce
  <1>8. /\ e \in ConnStates /\ e.open /\ e.out = <<>> /\ ~ e.owes /\ e.up = 0 /\ e.closing = c.closing
        /\ e.req.leg = k /\ e.req.sunk
    BY <1>3, SunkSame
  <1>9. ClientTally(t, e, m)
    BY <1>8, TallySunk
  <1> HIDE DEF b, e, m, k
  <1>10. Moves(a, b, 0, k, e, v, m)
    BY <1>6, <1>7 DEF Moves
  <1>11. Moves(t, b, 0, k, e, v, m)
    BY <1>1, <1>5, <1>10, MovesOn
  <1>12. b \in States /\ b.conn[0] = e /\ (k \in Leg => b.ups[k] = v) /\ b.recs[k] = m
    BY <1>11 DEF Moves, Unmoved
  <1>13. r \in Finalized(b, 0)
    BY <1>2 DEF a, b
  <1>14. t.conn[0].req.leg = k
    BY DEF k
  <1>15. CASE c.closing
    <2>1. r = CloseClient(b)
      BY <1>8, <1>12, <1>13, <1>15 DEF Finalized
    <2> QED
      BY <1>1, <1>5, <1>8, <1>9, <1>11, <1>14, <2>1, ClosesSunk
  <1>16. CASE ~ c.closing
    <2> DEFINE g == StreamOver(e)
    <2>1. r = [b EXCEPT !.conn[0] = g]
      BY <1>8, <1>12, <1>13, <1>16 DEF Finalized
    <2>2. /\ g \in ConnStates /\ g.open /\ g.out = <<>> /\ ~ g.owes /\ g.up = 0 /\ ~ g.closing
          /\ g.req.leg = k /\ g.req.sunk /\ g.req.phase = "Idle" /\ ~ g.req.streaming
      BY <1>8, <1>16, StreamOverIs
    <2> HIDE DEF g
    <2>3. Moves(b, r, 0, k, g, b.ups[k], m)
      BY <1>1, <1>12, <2>1, <2>2, ConnMoves
    <2>4. Moves(b, r, 0, k, g, v, m)
      BY <1>12, <2>3 DEF Moves
    <2>5. Moves(t, r, 0, k, g, v, m)
      BY <1>1, <1>11, <2>4, MovesOn
    <2>6. ClientTally(t, g, m)
      BY <1>8, <1>9, <2>2 DEF ClientTally, Recorded
    <2>7. AllOf(<<>>, k) /\ Clean(<<>>)
      BY Empties
    <2>8. ClientOver(g) /\ Holds(g, v)
      BY <2>2 DEF ClientOver, Holds, Modes
    <2>9. ClientStep(t, g, v, m, k)
      BY <1>1, <1>5, <2>2, <2>6, <2>7, <2>8 DEF ClientStep
    <2> QED
      BY <1>1, <1>14, <2>5, <2>9, SettledOn
  <1> QED
    BY <1>15, <1>16

\* stream_flush of the client's own connection.
LEMMA FlushesClient ==
  ASSUME NEW t, Settled(t), t.conn[0].open, t.conn[0].req.phase = "Streaming", NEW r \in FlushClient(t)
  PROVE  Settled(r) /\ r.turn = t.turn
  <1> DEFINE d == SendDone(t)
  <1>1. /\ Settled(d) /\ d.turn = t.turn /\ d.conn[0].out = <<>> /\ ~ d.conn[0].owes
        /\ d.conn[0].req.phase = "Streaming" /\ d.conn[0].open
    BY Sends
  <1>2. r \in {t, AbortClient(t)} \/ r \in Finalize(d, 0) \/ r = d
    BY DEF FlushClient, Then
  <1> HIDE DEF d
  <1>3. ASSUME r \in Finalize(d, 0) PROVE Settled(r) /\ r.turn = t.turn
    BY <1>1, <1>3, FinalizesClient
  <1> QED
    BY <1>1, <1>2, <1>3, Aborts

-----------------------------------------------------------------------------
\* What a handler of a leg leaves: the race goes on, or it is over.
Ends(r, t, n) == r.turn = t.turn /\ (Racing(r, n) \/ (Settled(r) /\ n = Legs + 1))

\* The types of a leg in its handler.
LEMMA ActsTyped ==
  ASSUME NEW t, NEW i \in Leg, NEW n \in 1 .. Legs + 1, Acting(t, i, n)
  PROVE  /\ t \in States /\ i \in Conns /\ i # 0 /\ t.conn[i] \in ConnStates /\ t.conn[i].req \in Reqs
         /\ t.conn[i].req.leg = i /\ t.conn[i].up \in {0, i} /\ t.ups[i] \in Ups /\ t.recs[i] \in Nat
         /\ t.conn[i].open /\ t.conn[i].of /\ t.waiting /\ i \in t.legs /\ t.conn[i].out \in Seq(Items)
         /\ t.recs[i] = Recorded(t.conn[i].req)
  <1>1. t \in States /\ i \in Conns /\ i # 0
    BY Zero DEF Acting
  <1>2. t.conn[i] \in ConnStates /\ t.conn[i].req \in Reqs /\ t.conn[i].out \in Seq(Items)
    BY <1>1, ConnIs, ReqIs DEF ConnStates
  <1>3. t.ups[i] \in Ups /\ t.recs[i] \in Nat
    BY <1>1 DEF States
  <1> QED
    BY <1>1, <1>2, <1>3 DEF Acting, LegActs, LegBase, Rest, ClientWaits

\* close_shadow records a leg that has no record yet, and no other.
LEMMA Shadowed ==
  ASSUME NEW t, NEW i \in Leg, NEW n \in 1 .. Legs + 1, Acting(t, i, n),
         t.conn[i].req.sunk \/ t.conn[i].req.phase # "Idle"
  PROVE  \E c : /\ Moves(t, ShadowRecord(t, i), i, i, c, t.ups[i], 1)
                /\ c \in ConnStates /\ c.up = t.conn[i].up /\ c.req.cut = t.conn[i].req.cut
  <1>1. CASE t.conn[i].req.sunk
    <2>1. ShadowRecord(t, i) = t /\ t.recs[i] = 1
      BY <1>1, ActsTyped DEF ShadowRecord, Recorded
    <2>2. Moves(t, t, i, i, t.conn[i], t.ups[i], 1)
      BY <2>1, ActsTyped DEF Moves, Unmoved
    <2> QED
      BY <2>1, <2>2, ActsTyped
  <1>2. CASE ~ t.conn[i].req.sunk
    <2>1. ShadowRecord(t, i) = SinkEmit(t, i) /\ t.recs[i] = 0
      BY <1>2, ActsTyped DEF ShadowRecord, Recorded
    <2>2. Moves(t, SinkEmit(t, i), i, i, Sunk(t.conn[i]), t.ups[i], t.recs[i] + 1)
      BY ActsTyped, Sinks
    <2>3. t.recs[i] + 1 = 1
      BY <2>1
    <2>4. Sunk(t.conn[i]) \in ConnStates /\ Sunk(t.conn[i]).up = t.conn[i].up /\ Sunk(t.conn[i]).req.cut = t.conn[i].req.cut
      BY ActsTyped, SunkSame
    <2> QED
      BY <2>1, <2>2, <2>3, <2>4
  <1> QED
    BY <1>1, <1>2

\* The race without leg i.
Without(q, t, i, n) ==
  /\ q \in States /\ q.turn = t.turn /\ ClientWaits(q) /\ q.legs = t.legs \ {i} /\ \A j \in Leg : LegStatus(q, j, n)

\* A leg unlinked from its client.
LEMMA UnlinkedIs ==
  ASSUME NEW c \in ConnStates
  PROVE  Unlinked(c) \in ConnStates /\ ~ Unlinked(c).open /\ Unlinked(c).req = c.req
  BY DEF Unlinked, ConnStates

\* close_shadow takes one leg out of the race, with its record.
LEMMA Buries ==
  ASSUME NEW t, NEW i \in Leg, NEW n \in 1 .. Legs + 1, Acting(t, i, n),
         t.conn[i].req.sunk \/ t.conn[i].req.phase # "Idle"
  PROVE  Without(Buried(t, i), t, i, n)
  <1>1. PICK c : /\ Moves(t, ShadowRecord(t, i), i, i, c, t.ups[i], 1)
                 /\ c \in ConnStates /\ c.up = t.conn[i].up /\ c.req.cut = t.conn[i].req.cut
    BY Shadowed
  <1> DEFINE a == ShadowRecord(t, i)
             b == DropUp(a, i)
             d == [c EXCEPT !.up = 0]
             v == IF c.up = 0 THEN t.ups[i] ELSE [t.ups[i] EXCEPT !.st = "closed"]
             e == Unlinked(d)
             q == ForgetLeg(a, i)
  <1>2. Buried(t, i) = q
    BY ActsTyped DEF Buried
  <1>3. a \in States /\ a.conn[i] = c /\ a.ups[i] = t.ups[i] /\ a.recs[i] = 1
    BY <1>1 DEF Moves, Unmoved
  <1> HIDE DEF a
  <1>4. Moves(a, b, i, i, d, v, 1)
    BY <1>1, <1>3, ActsTyped, Drops
  <1>5. d \in ConnStates /\ d.req = c.req
    BY <1>1, Zero DEF ConnStates
  <1>6. Quiet(v)
    BY <1>1, ActsTyped DEF Acting, LegActs, Quiet, Ups
  <1> HIDE DEF d, v
  <1>7. e \in ConnStates /\ ~ e.open /\ ~ e.req.cut
    BY <1>1, <1>5, UnlinkedIs DEF Acting, LegActs, LegBase
  <1>8. Moves(t, b, i, i, d, v, 1)
    BY <1>1, <1>4, ActsTyped, MovesOn DEF a
  <1>9. Rest(b, i, n)
    BY <1>8, RestOn DEF Acting
  <1>10. b \in States /\ b.turn = t.turn /\ b.legs = t.legs /\ b.conn[i] = d /\ b.ups[i] = v /\ b.recs[i] = 1
    BY <1>8 DEF Moves, Unmoved
  <1>11. q = [b EXCEPT !.conn[i] = e, !.legs = b.legs \ {i}]
    BY <1>10 DEF ForgetLeg
  <1> HIDE DEF b, e, q
  <1>12. /\ q \in States /\ q.turn = b.turn /\ q.legs = b.legs \ {i} /\ q.seen = b.seen /\ q.waiting = b.waiting
         /\ q.ups = b.ups /\ q.recs = b.recs /\ q.conn[i] = e
         /\ \A j \in Conns : j # i => q.conn[j] = b.conn[j]
    BY <1>7, <1>10, <1>11, ActsTyped DEF States
  <1>13. ClientWaits(q)
    BY <1>9, <1>12, Zero DEF Rest, ClientWaits
  <1>14. \A j \in Leg : j # i => LegStatus(q, j, n)
    BY <1>9, <1>12, Zero DEF Rest, LegStatus
  <1>15. LegStatus(q, i, n)
    BY <1>6, <1>7, <1>10, <1>12 DEF LegStatus, LegGone, Acting
  <1> QED
    BY <1>2, <1>10, <1>12, <1>13, <1>14, <1>15 DEF Without

\* The last leg is gone: the client gets the gateway's 502.
LEMMA LastGones ==
  ASSUME NEW q, NEW t, NEW i \in Leg, NEW n \in 1 .. Legs + 1, Without(q, t, i, n), q.legs = {}
  PROVE  Bare(LastGone(q)) /\ LastGone(q).turn = t.turn
  <1> DEFINE c == q.conn[0]
             f == [c.req EXCEPT !.sunk = TRUE]
             d == [c EXCEPT !.req = f]
             r == LastGone(q)
  <1>1. q \in States /\ 0 \in Conns /\ c \in ConnStates /\ c.req \in Reqs
    BY Zero, ConnIs, ReqIs DEF Without
  <1>2. /\ c.req.leg = 0 /\ c.req.phase = "Dispatched" /\ ~ c.req.streaming /\ c.open /\ c.out = <<>> /\ ~ c.owes /\ c.up = 0
        /\ q.recs[0] = 0 /\ q.seen = <<>>
    BY DEF Without, ClientWaits, NewReq
  <1>3. f \in Reqs /\ f.leg = 0 /\ f.phase = "Dispatched" /\ ~ f.streaming /\ f.sunk
    BY <1>1, <1>2 DEF Reqs
  <1> HIDE DEF f
  <1>4. d \in ConnStates /\ d.open /\ d.out = <<>> /\ ~ d.owes /\ d.up = 0 /\ d.req = f
    BY <1>1, <1>2, <1>3 DEF ConnStates
  <1> DEFINE C == [q.conn EXCEPT ![0] = d]
  <1>5. r = [q EXCEPT !.waiting = FALSE, !.conn = C]
    BY DEF LastGone, f
  <1> HIDE DEF d
  <1>5a. C \in [Conns -> ConnStates] /\ C[0] = d /\ \A j \in Leg : C[j] = q.conn[j]
    BY <1>1, <1>4, Zero DEF States
  <1> HIDE DEF C
  <1>6. /\ r \in States /\ r.turn = q.turn /\ r.legs = {} /\ r.seen = <<>> /\ ~ r.waiting /\ r.ups = q.ups /\ r.recs = q.recs
        /\ r.conn[0] = d /\ \A j \in Leg : r.conn[j] = q.conn[j]
    BY <1>1, <1>2, <1>5, <1>5a DEF States
  <1> HIDE DEF r
  <1>7. \A j \in Leg : LegGone(q.conn[j], q.ups[j], q.recs[j])
    BY DEF Without, LegStatus
  <1>8. NoWinner(r)
    BY <1>2, <1>3, <1>4, <1>6, <1>7 DEF NoWinner, LegGone
  <1> QED
    BY <1>3, <1>4, <1>6, <1>7, <1>8 DEF Bare, LegGone, r, Without

\* close_shadow leaves the race to the other legs, or tells the client that none is left.
LEMMA ClosesShadow ==
  ASSUME NEW t, NEW i \in Leg, NEW n \in 1 .. Legs + 1, Acting(t, i, n),
         t.conn[i].req.sunk \/ t.conn[i].req.phase # "Idle", NEW r \in CloseShadow(t, i)
  PROVE  Ends(r, t, n)
  <1> DEFINE q == Buried(t, i)
  <1>1. Without(q, t, i, n)
    BY Buries
  <1>2. t.conn[i].open /\ Judging(t, i) /\ i \in t.legs
    BY ActsTyped DEF Judging
  <1> HIDE DEF q
  <1>3. CASE LegAlone(t, i)
    <2>1. n = Legs + 1 /\ q.legs = {}
      BY <1>1, <1>3, AloneLast DEF Without
    <2>2. r \in ErrorRespondClient(LastGone(q))
      BY <1>2, <1>3 DEF CloseShadow, Then, q
    <2>3. Bare(LastGone(q)) /\ LastGone(q).turn = t.turn
      BY <1>1, <2>1, LastGones
    <2> QED
      BY <2>1, <2>2, <2>3, ErrorsBare DEF Ends
  <1>4. CASE ~ LegAlone(t, i)
    <2>1. r = q
      BY <1>4 DEF CloseShadow, q
    <2>2. q.legs # {}
      BY <1>1, <1>2, <1>4 DEF Without, LegAlone
    <2> QED
      BY <1>1, <2>1, <2>2 DEF Without, Racing, Ends
  <1> QED
    BY <1>3, <1>4

\* A leg whose reply nobody reads.
LEMMA FinishedIs ==
  ASSUME NEW c \in ConnStates
  PROVE  LET d == Finished(c)
         IN /\ d \in ConnStates /\ d.open = c.open /\ d.out = <<>> /\ d.up = c.up /\ d.of = c.of
            /\ d.req.leg = c.req.leg /\ d.req.sunk = c.req.sunk /\ d.req.cut = c.req.cut
  <1> DEFINE f == [c.req EXCEPT !.phase = "Idle"]
  <1>1. f \in Reqs /\ f.leg = c.req.leg /\ f.sunk = c.req.sunk /\ f.cut = c.req.cut
    BY ReqIs DEF Reqs, Phases
  <1>2. <<>> \in Seq(Items)
    OBVIOUS
  <1>3. Finished(c) = [c EXCEPT !.req = f, !.out = <<>>]
    BY DEF Finished
  <1> HIDE DEF f
  <1> QED
    BY <1>1, <1>2, <1>3 DEF ConnStates

\* The leg's record, where it has none yet.
LEMMA SinksLeg ==
  ASSUME NEW t, NEW i \in Leg, NEW n \in 1 .. Legs + 1, Acting(t, i, n)
  PROVE  /\ Moves(t, SinkUnlessSunk(t, i), i, i, Sunk(t.conn[i]), t.ups[i], 1)
         /\ Acting(SinkUnlessSunk(t, i), i, n)
  <1> DEFINE c == t.conn[i]
             m == IF c.req.sunk THEN t.recs[i] ELSE t.recs[i] + 1
             d == Sunk(c)
  <1>1. Moves(t, SinkUnlessSunk(t, i), i, i, d, t.ups[i], m)
    BY ActsTyped, SinksOnce
  <1>2. m = 1
    BY ActsTyped DEF Recorded
  <1>3. /\ d.open = c.open /\ d.out = c.out /\ d.up = c.up /\ d.of = c.of
        /\ d.req.leg = c.req.leg /\ d.req.sunk /\ d.req.cut = c.req.cut /\ d.req.failed = c.req.failed
    BY ActsTyped, SunkSame
  <1> HIDE DEF m, d
  <1>4. LegActs(d, t.ups[i], 1, i)
    BY <1>3 DEF Acting, LegActs, LegBase, Recorded
  <1> QED
    BY <1>1, <1>2, <1>4, ActsOn DEF d

\* finish_response of a leg records and closes it.
LEMMA FinishesLeg ==
  ASSUME NEW t, NEW i \in Leg, NEW n \in 1 .. Legs + 1, Acting(t, i, n), NEW r \in FinishLeg(t, i)
  PROVE  Ends(r, t, n)
  <1> DEFINE a == SinkUnlessSunk(t, i)
             c == Sunk(t.conn[i])
             e == Finished(c)
             d == [a EXCEPT !.conn[i] = e]
  <1>1. Moves(t, a, i, i, c, t.ups[i], 1) /\ Acting(a, i, n)
    BY SinksLeg
  <1>2. a.conn[i] = c /\ a.ups[i] = t.ups[i] /\ a.recs[i] = 1 /\ a.turn = t.turn
    BY <1>1 DEF Moves, Unmoved
  <1>3. c \in ConnStates /\ c.req.sunk
    BY ActsTyped, SunkSame
  <1> HIDE DEF a, c
  <1>4. /\ e \in ConnStates /\ e.open = c.open /\ e.out = <<>> /\ e.up = c.up /\ e.of = c.of
        /\ e.req.leg = c.req.leg /\ e.req.sunk /\ e.req.cut = c.req.cut
    BY <1>3, FinishedIs
  <1>5. r \in CloseShadow(d, i)
    BY <1>2 DEF FinishLeg, Then, a
  <1> HIDE DEF e
  <1>6. Moves(a, d, i, i, e, a.ups[i], 1)
    BY <1>1, <1>2, <1>4, ActsTyped, ConnMoves
  <1>7. LegActs(e, a.ups[i], 1, i)
    <2>1. AllOf(<<>>, i) /\ Clean(<<>>)
      BY Empties
    <2> QED
      BY <1>1, <1>2, <1>4, <2>1 DEF Acting, LegActs, LegBase, Recorded
  <1> HIDE DEF d
  <1>8. Acting(d, i, n) /\ d.turn = t.turn /\ d.conn[i] = e
    BY <1>1, <1>2, <1>6, <1>7, ActsOn DEF Moves, Unmoved
  <1>9. Ends(r, d, n)
    BY <1>4, <1>5, <1>8, ClosesShadow
  <1> QED
    BY <1>8, <1>9 DEF Ends

\* A leg's whole reply: it wins, or it failed and another leg may still answer.
LEMMA Responds ==
  ASSUME NEW t, NEW i \in Leg, NEW n \in 1 .. Legs + 1, Acting(t, i, n),
         t.conn[i].req.phase = "Replying", ~ t.conn[i].req.streaming, t.conn[i].up = 0,
         t.conn[i].req.failed \/ n = Legs + 1, NEW r \in Respond(t, i)
  PROVE  Ends(r, t, n)
  <1>1. i # 0 /\ Judging(t, i)
    BY ActsTyped DEF Judging
  <1>2. CASE ~ t.conn[i].req.failed \/ LegAlone(t, i)
    <2>1. PICK z \in Adopted(t, i) : r \in RespondClient(z)
      BY <1>1, <1>2 DEF Respond, Then
    <2>2. LegAlone(t, i) \/ (n = Legs + 1 /\ Clean(t.conn[i].out))
      BY <1>2 DEF Acting, LegActs
    <2>3. Modes(t.conn[i].req) /\ Holds(t.conn[i], t.ups[i])
      BY DEF Modes, Holds
    <2>4. /\ Settled(z) /\ z.turn = t.turn /\ n = Legs + 1
          /\ z.conn[0].open /\ z.conn[0].req = [t.conn[i].req EXCEPT !.won = TRUE]
      BY <2>2, <2>3, Adopts
    <2>5. z.conn[0].req.phase = "Replying"
      BY <2>4, ActsTyped DEF Reqs
    <2> QED
      BY <2>1, <2>4, <2>5, RespondsClient DEF Ends
  <1>3. CASE ~ (~ t.conn[i].req.failed \/ LegAlone(t, i))
    <2>1. r \in FinishLeg(t, i)
      BY <1>1, <1>3 DEF Respond
    <2> QED
      BY <2>1, FinishesLeg
  <1> QED
    BY <1>2, <1>3

\* A leg's failure, whatever it was doing.
LEMMA ErrorResponds ==
  ASSUME NEW t, NEW i \in Leg, NEW n \in 1 .. Legs + 1, Acting(t, i, n),
         t.conn[i].req.phase # "Idle", Modes(t.conn[i].req), NEW r \in ErrorRespond(t, i)
  PROVE  Ends(r, t, n)
  <1>1. CASE Begun(t, i)
    BY <1>1, ActsTyped, ClosesShadow DEF ErrorRespond
  <1>2. CASE ~ Begun(t, i)
    <2> DEFINE c == t.conn[i]
               d == Failing(c)
               b == ReplyOwn(t, i)
               v == IF c.up = 0 THEN t.ups[i] ELSE [t.ups[i] EXCEPT !.st = "closed"]
    <2>1. r \in Respond(b, i)
      BY <1>2, ActsTyped DEF ErrorRespond, Then
    <2>2. Moves(t, b, i, i, d, v, t.recs[i])
      BY ActsTyped, RepliesOwn
    <2>3. /\ d.open = c.open /\ d.out = Append(c.out, Item(i, "own")) /\ d.up = 0 /\ d.of = c.of
          /\ d.req.phase = "Replying" /\ d.req.failed /\ d.req.leg = i /\ d.req.sunk = c.req.sunk
          /\ d.req.cut = c.req.cut /\ d.req.streaming = c.req.streaming
      <3>1. c \in ConnStates /\ c.req.leg = i
        BY ActsTyped
      <3> HIDE DEF c
      <3> QED
        BY <3>1, FailingIs
    <2>4. Quiet(v)
      BY ActsTyped DEF Acting, LegActs, Quiet, Ups
    <2>5. AllOf(Append(c.out, Item(i, "own")), i)
      <3>1. AllOf(c.out, i) /\ c.out \in Seq(Items) /\ i \in Conns
        BY ActsTyped DEF Acting, LegActs, LegBase
      <3>2. "own" \in Kinds
        BY DEF Kinds
      <3> QED
        BY <3>1, <3>2, AllOfs
    <2>6. ~ c.req.streaming
      BY <1>2 DEF Begun, Modes
    <2> HIDE DEF d, v, b
    <2>7. LegActs(d, v, t.recs[i], i)
      BY <2>3, <2>4, <2>5 DEF Acting, LegActs, LegBase, Recorded
    <2>8. Acting(b, i, n) /\ b.conn[i] = d /\ b.turn = t.turn
      BY <2>2, <2>7, ActsOn DEF Moves, Unmoved
    <2>9. Ends(r, b, n)
      BY <2>1, <2>3, <2>6, <2>8, Responds
    <2> QED
      BY <2>8, <2>9 DEF Ends
  <1> QED
    BY <1>1, <1>2

\* finalize_stream of a leg that lost.
LEMMA FinalizesLeg ==
  ASSUME NEW t, NEW i \in Leg, NEW n \in 1 .. Legs + 1, Acting(t, i, n), NEW r \in Finalize(t, i)
  PROVE  Ends(r, t, n)
  <1> DEFINE c == t.conn[i]
  <1>2. PICK keep \in BOOLEAN : r \in Finalized(SinkUnlessSunk(Released(t, i, keep), i), i)
    BY DEF Finalize, Then
  <1> DEFINE a == Released(t, i, keep)
             b == SinkUnlessSunk(a, i)
             d == [c EXCEPT !.up = 0]
  <1>3. Acting(a, i, n) /\ a.turn = t.turn
    <2>1. CASE c.up = 0
      BY <2>1 DEF Released
    <2>2. CASE c.up # 0
      <3>1. c.up = i /\ a = Release(t, i, keep /\ ~ c.closing) /\ (keep /\ ~ c.closing) \in BOOLEAN
        BY <2>2, ActsTyped DEF Released
      <3> HIDE DEF a
      <3>2. PICK st \in {"pooled", "closed"} : Moves(t, a, i, i, d, [t.ups[i] EXCEPT !.st = st], t.recs[i])
        BY <3>1, ActsTyped, Releases
      <3> DEFINE v == [t.ups[i] EXCEPT !.st = st]
      <3>3. v \in Ups /\ Quiet(v)
        BY ActsTyped DEF Ups, Quiet
      <3>4. d.open = c.open /\ d.out = c.out /\ d.up = 0 /\ d.of = c.of /\ d.req = c.req
        BY ActsTyped DEF ConnStates
      <3>5. Moves(t, a, i, i, d, v, t.recs[i])
        BY <3>2
      <3> HIDE DEF v, d
      <3>6. LegActs(d, v, t.recs[i], i)
        BY <3>3, <3>4 DEF Acting, LegActs, LegBase, Recorded
      <3> QED
        BY <3>5, <3>6, ActsOn DEF Moves, Unmoved
    <2> QED
      BY <2>1, <2>2
  <1> HIDE DEF a
  <1>4. Acting(b, i, n) /\ b.turn = t.turn /\ b.conn[i].req.sunk
    <2>1. Moves(a, b, i, i, Sunk(a.conn[i]), a.ups[i], 1) /\ Acting(b, i, n)
      BY <1>3, SinksLeg
    <2>2. Sunk(a.conn[i]).req.sunk
      BY <1>3, ActsTyped, SunkSame
    <2> QED
      BY <1>3, <2>1, <2>2 DEF Moves, Unmoved
  <1>5. r \in CloseShadow(b, i)
    BY <1>2, ActsTyped DEF Finalized, a
  <1> HIDE DEF b
  <1>6. Ends(r, b, n)
    BY <1>4, <1>5, ClosesShadow
  <1> QED
    BY <1>4, <1>6 DEF Ends

\* A leg whose reply streams, as a handler hands it to stream_flush.
Streamer(c, u, m, i) ==
  /\ LegActs(c, u, m, i) /\ c.req.phase = "Streaming" /\ c.req.streaming /\ ~ c.req.failed /\ ~ c.req.sunk
  /\ Holds(c, u) /\ (~ c.req.ended => ~ c.closing /\ c.up = i)

\* stream_flush of a leg: it waits for its first token, wins, or ends unseen.
LEMMA StreamFlushes ==
  ASSUME NEW t, NEW i \in Leg, NEW n \in 1 .. Legs + 1, Acting(t, i, n), n = Legs + 1,
         Streamer(t.conn[i], t.ups[i], t.recs[i], i), NEW r \in StreamFlush(t, i)
  PROVE  Ends(r, t, n)
  <1> DEFINE c == t.conn[i]
             f == c.req
  <1>1. i # 0 /\ Judging(t, i)
    BY ActsTyped DEF Judging
  <1>2. CASE ~ f.token /\ ~ f.ended
    <2>1. r = t
      BY <1>1, <1>2 DEF StreamFlush
    <2>2. LegRuns(c, t.ups[i], t.recs[i], i)
      BY <1>1, <1>2 DEF Streamer, LegActs, LegRuns, Holds, Quiet, Recorded, Modes
    <2> QED
      BY <2>1, <2>2, RunsOn DEF Ends
  <1>3. CASE f.token \/ (f.ended /\ LegAlone(t, i))
    <2>1. PICK z \in Adopted(t, i) : r \in FlushClient(z)
      BY <1>1, <1>3 DEF StreamFlush, Then
    <2>2. n = Legs + 1 /\ Clean(c.out) /\ Modes(f) /\ Holds(c, t.ups[i]) /\ f.phase = "Streaming"
      BY DEF Streamer, LegActs, Modes
    <2>3. /\ Settled(z) /\ z.turn = t.turn
          /\ z.conn[0].open /\ z.conn[0].req = [f EXCEPT !.won = TRUE]
      BY <2>2, Adopts
    <2>4. z.conn[0].req.phase = "Streaming"
      BY <2>2, <2>3, ActsTyped DEF Reqs
    <2> QED
      BY <2>1, <2>2, <2>3, <2>4, FlushesClient DEF Ends
  <1>4. CASE ~ f.token /\ f.ended /\ ~ LegAlone(t, i)
    <2> DEFINE d == Wrote(c)
               b == LegSent(t, i)
    <2>1. r \in Finalize(b, i)
      BY <1>1, <1>4 DEF StreamFlush, Then
    <2>2. b = [t EXCEPT !.conn[i] = d]
      BY DEF LegSent
    <2>3. d \in ConnStates /\ d.out = <<>> /\ d.open = c.open /\ d.of = c.of /\ d.req = c.req /\ d.up = c.up
      BY ActsTyped, WroteIs
    <2> HIDE DEF d, b
    <2>4. Moves(t, b, i, i, d, t.ups[i], t.recs[i])
      BY <2>2, <2>3, ActsTyped, ConnMoves
    <2>5. LegActs(d, t.ups[i], t.recs[i], i)
      <3>1. AllOf(<<>>, i) /\ Clean(<<>>)
        BY Empties
      <3> QED
        BY <2>3, <3>1 DEF Streamer, LegActs, LegBase
    <2>6. Acting(b, i, n) /\ b.turn = t.turn
      BY <2>4, <2>5, ActsOn DEF Moves, Unmoved
    <2>7. Ends(r, b, n)
      BY <2>1, <2>6, FinalizesLeg
    <2> QED
      BY <2>6, <2>7 DEF Ends
  <1> QED
    BY <1>2, <1>3, <1>4

-----------------------------------------------------------------------------
\* What the handlers of a stream leave of its connection.
SameRun(c, d) ==
  /\ d \in ConnStates /\ d.open = c.open /\ d.of = c.of
  /\ d.req.leg = c.req.leg /\ d.req.phase = c.req.phase /\ d.req.streaming = c.req.streaming
  /\ d.req.sunk = c.req.sunk /\ d.req.cut = c.req.cut /\ d.req.failed = c.req.failed
  /\ d.req.ended \/ (d.closing = c.closing /\ d.req.ended = c.req.ended)

\* Two such changes are one.
LEMMA SameRunOn ==
  ASSUME NEW c, NEW d, NEW e, SameRun(c, d), SameRun(d, e)
  PROVE  SameRun(c, e)
  BY DEF SameRun

\* The first token changes nothing else of a stream.
LEMMA TokenIs ==
  ASSUME NEW c \in ConnStates
  PROVE  LET d == [c EXCEPT !.req.token = TRUE] IN SameRun(c, d) /\ d.out = c.out /\ d.up = c.up
  <1> DEFINE f == [c.req EXCEPT !.token = TRUE]
             d == [c EXCEPT !.req = f]
  <1>1. /\ f \in Reqs /\ f.leg = c.req.leg /\ f.phase = c.req.phase /\ f.streaming = c.req.streaming
        /\ f.sunk = c.req.sunk /\ f.cut = c.req.cut /\ f.failed = c.req.failed /\ f.ended = c.req.ended
    BY ReqIs DEF Reqs
  <1> HIDE DEF f
  <1>2. /\ d \in ConnStates /\ d.open = c.open /\ d.of = c.of /\ d.out = c.out /\ d.up = c.up /\ d.closing = c.closing
        /\ d.req = f
    BY <1>1 DEF ConnStates
  <1>3. SameRun(c, d)
    BY <1>1, <1>2 DEF SameRun
  <1> QED
    BY <1>2, <1>3 DEF f

\* The end of a stream.
LEMMA EndedIs ==
  ASSUME NEW c \in ConnStates
  PROVE  LET d == [c EXCEPT !.req.ended = TRUE] IN SameRun(c, d) /\ d.out = c.out /\ d.up = c.up /\ d.req.ended
  <1> DEFINE f == [c.req EXCEPT !.ended = TRUE]
             d == [c EXCEPT !.req = f]
  <1>1. /\ f \in Reqs /\ f.leg = c.req.leg /\ f.phase = c.req.phase /\ f.streaming = c.req.streaming
        /\ f.sunk = c.req.sunk /\ f.cut = c.req.cut /\ f.failed = c.req.failed /\ f.ended
    BY ReqIs DEF Reqs
  <1> HIDE DEF f
  <1>2. /\ d \in ConnStates /\ d.open = c.open /\ d.of = c.of /\ d.out = c.out /\ d.up = c.up /\ d.closing = c.closing
        /\ d.req = f
    BY <1>1 DEF ConnStates
  <1>3. SameRun(c, d)
    BY <1>1, <1>2 DEF SameRun
  <1> QED
    BY <1>1, <1>2, <1>3 DEF f

\* A truncation.
LEMMA CroppedIs ==
  ASSUME NEW c \in ConnStates
  PROVE  LET d == Cropped(c) IN SameRun(c, d) /\ d.out = c.out /\ d.up = c.up /\ d.req.ended
  <1> DEFINE f == [c.req EXCEPT !.ended = TRUE]
             d == [c EXCEPT !.req = f, !.closing = TRUE]
  <1>1. /\ f \in Reqs /\ f.leg = c.req.leg /\ f.phase = c.req.phase /\ f.streaming = c.req.streaming
        /\ f.sunk = c.req.sunk /\ f.cut = c.req.cut /\ f.failed = c.req.failed /\ f.ended
    BY ReqIs DEF Reqs
  <1>2. Cropped(c) = d
    BY DEF Cropped
  <1> HIDE DEF f
  <1>3. /\ d \in ConnStates /\ d.open = c.open /\ d.of = c.of /\ d.out = c.out /\ d.up = c.up /\ d.req = f
    BY <1>1 DEF ConnStates
  <1>4. SameRun(c, d)
    BY <1>1, <1>3 DEF SameRun
  <1> QED
    BY <1>1, <1>2, <1>3, <1>4

\* Bytes staged leave the stream the same.
LEMMA StagedRun ==
  ASSUME NEW c \in ConnStates, NEW k \in Conns, NEW kind \in Kinds
  PROVE  SameRun(c, Staged(c, k, kind)) /\ Staged(c, k, kind).up = c.up
  BY StagedIs DEF SameRun

\* A venue connection let go.
LEMMA UnpairedRun ==
  ASSUME NEW c \in ConnStates
  PROVE  LET d == [c EXCEPT !.up = 0] IN SameRun(c, d) /\ d.out = c.out /\ d.up = 0
  <1> DEFINE d == [c EXCEPT !.up = 0]
  <1>1. /\ d \in ConnStates /\ d.open = c.open /\ d.of = c.of /\ d.out = c.out /\ d.up = 0 /\ d.closing = c.closing
        /\ d.req = c.req
    BY Zero DEF ConnStates
  <1> HIDE DEF d
  <1>2. SameRun(c, d)
    BY <1>1 DEF SameRun
  <1> QED
    BY <1>1, <1>2 DEF d

\* A connection with a whole reply.
LEMMA AnsweredIs ==
  ASSUME NEW c \in ConnStates, NEW ok \in BOOLEAN
  PROVE  LET d == Answered(c, ok)
         IN /\ d \in ConnStates /\ d.open = c.open /\ d.of = c.of /\ d.out = c.out /\ d.up = c.up
            /\ d.req.phase = "Replying" /\ d.req.failed = ~ ok /\ d.req.leg = c.req.leg /\ d.req.sunk = c.req.sunk
            /\ d.req.cut = c.req.cut /\ d.req.streaming = c.req.streaming
  <1> DEFINE f == [c.req EXCEPT !.phase = "Replying"]
             g == [f EXCEPT !.failed = ~ ok]
             h == [c EXCEPT !.req = f]
             d == [h EXCEPT !.req = g]
  <1>1. /\ f \in Reqs /\ f.phase = "Replying" /\ f.leg = c.req.leg /\ f.sunk = c.req.sunk /\ f.cut = c.req.cut
        /\ f.streaming = c.req.streaming
    BY ReqIs DEF Reqs, Phases
  <1> HIDE DEF f
  <1>2. /\ g \in Reqs /\ g.phase = "Replying" /\ g.failed = ~ ok /\ g.leg = c.req.leg /\ g.sunk = c.req.sunk
        /\ g.cut = c.req.cut /\ g.streaming = c.req.streaming
    BY <1>1 DEF Reqs
  <1>3. h \in ConnStates /\ h.open = c.open /\ h.of = c.of /\ h.out = c.out /\ h.up = c.up /\ h.req = f
    BY <1>1 DEF ConnStates
  <1>4. Answered(c, ok) = [h EXCEPT !.req.failed = ~ ok]
    BY DEF Answered, f
  <1> HIDE DEF h
  <1>5. [h EXCEPT !.req.failed = ~ ok] = d
    BY <1>3
  <1> HIDE DEF g
  <1>6. d \in ConnStates /\ d.open = c.open /\ d.of = c.of /\ d.out = c.out /\ d.up = c.up /\ d.req = g
    BY <1>2, <1>3 DEF ConnStates
  <1> HIDE DEF d
  <1> QED
    BY <1>2, <1>4, <1>5, <1>6

\* A connection whose stream began.
LEMMA BeganIs ==
  ASSUME NEW c \in ConnStates
  PROVE  LET d == Began(c)
         IN /\ d \in ConnStates /\ d.open = c.open /\ d.of = c.of /\ d.out = c.out /\ d.up = c.up
            /\ d.closing = c.closing
            /\ d.req.phase = "Streaming" /\ d.req.streaming /\ d.req.leg = c.req.leg /\ d.req.sunk = c.req.sunk
            /\ d.req.cut = c.req.cut /\ d.req.failed = c.req.failed /\ d.req.ended = c.req.ended
  <1> DEFINE f == [c.req EXCEPT !.phase = "Streaming"]
             g == [f EXCEPT !.streaming = TRUE]
             h == [c EXCEPT !.req = f]
             d == [h EXCEPT !.req = g]
  <1>1. /\ f \in Reqs /\ f.phase = "Streaming" /\ f.leg = c.req.leg /\ f.sunk = c.req.sunk /\ f.cut = c.req.cut
        /\ f.failed = c.req.failed /\ f.ended = c.req.ended
    BY ReqIs DEF Reqs, Phases
  <1> HIDE DEF f
  <1>2. /\ g \in Reqs /\ g.phase = "Streaming" /\ g.streaming /\ g.leg = c.req.leg /\ g.sunk = c.req.sunk
        /\ g.cut = c.req.cut /\ g.failed = c.req.failed /\ g.ended = c.req.ended
    BY <1>1 DEF Reqs
  <1>3. /\ h \in ConnStates /\ h.open = c.open /\ h.of = c.of /\ h.out = c.out /\ h.up = c.up
        /\ h.closing = c.closing /\ h.req = f
    BY <1>1 DEF ConnStates
  <1>4. Began(c) = [h EXCEPT !.req.streaming = TRUE]
    BY DEF Began, f
  <1> HIDE DEF h
  <1>5. [h EXCEPT !.req.streaming = TRUE] = d
    BY <1>3
  <1> HIDE DEF g
  <1>6. /\ d \in ConnStates /\ d.open = c.open /\ d.of = c.of /\ d.out = c.out /\ d.up = c.up
        /\ d.closing = c.closing /\ d.req = g
    BY <1>2, <1>3 DEF ConnStates
  <1> QED
    BY <1>2, <1>4, <1>5, <1>6

-----------------------------------------------------------------------------
\* The first leg spawn_hedge's loop has not sent.
Unsent(t) == IF t.turn = 0 THEN Legs + 1 ELSE t.turn
\* The inductive invariant: the race is on, or settled with spawn_hedge's loop over.
Sound(t) == Racing(t, Unsent(t)) \/ (Settled(t) /\ t.turn = 0)

\* Every leg was sent when no loop runs.
LEMMA Bounds == Legs + 1 \in 1 .. Legs + 1 /\ \A j \in Leg : j < Legs + 1
  BY LegsAssumption DEF Leg

\* A leg's handler outside that loop keeps the invariant.
LEMMA EndsSound ==
  ASSUME NEW t, NEW r, t.turn = 0, Ends(r, t, Legs + 1)
  PROVE  Sound(r)
  BY DEF Ends, Sound, Unsent

\* An open leg outside that loop was sent, and runs.
LEMMA LegOpen ==
  ASSUME NEW t, Sound(t), t.turn = 0, NEW i \in Leg, t.conn[i].open
  PROVE  /\ Racing(t, Legs + 1) /\ Acting(t, i, Legs + 1) /\ LegRuns(t.conn[i], t.ups[i], t.recs[i], i)
         /\ t.conn[i].up = i /\ t.conn[i].req.leg = i /\ t.conn[i].req.phase # "Idle" /\ Modes(t.conn[i].req)
  <1>1. Racing(t, Legs + 1)
    BY DEF Sound, Unsent, Settled, LegOver
  <1>2. Acting(t, i, Legs + 1) /\ LegRuns(t.conn[i], t.ups[i], t.recs[i], i)
    BY <1>1, Bounds, RaceActs
  <1> QED
    BY <1>1, <1>2 DEF LegRuns, LegBase

\* The client's own connection never waits on a venue: it has one only as a winner that streams.
LEMMA ClientHolds ==
  ASSUME NEW t, Sound(t), t.turn = 0, t.conn[0].open, t.conn[0].up # 0 \/ t.conn[0].req.streaming
  PROVE  /\ Settled(t) /\ t.conn[0].req.phase \in {"Streaming", "Replying", "Idle"}
         /\ t.conn[0].up # 0 => t.conn[0].req.phase = "Streaming" /\ t.conn[0].req.streaming
                                 /\ t.conn[0].up = t.conn[0].req.leg /\ t.ups[t.conn[0].up].st = "ready"
  <1>1. Settled(t)
    BY DEF Sound, Racing, ClientWaits, NewReq
  <1> QED
    BY <1>1 DEF Settled, ClientOver, Holds, Modes

\* A connection that streams is a running leg's, or the client's with its winner.
LEMMA StreamsAre ==
  ASSUME Sound(s), s.turn = 0, NEW i \in Conns, Streams(i)
  PROVE  LET c == s.conn[i]
             k == c.req.leg
         IN /\ k \in Leg /\ k \in Conns /\ s \in States /\ c \in ConnStates /\ c.open /\ c.up = k
            /\ s.ups[k] \in Ups /\ s.ups[k].st = "ready" /\ c.req.phase = "Streaming" /\ c.req.streaming
            /\ s.recs[k] \in Nat /\ AllOf(c.out, k) /\ c.out \in Seq(Items)
            /\ (i = 0 => Settled(s))
            /\ (i # 0 => i \in Leg /\ k = i /\ Acting(s, i, Legs + 1) /\ LegRuns(c, s.ups[i], s.recs[i], i))
  <1> DEFINE c == s.conn[i]
             k == c.req.leg
  <1>1. c.open /\ c.up # 0 /\ s.ups[c.up].st = "ready" /\ c.req.streaming
    BY DEF Streams, Holder
  <1>2. CASE i = 0
    <2>1. /\ Settled(s) /\ c.req.phase = "Streaming" /\ c.up = k
      BY <1>1, <1>2, ClientHolds
    <2>2. k \in Leg /\ AllOf(c.out, k)
      BY <1>1, <1>2, <2>1, StepStarts, Zero DEF Settled, Told
    <2>3. k \in Conns /\ s \in States /\ c \in ConnStates /\ s.ups[k] \in Ups /\ s.recs[k] \in Nat /\ c.out \in Seq(Items)
      BY <1>2, <2>1, <2>2, Zero, StepStarts DEF ConnStates
    <2> QED
      BY <1>1, <1>2, <2>1, <2>2, <2>3
  <1>3. CASE i # 0
    <2>1. i \in Leg
      BY <1>3, Zero
    <2>2. Acting(s, i, Legs + 1) /\ LegRuns(c, s.ups[i], s.recs[i], i) /\ c.up = i /\ k = i
      BY <1>1, <2>1, LegOpen
    <2>3. /\ s \in States /\ c \in ConnStates /\ s.ups[k] \in Ups /\ s.recs[k] \in Nat /\ c.out \in Seq(Items)
      BY <2>1, <2>2, Bounds, ActsTyped
    <2>4. c.req.phase = "Streaming" /\ AllOf(c.out, k)
      BY <1>1, <2>2 DEF LegRuns, LegBase, Modes
    <2> QED
      BY <1>1, <1>3, <2>1, <2>2, <2>3, <2>4
  <1> QED
    BY <1>2, <1>3

\* A stream's connection after its handler's own changes, the venue held or dropped.
Streamed(c, d, v, k) ==
  /\ SameRun(c, d) /\ AllOf(d.out, k) /\ (Clean(c.out) => Clean(d.out))
  /\ (d.up = k /\ v.st = "ready") \/ (d.up = 0 /\ Quiet(v) /\ d.req.ended)

\* stream_flush after such a change keeps the invariant, for a leg and for the client.
LEMMA FlushAfter ==
  ASSUME Sound(s), s.turn = 0, NEW i \in Conns, Streams(i), NEW k, k = s.conn[i].req.leg,
         NEW t, NEW d, NEW v, Moves(s, t, i, k, d, v, s.recs[k]), Streamed(s.conn[i], d, v, k),
         NEW r \in StreamFlush(t, i)
  PROVE  Sound(r)
  <1> DEFINE c == s.conn[i]
  <1>1. /\ k \in Leg /\ k \in Conns /\ s \in States /\ c \in ConnStates /\ c.open /\ c.up = k
        /\ c.req.phase = "Streaming" /\ c.req.streaming
        /\ (i = 0 => Settled(s))
        /\ (i # 0 => i \in Leg /\ k = i /\ Acting(s, i, Legs + 1) /\ LegRuns(c, s.ups[i], s.recs[i], i))
    BY StreamsAre
  <1>2. t.turn = 0 /\ t.conn[i] = d /\ t.ups[k] = v /\ t.recs[k] = s.recs[k]
    BY <1>1 DEF Moves, Unmoved
  <1>3. d.open /\ d.req.leg = k /\ d.req.phase = "Streaming" /\ d.req.streaming
    BY <1>1 DEF Streamed, SameRun
  <1>4. CASE i = 0
    <2>1. ClientStep(s, c, s.ups[k], s.recs[k], k)
      BY <1>1, <1>4, StepStarts
    <2>2. ClientTally(s, d, s.recs[k])
      BY <1>1, <1>3, <2>1 DEF ClientStep, ClientTally, Recorded, Streamed, SameRun
    <2>3. ClientOver(d)
      BY <1>3 DEF ClientOver, Modes
    <2>4. Holds(d, v)
      BY <1>3 DEF Holds, Streamed
    <2>5. ClientStep(s, d, v, s.recs[k], k)
      BY <1>3, <2>1, <2>2, <2>3, <2>4 DEF ClientStep, Streamed
    <2>6. Settled(t)
      BY <1>1, <1>4, <2>5, SettledOn
    <2>7. r \in FlushClient(t)
      BY <1>4 DEF StreamFlush
    <2> QED
      BY <1>2, <1>3, <1>4, <2>6, <2>7, FlushesClient DEF Sound
  <1>5. CASE i # 0
    <2>1. LegRuns(c, s.ups[i], s.recs[i], i) /\ i = k /\ i \in Leg /\ Acting(s, i, Legs + 1)
      BY <1>1, <1>5
    <2>2. Streamer(d, v, s.recs[i], i)
      <3>1. /\ c.open /\ c.of /\ ~ c.req.cut /\ ~ c.req.sunk /\ ~ c.req.failed /\ ~ c.req.ended /\ Clean(c.out) /\ ~ c.closing
            /\ s.recs[i] = 0
        BY <2>1 DEF LegRuns, LegBase
      <3>2. /\ d.of /\ ~ d.req.cut /\ ~ d.req.sunk /\ ~ d.req.failed /\ Clean(d.out) /\ AllOf(d.out, i)
            /\ (~ d.req.ended => ~ d.closing)
        BY <2>1, <3>1 DEF Streamed, SameRun
      <3>3. (d.up = i /\ v.st = "ready") \/ (d.up = 0 /\ Quiet(v) /\ d.req.ended)
        BY <2>1 DEF Streamed
      <3>4. LegActs(d, v, s.recs[i], i)
        <4>1. LegBase(d, i)
          BY <1>3, <2>1, <3>2 DEF LegBase
        <4>2. s.recs[i] = Recorded(d.req)
          BY <3>1, <3>2 DEF Recorded
        <4>3. d.up \in {0, i} /\ (d.up = 0 => Quiet(v))
          BY <2>1, <3>3, Zero
        <4> QED
          BY <3>2, <4>1, <4>2, <4>3 DEF LegActs
      <3>5. Holds(d, v)
        BY <1>3, <2>1, <3>3 DEF Holds
      <3> QED
        BY <1>3, <3>2, <3>3, <3>4, <3>5 DEF Streamer
    <2>3. Acting(t, i, Legs + 1)
      <3>1. LegActs(d, v, s.recs[i], i)
        BY <2>2 DEF Streamer
      <3>2. Moves(s, t, i, i, d, v, s.recs[i])
        BY <2>1
      <3> QED
        BY <2>1, <3>1, <3>2, Bounds, ActsOn
    <2>4. Ends(r, t, Legs + 1)
      BY <1>2, <2>1, <2>2, <2>3, Bounds, StreamFlushes
    <2> QED
      BY <1>2, <2>4, EndsSound
  <1> QED
    BY <1>4, <1>5

\* What is staged on a stream is its own, and clean unless it is a failure.
LEMMA StagedStream ==
  ASSUME NEW c \in ConnStates, NEW k \in Conns, AllOf(c.out, k), NEW kind \in Kinds \ {"own", "bad"}
  PROVE  LET d == Staged(c, k, kind)
         IN SameRun(c, d) /\ AllOf(d.out, k) /\ (Clean(c.out) => Clean(d.out)) /\ d.up = c.up
  <1>1. kind \in Kinds /\ c.out \in Seq(Items)
    BY DEF ConnStates
  <1>2. SameRun(c, Staged(c, k, kind)) /\ Staged(c, k, kind).up = c.up
    BY <1>1, StagedRun
  <1>3. Staged(c, k, kind).out = Append(c.out, Item(k, kind))
    BY <1>1, StagedIs
  <1>4. AllOf(Append(c.out, Item(k, kind)), k) /\ (Clean(c.out) => Clean(Append(c.out, Item(k, kind))))
    BY <1>1, AllOfs
  <1> QED
    BY <1>2, <1>3, <1>4

\* A token: the first makes its leg the winner.
LEMMA TokenSound ==
  ASSUME Sound(s), s.turn = 0, NEW i \in Conns, Token(i)
  PROVE  Sound(s')
  <1> DEFINE c == s.conn[i]
             k == c.req.leg
             a == Stage(s, i, "token")
             e == Staged(c, k, "token")
             d == [e EXCEPT !.req.token = TRUE]
             v == [s.ups[k] EXCEPT !.tokens = s.ups[k].tokens + 1]
             b == [a EXCEPT !.conn[i] = d]
             t == [b EXCEPT !.ups[k] = v]
  <1>1. Streams(i)
    BY DEF Token
  <1>2. /\ k \in Leg /\ k \in Conns /\ s \in States /\ c \in ConnStates /\ c.up = k
        /\ s.ups[k] \in Ups /\ s.ups[k].st = "ready" /\ AllOf(c.out, k)
    BY <1>1, StreamsAre
  <1>3. "token" \in Kinds \ {"own", "bad"}
    BY DEF Kinds
  <1>4. Moves(s, a, i, k, e, s.ups[k], s.recs[k])
    BY <1>2, <1>3, Stages DEF Staged
  <1>5. a \in States /\ a.conn[i] = e /\ a.ups[k] = s.ups[k] /\ a.recs[k] = s.recs[k]
    BY <1>2, <1>4 DEF Moves, Unmoved
  <1>6. SameRun(c, e) /\ AllOf(e.out, k) /\ (Clean(c.out) => Clean(e.out)) /\ e.up = k /\ e \in ConnStates
    BY <1>2, <1>3, StagedStream DEF SameRun
  <1> HIDE DEF e, a
  <1>7. SameRun(e, d) /\ d.out = e.out /\ d.up = e.up /\ d \in ConnStates
    BY <1>6, TokenIs DEF SameRun
  <1>8. v \in Ups /\ v.st = "ready"
    <2>1. \A u \in Ups : [u EXCEPT !.tokens = u.tokens + 1] \in Ups /\ [u EXCEPT !.tokens = u.tokens + 1].st = u.st
      BY DEF Ups
    <2> QED
      BY <1>2, <2>1
  <1>9. [a EXCEPT !.conn[i].req.token = TRUE, !.ups[c.up].tokens = a.ups[c.up].tokens + 1] = t
    BY <1>2, <1>5
  <1>10. s' \in StreamFlush(t, i)
    <2>1. s' \in StreamFlush([a EXCEPT !.conn[i].req.token = TRUE, !.ups[c.up].tokens = a.ups[c.up].tokens + 1], i)
      BY DEF Token, Then, a
    <2> QED
      BY <1>9, <2>1
  <1> HIDE DEF d, v, k
  <1>11. Moves(a, b, i, k, d, s.ups[k], s.recs[k])
    BY <1>2, <1>5, <1>7, ConnMoves
  <1>12. b \in States /\ b.conn[i] = d /\ b.recs[k] = s.recs[k]
    BY <1>11 DEF Moves, Unmoved
  <1> HIDE DEF b
  <1>13. Moves(b, t, i, k, d, v, s.recs[k])
    BY <1>2, <1>8, <1>12, UpMoves
  <1> HIDE DEF t
  <1>14. Moves(s, b, i, k, d, s.ups[k], s.recs[k])
    BY <1>2, <1>4, <1>11, MovesOn
  <1>15. Moves(s, t, i, k, d, v, s.recs[k])
    BY <1>2, <1>13, <1>14, MovesOn
  <1>16. Streamed(c, d, v, k)
    <2>1. SameRun(c, d)
      BY <1>6, <1>7, SameRunOn
    <2> QED
      BY <1>6, <1>7, <1>8, <2>1 DEF Streamed
  <1>17. k = s.conn[i].req.leg
    BY DEF k
  <1> HIDE DEF c
  <1> QED
    BY <1>1, <1>10, <1>15, <1>16, <1>17, FlushAfter DEF c

\* A stream's end.
LEMMA StreamEndSound ==
  ASSUME Sound(s), s.turn = 0, NEW i \in Conns, StreamEnd(i)
  PROVE  Sound(s')
  <1> DEFINE c == s.conn[i]
             k == c.req.leg
             a == Stage(s, i, "done")
             e == Staged(c, k, "done")
             d == [e EXCEPT !.req.ended = TRUE]
             t == [a EXCEPT !.conn[i] = d]
  <1>1. Streams(i)
    BY DEF StreamEnd
  <1>2. /\ k \in Leg /\ k \in Conns /\ s \in States /\ c \in ConnStates /\ c.up = k
        /\ s.ups[k] \in Ups /\ s.ups[k].st = "ready" /\ AllOf(c.out, k)
    BY <1>1, StreamsAre
  <1>3. "done" \in Kinds \ {"own", "bad"}
    BY DEF Kinds
  <1>4. Moves(s, a, i, k, e, s.ups[k], s.recs[k])
    BY <1>2, <1>3, Stages DEF Staged
  <1>5. a \in States /\ a.conn[i] = e /\ a.ups[k] = s.ups[k] /\ a.recs[k] = s.recs[k]
    BY <1>2, <1>4 DEF Moves, Unmoved
  <1>6. SameRun(c, e) /\ AllOf(e.out, k) /\ (Clean(c.out) => Clean(e.out)) /\ e.up = k /\ e \in ConnStates
    BY <1>2, <1>3, StagedStream, SMTT(30) DEF SameRun
  <1> HIDE DEF e, a
  <1>7. SameRun(e, d) /\ d.out = e.out /\ d.up = e.up /\ d \in ConnStates
    BY <1>6, EndedIs DEF SameRun
  <1>8. [a EXCEPT !.conn[i].req.ended = TRUE] = t
    BY <1>5
  <1>9. s' \in StreamFlush(t, i)
    <2>1. s' \in StreamFlush([a EXCEPT !.conn[i].req.ended = TRUE], i)
      BY DEF StreamEnd, Then, a
    <2> QED
      BY <1>8, <2>1
  <1> HIDE DEF d, k
  <1>10. Moves(a, t, i, k, d, s.ups[k], s.recs[k])
    BY <1>2, <1>5, <1>7, ConnMoves
  <1> HIDE DEF t
  <1>11. Moves(s, t, i, k, d, s.ups[k], s.recs[k])
    BY <1>2, <1>4, <1>10, MovesOn
  <1>12. Streamed(c, d, s.ups[k], k)
    <2>1. SameRun(c, d)
      BY <1>6, <1>7, SameRunOn
    <2> QED
      BY <1>2, <1>6, <1>7, <2>1 DEF Streamed
  <1>13. k = s.conn[i].req.leg
    BY DEF k
  <1> HIDE DEF c
  <1> QED
    BY <1>1, <1>9, <1>11, <1>12, <1>13, FlushAfter DEF c

\* A truncated stream's connection.
LEMMA Truncates ==
  ASSUME Sound(s), s.turn = 0, NEW i \in Conns, Streams(i), NEW k, k = s.conn[i].req.leg
  PROVE  LET d == Cropped(s.conn[i])
         IN /\ Moves(s, Truncated(s, i), i, k, d, s.ups[k], s.recs[k])
            /\ SameRun(s.conn[i], d) /\ d \in ConnStates /\ d.out = s.conn[i].out /\ d.up = k /\ d.req.ended
  <1> DEFINE c == s.conn[i]
             d == Cropped(c)
  <1>1. k \in Conns /\ s \in States /\ c \in ConnStates /\ c.up = k
    BY StreamsAre
  <1>2. SameRun(c, d) /\ d.out = c.out /\ d.up = c.up /\ d.req.ended /\ d \in ConnStates
    BY <1>1, CroppedIs DEF SameRun
  <1>3. Truncated(s, i) = [s EXCEPT !.conn[i] = d]
    BY DEF Truncated
  <1> HIDE DEF d
  <1>4. Moves(s, [s EXCEPT !.conn[i] = d], i, k, d, s.ups[k], s.recs[k])
    BY <1>1, <1>2, ConnMoves
  <1> QED
    BY <1>1, <1>2, <1>3, <1>4 DEF d

\* A stream that cannot be decoded.
LEMMA CorruptSound ==
  ASSUME Sound(s), s.turn = 0, NEW i \in Conns, Corrupt(i)
  PROVE  Sound(s')
  <1> DEFINE c == s.conn[i]
             k == c.req.leg
             d == Cropped(c)
             t == Truncated(s, i)
  <1>1. Streams(i) /\ s' \in StreamFlush(t, i)
    BY DEF Corrupt, Then
  <1>2. c.up = k /\ s.ups[k].st = "ready" /\ AllOf(c.out, k)
    BY <1>1, StreamsAre
  <1>3. /\ Moves(s, t, i, k, d, s.ups[k], s.recs[k])
        /\ SameRun(c, d) /\ d.out = c.out /\ d.up = k
    BY <1>1, Truncates
  <1>4. Streamed(c, d, s.ups[k], k)
    BY <1>2, <1>3 DEF Streamed
  <1> HIDE DEF d, t
  <1> QED
    BY <1>1, <1>3, <1>4, FlushAfter

\* The venue's end of a stream: its connection is dropped.
LEMMA EofSound ==
  ASSUME Sound(s), s.turn = 0, NEW i \in Conns, Streams(i), NEW k, k = s.conn[i].req.leg,
         NEW t, NEW d, Moves(s, t, i, k, d, s.ups[k], s.recs[k]), SameRun(s.conn[i], d), d.out = s.conn[i].out,
         d.up = k, d.req.ended, NEW r \in StreamFlush(DropUp(t, i), i)
  PROVE  Sound(r)
  <1> DEFINE c == s.conn[i]
             q == DropUp(t, i)
             e == [d EXCEPT !.up = 0]
             v == [s.ups[k] EXCEPT !.st = "closed"]
  <1>1. k \in Leg /\ k \in Conns /\ s \in States /\ s.ups[k] \in Ups /\ AllOf(c.out, k)
    BY StreamsAre
  <1>2. t \in States /\ t.conn[i] = d /\ t.ups[k] = s.ups[k] /\ t.recs[k] = s.recs[k]
    BY <1>1 DEF Moves, Unmoved
  <1>3. k # 0
    BY <1>1, Zero
  <1>4. Moves(t, q, i, k, e, v, s.recs[k])
    BY <1>1, <1>2, <1>3, Drops
  <1>5. d \in ConnStates
    BY DEF SameRun
  <1>6. SameRun(d, e) /\ e.out = d.out /\ e.up = 0
    BY <1>5, UnpairedRun
  <1>7. e.req.ended
    BY <1>5 DEF ConnStates
  <1>8. Quiet(v)
    BY <1>1 DEF Quiet, Ups
  <1> HIDE DEF e, v, q
  <1>9. Moves(s, q, i, k, e, v, s.recs[k])
    <2> DEFINE m == s.recs[k]
               w == s.ups[k]
    <2>1. k \in Conns /\ Moves(s, t, i, k, d, w, m) /\ Moves(t, q, i, k, e, v, m)
      BY <1>1, <1>4
    <2> HIDE DEF m, w
    <2>2. Moves(s, q, i, k, e, v, m)
      BY <2>1, MovesOn
    <2> QED
      BY <2>2 DEF m
  <1>10. Streamed(c, e, v, k)
    <2>1. SameRun(c, e)
      BY <1>6, SameRunOn
    <2> QED
      BY <1>1, <1>6, <1>7, <1>8, <2>1 DEF Streamed
  <1>11. r \in StreamFlush(q, i)
    BY DEF q
  <1> QED
    BY <1>9, <1>10, <1>11, FlushAfter

\* stream_on_upstream_eof, of a stream ended before, ended by it or truncated by it.
LEMMA StreamEofSound ==
  ASSUME Sound(s), s.turn = 0, NEW i \in Conns, StreamEof(i)
  PROVE  Sound(s')
  <1> DEFINE c == s.conn[i]
             k == c.req.leg
             d == [c EXCEPT !.req.ended = TRUE]
             z == [s EXCEPT !.conn[i].req.ended = TRUE]
  <1>1. Streams(i)
    BY DEF StreamEof
  <1>2. k \in Conns /\ s \in States /\ c \in ConnStates /\ c.up = k
    BY <1>1, StreamsAre
  <1>3. \/ s.conn[i].req.ended /\ s' \in StreamFlush(DropUp(s, i), i)
        \/ s' \in StreamFlush(DropUp(z, i), i)
        \/ s' \in StreamFlush(DropUp(Truncated(s, i), i), i)
    BY DEF StreamEof, Then
  <1>4. CASE s.conn[i].req.ended /\ s' \in StreamFlush(DropUp(s, i), i)
    <2>1. Moves(s, s, i, k, c, s.ups[k], s.recs[k])
      BY <1>2 DEF Moves, Unmoved
    <2>2. SameRun(c, c)
      BY <1>2 DEF SameRun
    <2> QED
      BY <1>1, <1>2, <1>4, <2>1, <2>2, EofSound
  <1>5. CASE s' \in StreamFlush(DropUp(z, i), i)
    <2>1. SameRun(c, d) /\ d.out = c.out /\ d.up = c.up /\ d.req.ended /\ d \in ConnStates
      BY <1>2, EndedIs DEF SameRun
    <2>2. z = [s EXCEPT !.conn[i] = d]
      OBVIOUS
    <2> HIDE DEF d, z
    <2>3. Moves(s, z, i, k, d, s.ups[k], s.recs[k])
      BY <1>2, <2>1, <2>2, ConnMoves
    <2> QED
      BY <1>1, <1>2, <1>5, <2>1, <2>3, EofSound
  <1>6. CASE s' \in StreamFlush(DropUp(Truncated(s, i), i), i)
    <2> DEFINE e == Cropped(c)
    <2>1. /\ Moves(s, Truncated(s, i), i, k, e, s.ups[k], s.recs[k])
          /\ SameRun(c, e) /\ e.out = c.out /\ e.up = k /\ e.req.ended
      BY <1>1, Truncates
    <2> HIDE DEF e
    <2> QED
      BY <1>1, <1>6, <2>1, EofSound
  <1> QED
    BY <1>3, <1>4, <1>5, <1>6

\* A stream that is aborted.
LEMMA StreamAbortsSound ==
  ASSUME Sound(s), s.turn = 0, NEW i \in Conns, StreamAborts(i)
  PROVE  Sound(s')
  <1>1. Streams(i) /\ s' \in Abort(s, i)
    BY DEF StreamAborts
  <1>2. CASE i = 0
    <2>1. Settled(s)
      BY <1>1, <1>2, StreamsAre
    <2> QED
      BY <1>1, <1>2, <2>1, Aborts DEF Abort, Sound
  <1>3. CASE i # 0
    <2>1. i \in Leg /\ Acting(s, i, Legs + 1) /\ s.conn[i].req.phase = "Streaming"
      BY <1>1, <1>3, StreamsAre
    <2>2. s' \in CloseShadow(s, i)
      BY <1>1, <1>3 DEF Abort
    <2>3. Ends(s', s, Legs + 1)
      BY <2>1, <2>2, Bounds, ClosesShadow
    <2> QED
      BY <2>3, EndsSound
  <1> QED
    BY <1>2, <1>3

\* A leg that streams, its deadline over: it ends as any leg that is closed.
LEMMA SilentLeg ==
  ASSUME Sound(s), s.turn = 0, NEW i \in Leg, s.conn[i].open, s.conn[i].req.streaming,
         NEW r \in CloseShadow(Truncated(s, i), i)
  PROVE  Sound(r)
  <1> DEFINE c == s.conn[i]
             d == Cropped(c)
             t == Truncated(s, i)
  <1>1. /\ Acting(s, i, Legs + 1) /\ LegRuns(c, s.ups[i], s.recs[i], i) /\ c.up = i /\ c.req.leg = i
        /\ c.req.phase # "Idle"
    BY LegOpen
  <1>2. i \in Conns /\ i # 0
    BY Zero
  <1>3. Streams(i)
    BY <1>1, <1>2 DEF Streams, Holder, LegRuns
  <1>4. /\ Moves(s, t, i, i, d, s.ups[i], s.recs[i])
        /\ SameRun(c, d) /\ d \in ConnStates /\ d.out = c.out /\ d.up = i
    BY <1>1, <1>2, <1>3, Truncates
  <1>5. LegActs(d, s.ups[i], s.recs[i], i)
    <2>1. LegActs(c, s.ups[i], s.recs[i], i)
      BY <1>1 DEF Acting
    <2> QED
      BY <1>1, <1>4, <2>1 DEF LegActs, LegBase, SameRun, Recorded
  <1>6. d.req.phase # "Idle"
    BY <1>1, <1>4 DEF SameRun
  <1> HIDE DEF d, t
  <1>7. Acting(t, i, Legs + 1)
    BY <1>1, <1>4, <1>5, Bounds, ActsOn
  <1>8. t.conn[i] = d /\ t.turn = 0
    BY <1>4 DEF Moves, Unmoved
  <1>9. Ends(r, t, Legs + 1)
    BY <1>6, <1>7, <1>8, Bounds, ClosesShadow DEF t
  <1> QED
    BY <1>8, <1>9, EndsSound

\* A client whose winner's stream is silent past the deadline.
LEMMA SilentClient ==
  ASSUME NEW t, Settled(t), t.conn[0].open, t.conn[0].req.streaming
  PROVE  Settled(AbortClient(Truncated(t, 0))) /\ AbortClient(Truncated(t, 0)).turn = t.turn
  <1> DEFINE c == t.conn[0]
             k == c.req.leg
             d == Cropped(c)
             r == Truncated(t, 0)
  <1>1. /\ t \in States /\ 0 \in Conns /\ k \in Conns /\ c \in ConnStates
        /\ ClientStep(t, c, t.ups[k], t.recs[k], k)
    BY StepStarts
  <1>2. SameRun(c, d) /\ d.out = c.out /\ d.up = c.up /\ d \in ConnStates
    BY <1>1, CroppedIs DEF SameRun
  <1>3. r = [t EXCEPT !.conn[0] = d]
    BY DEF Truncated
  <1> HIDE DEF d, r
  <1>4. Moves(t, r, 0, k, d, t.ups[k], t.recs[k])
    BY <1>1, <1>2, <1>3, ConnMoves
  <1>5. c.req.phase = "Streaming"
    BY <1>1 DEF ClientStep, ClientOver, Modes
  <1>6. ClientStep(t, d, t.ups[k], t.recs[k], k)
    <2>1. ClientTally(t, d, t.recs[k])
      BY <1>1, <1>2 DEF ClientStep, ClientTally, SameRun, Recorded
    <2>2. ClientOver(d)
      BY <1>2, <1>5 DEF ClientOver, Modes, SameRun
    <2>3. Holds(d, t.ups[k])
      BY <1>1, <1>2 DEF ClientStep, Holds, SameRun
    <2> QED
      BY <1>1, <1>2, <2>1, <2>2, <2>3 DEF ClientStep, SameRun
  <1>7. t.conn[0].req.leg = k
    OBVIOUS
  <1> HIDE DEF k
  <1>8. Settled(r) /\ r.turn = t.turn
    BY <1>1, <1>4, <1>6, <1>7, SettledOn
  <1> QED
    BY <1>8, Aborts DEF r

\* The sweep's deadline, on a leg and on the client.
LEMMA SilentSound ==
  ASSUME Sound(s), s.turn = 0, NEW i \in Conns, Silent(i)
  PROVE  Sound(s')
  <1>1. s.conn[i].open /\ ~ (i = 0 /\ s.waiting) /\ (s.conn[i].up # 0 \/ s.conn[i].req.streaming)
    BY DEF Silent
  <1>2. IF s.conn[i].req.streaming THEN s' \in Abort(Truncated(s, i), i) ELSE s' \in ErrorRespond(s, i)
    BY DEF Silent, Then
  <1>3. CASE i = 0
    <2>1. Settled(s)
      BY <1>1, <1>3 DEF Sound, Racing, ClientWaits
    <2>2. CASE s.conn[i].req.streaming
      <3>1. s' = AbortClient(Truncated(s, 0))
        BY <1>2, <1>3, <2>2 DEF Abort
      <3> QED
        BY <1>1, <1>3, <2>1, <2>2, <3>1, SilentClient DEF Sound
    <2>3. CASE ~ s.conn[i].req.streaming
      <3>1. s.conn[0].req.phase # "Idle"
        BY <1>1, <1>3, <2>1, <2>3 DEF Settled, ClientOver
      <3>2. s' \in ErrorRespondClient(s)
        BY <1>2, <1>3, <2>3 DEF ErrorRespond
      <3> QED
        BY <2>1, <3>1, <3>2, ErrorsSettled DEF Sound
    <2> QED
      BY <2>2, <2>3
  <1>4. CASE i # 0
    <2>1. i \in Leg
      BY <1>4, Zero
    <2>2. CASE s.conn[i].req.streaming
      BY <1>1, <1>2, <1>4, <2>1, <2>2, SilentLeg DEF Abort
    <2>3. CASE ~ s.conn[i].req.streaming
      <3>1. Acting(s, i, Legs + 1) /\ s.conn[i].req.phase # "Idle" /\ Modes(s.conn[i].req)
        BY <1>1, <2>1, LegOpen
      <3>2. Ends(s', s, Legs + 1)
        BY <1>2, <2>1, <2>3, <3>1, Bounds, ErrorResponds
      <3> QED
        BY <3>2, EndsSound
    <2> QED
      BY <2>2, <2>3
  <1> QED
    BY <1>3, <1>4

\* The client's socket takes more.
LEMMA DrainsSound ==
  ASSUME Sound(s), s.turn = 0, Drains
  PROVE  Sound(s')
  <1>1. s.conn[0].open /\ s.conn[0].owes /\ ~ s.waiting
    BY DEF Drains
  <1>2. Settled(s)
    BY <1>1 DEF Sound, Racing, ClientWaits
  <1>3. s.conn[0].req.phase \in {"Streaming", "Replying"} /\ Modes(s.conn[0].req)
    BY <1>1, <1>2 DEF Settled, ClientOver
  <1>4. CASE s.conn[0].req.streaming
    <2>1. s' \in FlushClient(s) /\ s.conn[0].req.phase = "Streaming"
      BY <1>3, <1>4 DEF Drains, Modes
    <2> QED
      BY <1>1, <1>2, <2>1, FlushesClient DEF Sound
  <1>5. CASE ~ s.conn[0].req.streaming
    <2>1. s' \in RespondClient(s) /\ s.conn[0].req.phase = "Replying"
      BY <1>3, <1>5 DEF Drains, Modes
    <2> QED
      BY <1>1, <1>2, <2>1, RespondsClient DEF Sound
  <1> QED
    BY <1>4, <1>5

\* The client leaves, before the race is settled or after.
LEMMA ClientGoneSound ==
  ASSUME Sound(s), s.turn = 0, ClientGone
  PROVE  Sound(s')
  <1>1. s' \in {CloseClient(s), AbortClient(s)}
    BY DEF ClientGone
  <1>2. CASE Settled(s)
    BY <1>1, <1>2, Closes, Aborts DEF Sound
  <1>3. CASE Racing(s, Legs + 1)
    <2>1. Settled(CloseClient(s)) /\ CloseClient(s).turn = 0
      BY <1>3, Leaves
    <2>2. Settled(AbortClient(s)) /\ AbortClient(s).turn = 0
      BY <2>1, LeftIs DEF AbortClient
    <2> QED
      BY <1>1, <2>1, <2>2 DEF Sound
  <1> QED
    BY <1>2, <1>3 DEF Sound, Unsent

\* A connection that waits for its venue is a leg's.
LEMMA WaitsAre ==
  ASSUME Sound(s), s.turn = 0, NEW i \in Conns, NEW st, Holder(i, st), st = "dialing" \/ s.conn[i].req.phase = "Dispatched"
  PROVE  LET c == s.conn[i]
         IN /\ i \in Leg /\ i # 0 /\ Acting(s, i, Legs + 1) /\ LegRuns(c, s.ups[i], s.recs[i], i) /\ c.up = i
            /\ c.req.leg = i /\ c.req.phase = "Dispatched" /\ ~ c.req.streaming /\ ~ c.owes /\ AllOf(c.out, i)
            /\ s \in States /\ c \in ConnStates /\ s.ups[i] \in Ups /\ s.recs[i] = 0
            /\ LegActs(c, s.ups[i], s.recs[i], i) /\ c.out \in Seq(Items) /\ s.ups[i].st = st
  <1> DEFINE c == s.conn[i]
  <1>1. c.open /\ c.up # 0 /\ s.ups[c.up].st = st
    BY DEF Holder
  <1>2. i # 0
    BY <1>1, ClientHolds
  <1>3. i \in Leg
    BY <1>2, Zero
  <1>4. Acting(s, i, Legs + 1) /\ LegRuns(c, s.ups[i], s.recs[i], i) /\ c.up = i /\ c.req.leg = i
    BY <1>1, <1>3, LegOpen
  <1>5. c.req.phase = "Dispatched" /\ ~ c.req.streaming
    BY <1>1, <1>4 DEF LegRuns, Modes
  <1>6. ~ c.owes /\ s.recs[i] = 0 /\ AllOf(c.out, i)
    BY <1>4, <1>5 DEF LegRuns, LegBase
  <1>7. s \in States /\ c \in ConnStates /\ s.ups[i] \in Ups /\ c.out \in Seq(Items)
    BY <1>3, <1>4, Bounds, ActsTyped
  <1>8. LegActs(c, s.ups[i], s.recs[i], i)
    BY <1>4 DEF Acting
  <1> QED
    BY <1>1, <1>2, <1>3, <1>4, <1>5, <1>6, <1>7, <1>8

\* Its venue connection changes, and the leg still waits for it.
LEMMA UpSound ==
  ASSUME Sound(s), s.turn = 0, NEW i \in Leg, Acting(s, i, Legs + 1), LegRuns(s.conn[i], s.ups[i], s.recs[i], i),
         s.conn[i].req.phase = "Dispatched", NEW v \in Ups, v.st \in {"dialing", "ready"},
         NEW r, r = [s EXCEPT !.ups[i] = v]
  PROVE  Sound(r)
  <1> DEFINE c == s.conn[i]
  <1>1. s \in States /\ i \in Conns
    BY Zero DEF Acting
  <1>2. Moves(s, r, i, i, c, v, s.recs[i])
    BY <1>1, UpMoves
  <1>3. LegRuns(c, v, s.recs[i], i)
    BY DEF LegRuns, Quiet, Modes
  <1>4. LegActs(c, v, s.recs[i], i)
    BY <1>3, Zero DEF LegRuns, LegActs, Recorded
  <1>5. Acting(r, i, Legs + 1)
    BY <1>2, <1>4, Bounds, ActsOn
  <1>6. r.conn[i] = c /\ r.ups[i] = v /\ r.recs[i] = s.recs[i] /\ r.turn = 0
    BY <1>2 DEF Moves, Unmoved
  <1>7. Racing(r, Legs + 1)
    BY <1>3, <1>5, <1>6, Bounds, RunsOn
  <1> QED
    BY <1>6, <1>7 DEF Sound, Unsent

\* A venue accepts.
LEMMA ConnectedSound ==
  ASSUME Sound(s), s.turn = 0, NEW i \in Conns, Connected(i)
  PROVE  Sound(s')
  <1> DEFINE v == [s.ups[i] EXCEPT !.st = "ready"]
  <1>1. Holder(i, "dialing") /\ s' = [s EXCEPT !.ups[s.conn[i].up].st = "ready"]
    BY DEF Connected
  <1>2. /\ i \in Leg /\ Acting(s, i, Legs + 1) /\ LegRuns(s.conn[i], s.ups[i], s.recs[i], i) /\ s.conn[i].up = i
        /\ s.conn[i].req.phase = "Dispatched" /\ s.ups[i] \in Ups
    BY <1>1, WaitsAre
  <1>3. v \in Ups /\ v.st = "ready"
    BY <1>2 DEF Ups
  <1>4. s' = [s EXCEPT !.ups[i] = v]
    BY <1>1, <1>2
  <1> HIDE DEF v
  <1> QED
    BY <1>2, <1>3, <1>4, UpSound

\* A venue refuses, or its connect deadline passes.
LEMMA ConnectFailsSound ==
  ASSUME Sound(s), s.turn = 0, NEW i \in Conns, ConnectFails(i)
  PROVE  Sound(s')
  <1> DEFINE c == s.conn[i]
             d == [c EXCEPT !.up = 0]
             v == [s.ups[i] EXCEPT !.st = "closed"]
             t == DropUp(s, i)
  <1>1. Holder(i, "dialing") /\ s' \in ErrorRespond(t, i)
    BY DEF ConnectFails, Then
  <1>2. /\ i \in Leg /\ i # 0 /\ Acting(s, i, Legs + 1) /\ c.up = i /\ c.req.phase = "Dispatched" /\ ~ c.req.streaming
        /\ s \in States /\ c \in ConnStates /\ s.ups[i] \in Ups /\ LegActs(c, s.ups[i], s.recs[i], i)
    BY <1>1, WaitsAre
  <1>3. Moves(s, t, i, i, d, v, s.recs[i])
    BY <1>2, Drops
  <1>4. d.open = c.open /\ d.of = c.of /\ d.req = c.req /\ d.out = c.out /\ d.up = 0
    BY <1>2 DEF ConnStates
  <1>5. Quiet(v)
    BY <1>2 DEF Quiet, Ups
  <1> HIDE DEF d, v, t
  <1>6. LegActs(d, v, s.recs[i], i)
    BY <1>2, <1>4, <1>5 DEF LegActs, LegBase
  <1>7. Acting(t, i, Legs + 1) /\ t.conn[i] = d /\ t.turn = 0
    <2>1. t.conn[i] = d /\ t.turn = 0
      BY <1>3 DEF Moves, Unmoved
    <2> QED
      BY <1>2, <1>3, <1>6, <2>1, Bounds, ActsOn
  <1>8. t.conn[i].req.phase # "Idle" /\ Modes(t.conn[i].req)
    BY <1>2, <1>4, <1>7 DEF Modes
  <1>9. Ends(s', t, Legs + 1)
    BY <1>1, <1>2, <1>7, <1>8, Bounds, ErrorResponds
  <1> QED
    BY <1>7, <1>9, EndsSound

\* A venue connection is lost before its reply: retried once, or an error.
LEMMA LostSound ==
  ASSUME Sound(s), s.turn = 0, NEW i \in Conns, Lost(i)
  PROVE  Sound(s')
  <1>1. Holder(i, "ready") /\ s.conn[i].req.phase = "Dispatched"
    BY DEF Lost, Awaits
  <1>2. /\ i \in Leg /\ Acting(s, i, Legs + 1) /\ LegRuns(s.conn[i], s.ups[i], s.recs[i], i) /\ s.conn[i].up = i
        /\ ~ s.conn[i].req.streaming
    BY <1>1, WaitsAre
  <1>3. CASE s' \in ErrorRespond(s, i)
    <2>1. Modes(s.conn[i].req)
      BY <1>1, <1>2 DEF Modes
    <2>2. Ends(s', s, Legs + 1)
      BY <1>1, <1>2, <1>3, <2>1, Bounds, ErrorResponds
    <2> QED
      BY <2>2, EndsSound
  <1>4. CASE s' = Retry(s, i)
    <2> DEFINE v == [NoUp EXCEPT !.st = "dialing"]
    <2>1. v \in Ups /\ v.st = "dialing"
      BY DEF NoUp, Ups
    <2>2. s' = [s EXCEPT !.ups[i] = v]
      BY <1>2, <1>4 DEF Retry
    <2> HIDE DEF v
    <2> QED
      BY <1>1, <1>2, <2>1, <2>2, UpSound
  <1> QED
    BY <1>3, <1>4 DEF Lost

\* A leg whose venue is done with: its connection is pooled or closed.
LEMMA ReleasesLeg ==
  ASSUME Sound(s), s.turn = 0, NEW i \in Conns, Awaits(i), NEW keep \in BOOLEAN
  PROVE  LET a == Release(s, i, keep)
             d == [s.conn[i] EXCEPT !.up = 0]
         IN /\ Moves(s, a, i, i, d, a.ups[i], s.recs[i]) /\ Quiet(a.ups[i]) /\ a.ups[i] \in Ups /\ d \in ConnStates
            /\ d.open = s.conn[i].open /\ d.of = s.conn[i].of /\ d.req = s.conn[i].req /\ d.out = s.conn[i].out
            /\ d.up = 0 /\ d.owes = s.conn[i].owes /\ LegActs(d, a.ups[i], s.recs[i], i)
  <1> DEFINE c == s.conn[i]
             d == [c EXCEPT !.up = 0]
             a == Release(s, i, keep)
  <1>1. /\ i \in Leg /\ c.up = i /\ s \in States /\ c \in ConnStates /\ s.ups[i] \in Ups
        /\ LegActs(c, s.ups[i], s.recs[i], i)
    BY WaitsAre DEF Awaits
  <1>2. PICK st \in {"pooled", "closed"} : Moves(s, a, i, i, d, [s.ups[i] EXCEPT !.st = st], s.recs[i])
    BY <1>1, Releases
  <1>3. /\ d \in ConnStates /\ d.open = c.open /\ d.of = c.of /\ d.req = c.req /\ d.out = c.out
        /\ d.up = 0 /\ d.owes = c.owes
    BY <1>1, Zero DEF ConnStates
  <1>4. [s.ups[i] EXCEPT !.st = st].st = st
    BY <1>1 DEF Ups
  <1> HIDE DEF d
  <1>5. a \in States /\ a.ups[i] = [s.ups[i] EXCEPT !.st = st]
    BY <1>1, <1>2 DEF Moves, Unmoved
  <1>6. Quiet(a.ups[i]) /\ a.ups[i] \in Ups
    BY <1>1, <1>4, <1>5 DEF Quiet, States
  <1>7. Moves(s, a, i, i, d, a.ups[i], s.recs[i])
    BY <1>2, <1>5
  <1>8. LegActs(d, a.ups[i], s.recs[i], i)
    BY <1>1, <1>3, <1>6 DEF LegActs, LegBase
  <1> QED
    BY <1>3, <1>6, <1>7, <1>8 DEF d

\* A reply that cannot be framed or translated.
LEMMA BadReplySound ==
  ASSUME Sound(s), s.turn = 0, NEW i \in Conns, BadReply(i)
  PROVE  Sound(s')
  <1>1. Awaits(i)
    BY DEF BadReply
  <1>2. /\ i \in Leg /\ Acting(s, i, Legs + 1) /\ s.conn[i].req.phase = "Dispatched" /\ ~ s.conn[i].req.streaming
    BY <1>1, WaitsAre DEF Awaits
  <1>3. Modes(s.conn[i].req)
    BY <1>2 DEF Modes
  <1>4. CASE s' \in ErrorRespond(s, i)
    <2>1. Ends(s', s, Legs + 1)
      BY <1>2, <1>3, <1>4, Bounds, ErrorResponds
    <2> QED
      BY <2>1, EndsSound
  <1>5. ASSUME NEW keep \in BOOLEAN, s' \in ErrorRespond(Release(s, i, keep), i) PROVE Sound(s')
    <2> DEFINE a == Release(s, i, keep)
               d == [s.conn[i] EXCEPT !.up = 0]
    <2>1. /\ Moves(s, a, i, i, d, a.ups[i], s.recs[i]) /\ d.req = s.conn[i].req
          /\ LegActs(d, a.ups[i], s.recs[i], i)
      BY <1>1, ReleasesLeg
    <2>2. s' \in ErrorRespond(a, i)
      BY <1>5
    <2> HIDE DEF a, d
    <2>3. a.conn[i] = d /\ a.turn = 0
      BY <2>1 DEF Moves, Unmoved
    <2>4. Acting(a, i, Legs + 1)
      BY <1>2, <2>1, Bounds, ActsOn
    <2>5. Ends(s', a, Legs + 1)
      BY <1>2, <1>3, <2>1, <2>2, <2>3, <2>4, Bounds, ErrorResponds
    <2> QED
      BY <2>3, <2>5, EndsSound
  <1> QED
    BY <1>4, <1>5 DEF BadReply, Then

\* A whole reply, a success or not.
LEMMA ReplySound ==
  ASSUME Sound(s), s.turn = 0, NEW i \in Conns, Reply(i)
  PROVE  Sound(s')
  <1>1. Awaits(i)
    BY DEF Reply
  <1>2. PICK ok \in BOOLEAN, keep \in BOOLEAN : s' \in Respond(Replied(s, i, ok, keep), i)
    BY DEF Reply, Then
  <1> DEFINE c == s.conn[i]
             kind == IF ok THEN "ok" ELSE "bad"
             a == Release(s, i, keep)
             d == [c EXCEPT !.up = 0]
             v == a.ups[i]
             b == Stage(a, i, kind)
             e == Staged(d, i, kind)
             f == Answered(e, ok)
             t == [b EXCEPT !.conn[i] = f]
  <1>3. /\ i \in Leg /\ Acting(s, i, Legs + 1) /\ c.req.leg = i /\ ~ c.req.streaming /\ AllOf(c.out, i)
        /\ c.out \in Seq(Items) /\ s \in States /\ LegRuns(c, s.ups[i], s.recs[i], i)
    BY <1>1, WaitsAre DEF Awaits
  <1>4. /\ Moves(s, a, i, i, d, v, s.recs[i]) /\ Quiet(v) /\ d \in ConnStates /\ d.open = c.open
        /\ d.of = c.of /\ d.req = c.req /\ d.out = c.out /\ d.up = 0
    BY <1>1, ReleasesLeg
  <1>5. kind \in Kinds
    BY DEF Kinds
  <1>6. ~ ok \/ kind \in Kinds \ {"own", "bad"}
    BY DEF Kinds
  <1>7. a \in States /\ a.conn[i] = d /\ a.recs[i] = s.recs[i]
    BY <1>4 DEF Moves, Unmoved
  <1>8. Replied(s, i, ok, keep) = [b EXCEPT !.conn[i] = Answered(b.conn[i], ok)]
    BY DEF Replied
  <1> HIDE DEF a, d, kind
  <1>9. Moves(a, b, i, i, e, v, s.recs[i])
    BY <1>3, <1>4, <1>5, <1>7, Stages DEF Staged
  <1>10. /\ e \in ConnStates /\ e.open = c.open /\ e.out = Append(c.out, Item(i, kind)) /\ e.up = 0
         /\ e.of = c.of /\ e.req = c.req
    <2>1. /\ e \in ConnStates /\ e.open = d.open /\ e.out = Append(d.out, Item(i, kind)) /\ e.up = d.up
          /\ e.of = d.of /\ e.req = d.req
      BY <1>4, <1>5, StagedIs
    <2> HIDE DEF e
    <2> QED
      BY <1>4, <2>1
  <1>11. b \in States /\ b.conn[i] = e /\ b.ups[i] = v /\ b.recs[i] = s.recs[i]
    BY <1>3, <1>9 DEF Moves, Unmoved
  <1>12. Replied(s, i, ok, keep) = t
    BY <1>8, <1>11
  <1> HIDE DEF e, b, v
  <1>13. /\ f \in ConnStates /\ f.open = c.open /\ f.of = c.of /\ f.out = e.out /\ f.up = 0
         /\ f.req.phase = "Replying" /\ f.req.failed = ~ ok /\ f.req.leg = i /\ f.req.sunk = c.req.sunk
         /\ f.req.cut = c.req.cut /\ f.req.streaming = c.req.streaming
    BY <1>3, <1>10, AnsweredIs
  <1> HIDE DEF f
  <1>14. Moves(b, t, i, i, f, v, s.recs[i])
    BY <1>3, <1>11, <1>13, ConnMoves
  <1> HIDE DEF t
  <1>15. Moves(s, t, i, i, f, v, s.recs[i])
    <2>1. Moves(s, b, i, i, e, v, s.recs[i])
      BY <1>3, <1>4, <1>9, MovesOn
    <2> QED
      BY <1>3, <1>14, <2>1, MovesOn
  <1>16. LegActs(f, v, s.recs[i], i)
    <2>1. AllOf(f.out, i) /\ (kind \in Kinds \ {"own", "bad"} /\ Clean(c.out) => Clean(f.out))
      BY <1>3, <1>5, <1>10, <1>13, AllOfs
    <2>2. Clean(c.out)
      BY <1>3 DEF LegRuns
    <2>3. Clean(f.out) \/ f.req.failed
      BY <1>6, <1>13, <2>1, <2>2
    <2>4. LegBase(f, i)
      BY <1>3, <1>13, <2>1 DEF LegRuns, LegBase
    <2>5. s.recs[i] = Recorded(f.req)
      BY <1>3, <1>13 DEF LegRuns, Recorded
    <2> QED
      BY <1>4, <1>13, <2>3, <2>4, <2>5 DEF LegActs
  <1>17. Acting(t, i, Legs + 1)
    BY <1>3, <1>15, <1>16, Bounds, ActsOn
  <1>18. t.conn[i] = f /\ t.turn = 0
    BY <1>15 DEF Moves, Unmoved
  <1>19. Ends(s', t, Legs + 1)
    BY <1>2, <1>3, <1>12, <1>13, <1>17, <1>18, Bounds, Responds
  <1> QED
    BY <1>18, <1>19, EndsSound

\* A stream's head: its leg holds it until the first token.
LEMMA BeginStreamSound ==
  ASSUME Sound(s), s.turn = 0, NEW i \in Conns, BeginStream(i)
  PROVE  Sound(s')
  <1> DEFINE c == s.conn[i]
             a == Stage(s, i, "head")
             e == Staged(c, i, "head")
             d == Began(e)
             t == [a EXCEPT !.conn[i] = d]
  <1>1. Awaits(i) /\ s' \in StreamFlush([a EXCEPT !.conn[i] = Began(a.conn[i])], i)
    BY DEF BeginStream, Then
  <1>2. /\ i \in Leg /\ Acting(s, i, Legs + 1) /\ LegRuns(c, s.ups[i], s.recs[i], i) /\ c.up = i
        /\ c.req.leg = i /\ AllOf(c.out, i) /\ s \in States /\ c \in ConnStates /\ s.ups[i].st = "ready"
    BY <1>1, WaitsAre DEF Awaits
  <1>3. "head" \in Kinds \ {"own", "bad"}
    BY DEF Kinds
  <1>4. Moves(s, a, i, i, e, s.ups[i], s.recs[i])
    BY <1>2, <1>3, Stages DEF Staged
  <1>5. a \in States /\ a.conn[i] = e /\ a.ups[i] = s.ups[i] /\ a.recs[i] = s.recs[i]
    BY <1>2, <1>4 DEF Moves, Unmoved
  <1>6. SameRun(c, e) /\ AllOf(e.out, i) /\ (Clean(c.out) => Clean(e.out)) /\ e.up = i /\ e \in ConnStates
    BY <1>2, <1>3, StagedStream DEF SameRun
  <1> HIDE DEF e, a
  <1>7. /\ d \in ConnStates /\ d.open = e.open /\ d.of = e.of /\ d.out = e.out /\ d.up = e.up
        /\ d.closing = e.closing
        /\ d.req.phase = "Streaming" /\ d.req.streaming /\ d.req.leg = e.req.leg /\ d.req.sunk = e.req.sunk
        /\ d.req.cut = e.req.cut /\ d.req.failed = e.req.failed /\ d.req.ended = e.req.ended
    BY <1>6, BeganIs
  <1>8. s' \in StreamFlush(t, i)
    BY <1>1, <1>5
  <1> HIDE DEF d
  <1>9. Moves(a, t, i, i, d, s.ups[i], s.recs[i])
    BY <1>2, <1>5, <1>7, ConnMoves
  <1> HIDE DEF t
  <1>10. Moves(s, t, i, i, d, s.ups[i], s.recs[i])
    BY <1>2, <1>4, <1>9, MovesOn
  <1>11. Streamer(d, s.ups[i], s.recs[i], i)
    <2>1. /\ c.open /\ c.of /\ ~ c.req.cut /\ ~ c.req.sunk /\ ~ c.req.failed /\ ~ c.req.ended /\ Clean(c.out) /\ ~ c.closing
          /\ s.recs[i] = 0
      BY <1>2 DEF LegRuns, LegBase
    <2>2. /\ d.open /\ d.of /\ d.req.leg = i /\ ~ d.req.cut /\ ~ d.req.sunk /\ ~ d.req.failed
          /\ Clean(d.out) /\ AllOf(d.out, i) /\ d.up = i
      BY <1>2, <1>6, <1>7, <2>1 DEF SameRun
    <2>3. ~ d.req.ended => ~ d.closing
      BY <1>6, <1>7, <2>1 DEF SameRun
    <2>4. LegActs(d, s.ups[i], s.recs[i], i)
      BY <1>2, <2>1, <2>2, Zero DEF LegActs, LegBase, Recorded
    <2>5. Holds(d, s.ups[i])
      BY <1>2, <1>7, <2>2 DEF Holds
    <2> QED
      BY <1>7, <2>2, <2>3, <2>4, <2>5 DEF Streamer
  <1>12. t.conn[i] = d /\ t.ups[i] = s.ups[i] /\ t.recs[i] = s.recs[i] /\ t.turn = 0
    BY <1>2, <1>10 DEF Moves, Unmoved
  <1>13. Acting(t, i, Legs + 1)
    BY <1>2, <1>10, <1>11, Bounds, ActsOn DEF Streamer
  <1>14. Ends(s', t, Legs + 1)
    BY <1>2, <1>8, <1>11, <1>12, <1>13, Bounds, StreamFlushes
  <1> QED
    BY <1>12, <1>14, EndsSound

-----------------------------------------------------------------------------
\* A request that is sent.
LEMMA PhaseIs ==
  ASSUME NEW c \in ConnStates
  PROVE  LET d == [c EXCEPT !.req.phase = "Dispatched"]
         IN /\ d \in ConnStates /\ d.open = c.open /\ d.of = c.of /\ d.out = c.out /\ d.up = c.up /\ d.owes = c.owes
            /\ d.closing = c.closing /\ d.req = [c.req EXCEPT !.phase = "Dispatched"]
            /\ d.req.phase = "Dispatched" /\ d.req.leg = c.req.leg /\ d.req.sunk = c.req.sunk /\ d.req.cut = c.req.cut
            /\ d.req.failed = c.req.failed /\ d.req.streaming = c.req.streaming /\ d.req.ended = c.req.ended
            /\ d.req.token = c.req.token
  <1> DEFINE f == [c.req EXCEPT !.phase = "Dispatched"]
             d == [c EXCEPT !.req = f]
  <1>1. /\ f \in Reqs /\ f.phase = "Dispatched" /\ f.leg = c.req.leg /\ f.sunk = c.req.sunk /\ f.cut = c.req.cut
        /\ f.failed = c.req.failed /\ f.streaming = c.req.streaming /\ f.ended = c.req.ended /\ f.token = c.req.token
    BY ReqIs DEF Reqs, Phases
  <1>2. f = [c.req EXCEPT !.phase = "Dispatched"] /\ d = [c EXCEPT !.req.phase = "Dispatched"]
    OBVIOUS
  <1> HIDE DEF f
  <1>3. /\ d \in ConnStates /\ d.open = c.open /\ d.of = c.of /\ d.out = c.out /\ d.up = c.up /\ d.owes = c.owes
        /\ d.closing = c.closing /\ d.req = f
    BY <1>1 DEF ConnStates
  <1> HIDE DEF d
  <1> QED
    BY <1>1, <1>2, <1>3

\* A request paired with its venue.
LEMMA AttemptIs ==
  ASSUME NEW c \in ConnStates, NEW i \in Leg
  PROVE  LET d == Attempt(c, i)
         IN /\ d \in ConnStates /\ d.open = c.open /\ d.of = c.of /\ d.out = c.out /\ d.up = i /\ d.owes = c.owes
            /\ d.closing = c.closing
            /\ d.req.phase = "Dispatched" /\ d.req.leg = c.req.leg /\ d.req.sunk = c.req.sunk /\ d.req.cut = c.req.cut
            /\ d.req.failed = c.req.failed /\ d.req.streaming = c.req.streaming /\ d.req.ended = c.req.ended
            /\ d.req.token = c.req.token
  <1> DEFINE b == [c EXCEPT !.up = i]
  <1>1. /\ b \in ConnStates /\ b.open = c.open /\ b.of = c.of /\ b.out = c.out /\ b.up = i /\ b.owes = c.owes
        /\ b.closing = c.closing /\ b.req = c.req
    BY Zero DEF ConnStates
  <1>2. Attempt(c, i) = [b EXCEPT !.req.phase = "Dispatched"]
    BY DEF Attempt
  <1> HIDE DEF b
  <1> QED
    BY <1>1, <1>2, PhaseIs

\* spawn_hedge's loop, at leg n: every leg before it was sent.
LEMMA Sending ==
  ASSUME Sound(s), s.turn # 0
  PROVE  LET n == s.turn
         IN /\ n \in Leg /\ n + 1 \in 1 .. Legs + 1 /\ Acting(s, n, n + 1)
            /\ LegWaits(s.conn[n], s.ups[n], s.recs[n], n)
  <1> DEFINE n == s.turn
  <1>1. Racing(s, n)
    BY DEF Sound, Unsent
  <1>2. n \in Leg /\ s \in States
    BY <1>1, Zero DEF Racing, States
  <1>3. n \in Nat /\ n + 1 \in 1 .. Legs + 1 /\ n < n + 1 /\ ~ (n < n)
    BY <1>2, LegsAssumption DEF Leg
  <1>4. n \in s.legs /\ LegWaits(s.conn[n], s.ups[n], s.recs[n], n)
    BY <1>1, <1>2, <1>3 DEF Racing, LegStatus, LegIn
  <1>5. \A j \in Leg : j # n => LegStatus(s, j, n + 1)
    <2> SUFFICES ASSUME NEW j \in Leg, j # n PROVE LegStatus(s, j, n + 1)
      OBVIOUS
    <2>1. (j < n) <=> (j < n + 1)
      BY <1>3 DEF Leg
    <2>2. LegStatus(s, j, n)
      BY <1>1 DEF Racing
    <2> HIDE DEF n
    <2> QED
      BY <2>1, <2>2 DEF LegStatus, LegIn
  <1>6. LegActs(s.conn[n], s.ups[n], s.recs[n], n)
    BY <1>4, Empties DEF LegWaits, LegActs, Recorded, Quiet
  <1> QED
    BY <1>1, <1>2, <1>3, <1>4, <1>5, <1>6 DEF Racing, Acting, Rest

\* The leg's attempt leaves the race on, or over if it was the last and every leg is gone.
LEMMA Dispatches ==
  ASSUME Sound(s), s.turn # 0, NEW r \in Dispatch(s, s.turn)
  PROVE  Ends(r, s, s.turn + 1)
  <1> DEFINE i == s.turn
             n == s.turn + 1
             c == s.conn[i]
             x == [NoUp EXCEPT !.st = "dialing"]
             y == [NoUp EXCEPT !.st = "ready", !.stale = TRUE]
             b == [c EXCEPT !.req.phase = "Dispatched"]
             t == [s EXCEPT !.conn[i] = b]
  <1>1. i \in Leg /\ n \in 1 .. Legs + 1 /\ Acting(s, i, n) /\ LegWaits(c, s.ups[i], s.recs[i], i)
    BY Sending
  <1>2. s \in States /\ i \in Conns /\ c \in ConnStates
    BY <1>1, Zero, ConnIs DEF Acting
  <1>3. x \in Ups /\ x.st = "dialing" /\ y \in Ups /\ y.st = "ready"
    BY DEF NoUp, Ups
  <1>4. r \in ErrorRespond(t, i) \/ r = Paired(s, i, x) \/ r = Paired(s, i, y)
    BY DEF Dispatch, Then
  <1>5. ASSUME NEW up \in Ups, up.st \in {"dialing", "ready"}, r = Paired(s, i, up) PROVE Ends(r, s, n)
    <2> DEFINE d == Attempt(c, i)
               a == [s EXCEPT !.ups[i] = up]
    <2>1. /\ d \in ConnStates /\ d.open = c.open /\ d.of = c.of /\ d.out = c.out /\ d.up = i /\ d.owes = c.owes
          /\ d.closing = c.closing
          /\ d.req.phase = "Dispatched" /\ d.req.leg = c.req.leg /\ d.req.sunk = c.req.sunk /\ d.req.cut = c.req.cut
          /\ d.req.failed = c.req.failed /\ d.req.streaming = c.req.streaming /\ d.req.ended = c.req.ended
          /\ d.req.token = c.req.token
      BY <1>1, <1>2, AttemptIs
    <2>2. Moves(s, a, i, i, c, up, s.recs[i])
      BY <1>1, <1>2, <1>5, UpMoves
    <2>3. a \in States /\ a.conn[i] = c /\ a.ups[i] = up /\ a.recs[i] = s.recs[i]
      BY <1>1, <2>2 DEF Moves, Unmoved
    <2>4. r = [a EXCEPT !.conn[i] = d]
      BY <1>5 DEF Paired
    <2> HIDE DEF d, a
    <2>5. Moves(a, r, i, i, d, up, s.recs[i])
      BY <1>2, <2>1, <2>3, <2>4, ConnMoves
    <2>6. Moves(s, r, i, i, d, up, s.recs[i])
      BY <1>2, <2>2, <2>5, MovesOn
    <2>7. LegRuns(d, up, s.recs[i], i)
      BY <1>1, <1>5, <2>1, Empties DEF LegWaits, LegRuns, LegBase, Modes, Quiet
    <2>8. LegActs(d, up, s.recs[i], i)
      BY <1>1, <2>7, Zero DEF LegRuns, LegActs, Recorded
    <2>9. Acting(r, i, n)
      BY <1>1, <2>6, <2>8, ActsOn
    <2>10. r.conn[i] = d /\ r.ups[i] = up /\ r.recs[i] = s.recs[i] /\ r.turn = s.turn
      BY <1>1, <2>6 DEF Moves, Unmoved
    <2>11. Racing(r, n)
      BY <1>1, <2>7, <2>9, <2>10, RunsOn
    <2> QED
      BY <2>10, <2>11 DEF Ends
  <1>6. CASE r \in ErrorRespond(t, i)
    <2>1. /\ b \in ConnStates /\ b.open = c.open /\ b.of = c.of /\ b.out = c.out /\ b.up = c.up
          /\ b.req.phase = "Dispatched" /\ b.req.leg = c.req.leg /\ b.req.sunk = c.req.sunk /\ b.req.cut = c.req.cut
          /\ b.req.failed = c.req.failed /\ b.req.streaming = c.req.streaming
      BY <1>2, PhaseIs
    <2> HIDE DEF b
    <2>2. Moves(s, t, i, i, b, s.ups[i], s.recs[i])
      BY <1>2, <2>1, ConnMoves
    <2> HIDE DEF t
    <2>3. LegActs(b, s.ups[i], s.recs[i], i)
      <3>1. LegActs(c, s.ups[i], s.recs[i], i)
        BY <1>1 DEF Acting
      <3> QED
        BY <2>1, <3>1 DEF LegActs, LegBase, Recorded
    <2>4. Acting(t, i, n)
      BY <1>1, <2>2, <2>3, ActsOn
    <2>5. t.conn[i] = b /\ t.turn = s.turn
      BY <2>2 DEF Moves, Unmoved
    <2>6. Modes(b.req)
      BY <1>1, <2>1 DEF LegWaits, Modes
    <2>7. Ends(r, t, n)
      BY <1>1, <1>6, <2>1, <2>4, <2>5, <2>6, ErrorResponds
    <2> QED
      BY <2>5, <2>7 DEF Ends
  <1> QED
    BY <1>3, <1>4, <1>5, <1>6

\* The turn of spawn_hedge's loop is no part of the race.
LEMMA TurnIs ==
  ASSUME NEW t \in States, NEW m \in Conns
  PROVE  LET r == [t EXCEPT !.turn = m]
         IN /\ r.turn = m /\ (\A n \in 1 .. Legs + 1 : Racing(t, n) => Racing(r, n)) /\ (Settled(t) => Settled(r))
  <1> DEFINE r == [t EXCEPT !.turn = m]
  <1>1. /\ r \in States /\ r.conn = t.conn /\ r.legs = t.legs /\ r.waiting = t.waiting /\ r.ups = t.ups
        /\ r.recs = t.recs /\ r.seen = t.seen /\ r.turn = m
    BY DEF States
  <1> HIDE DEF r
  <1>2. ASSUME NEW n \in 1 .. Legs + 1, Racing(t, n) PROVE Racing(r, n)
    BY <1>1, <1>2 DEF Racing, ClientWaits, LegStatus
  <1>3. ASSUME Settled(t) PROVE Settled(r)
    <2>1. Told(r) /\ Tally(r)
      BY <1>1, <1>3 DEF Settled, Told, NoneCut, Tally, NotHedged, NoWinner, Won
    <2> QED
      BY <1>1, <1>3, <2>1 DEF Settled
  <1> QED
    BY <1>1, <1>2, <1>3 DEF r

\* One turn of spawn_hedge's loop.
LEMMA SendLegSound ==
  ASSUME Sound(s), SendLeg
  PROVE  Sound(s')
  <1> DEFINE n == s.turn
             m == IF n = Legs THEN 0 ELSE n + 1
  <1>1. s.turn # 0
    BY DEF SendLeg
  <1>2. n \in Leg /\ n + 1 \in 1 .. Legs + 1 /\ s.conn[n].open
    BY <1>1, Sending DEF LegWaits, LegBase
  <1>3. PICK t \in Dispatch(s, n) : s' = Turned(t)
    BY <1>2 DEF SendLeg, Then
  <1>4. Ends(t, s, n + 1)
    BY <1>1, <1>3, Dispatches
  <1>5. t \in States /\ t.turn = n
    BY <1>4 DEF Ends, Racing, Settled
  <1>6. s' = [t EXCEPT !.turn = m]
    BY <1>3, <1>5 DEF Turned
  <1>7. m \in Conns /\ (IF m = 0 THEN Legs + 1 ELSE m) = n + 1 /\ (n + 1 = Legs + 1 => m = 0)
    BY <1>2, LegsAssumption DEF Leg, Conns
  <1> HIDE DEF m, n
  <1>8. /\ s'.turn = m /\ (\A k \in 1 .. Legs + 1 : Racing(t, k) => Racing(s', k)) /\ (Settled(t) => Settled(s'))
    BY <1>5, <1>6, <1>7, TurnIs
  <1>9. CASE Racing(t, n + 1)
    <2>1. Racing(s', n + 1)
      BY <1>2, <1>8, <1>9
    <2> QED
      BY <1>7, <1>8, <2>1 DEF Sound, Unsent
  <1>10. CASE Settled(t) /\ n + 1 = Legs + 1
    BY <1>7, <1>8, <1>10 DEF Sound
  <1> QED
    BY <1>4, <1>9, <1>10 DEF Ends

-----------------------------------------------------------------------------
\* A connection with a new request, or with none yet: nothing of an earlier race is left.
Blank(t) ==
  /\ t \in States /\ ~ t.waiting /\ t.legs = {} /\ t.seen = <<>> /\ t.turn = 0
  /\ \A j \in Leg : t.conn[j] = NewConn(j) /\ t.ups[j] = NoUp /\ t.recs[j] = 0
  /\ t.recs[0] = 0 /\ t.conn[0].open /\ t.conn[0].req = NewReq(0)
  /\ t.conn[0].out = <<>> /\ ~ t.conn[0].owes /\ t.conn[0].up = 0 /\ ~ t.conn[0].closing

\* The type of a new request.
LEMMA NewReqIs == ASSUME NEW i \in Conns PROVE NewReq(i) \in Reqs
  BY DEF NewReq, Reqs, Phases
\* The type of a new connection.
LEMMA NewConnIs == ASSUME NEW i \in Conns PROVE NewConn(i) \in ConnStates
  <1>1. NewReq(i) \in Reqs /\ <<>> \in Seq(Items) /\ 0 \in Conns
    BY NewReqIs, Zero
  <1> QED
    BY <1>1 DEF NewConn, ConnStates
\* The type of no venue connection.
LEMMA NoUpIs == NoUp \in Ups /\ NoUp.st = "none" /\ Quiet(NoUp)
  BY DEF NoUp, Ups, Quiet

\* Such a state is settled, and a failure there is the gateway's own reply.
LEMMA BlankIs ==
  ASSUME NEW t, Blank(t)
  PROVE  Bare(t) /\ Settled(t)
  <1>1. /\ NewReq(0).leg = 0 /\ NewReq(0).phase = "Idle" /\ ~ NewReq(0).streaming /\ ~ NewReq(0).sunk
    BY DEF NewReq
  <1>2. \A j \in Leg : ~ NewConn(j).open /\ ~ NewConn(j).req.cut
    BY Zero DEF NewConn, NewReq
  <1>3. NotHedged(t)
    BY <1>1 DEF NotHedged, Blank, Recorded
  <1>4. Bare(t)
    BY <1>1, <1>2, <1>3, NoUpIs DEF Blank, Bare
  <1>5. \A j \in Leg : LegOver(t.conn[j], t.ups[j], t.conn[0], j)
    BY <1>1, <1>2, NoUpIs, Zero DEF Blank, LegOver
  <1>6. Told(t)
    BY <1>1, Empties DEF Blank, Told
  <1>7. ClientOver(t.conn[0]) /\ Holds(t.conn[0], t.ups[t.conn[0].up])
    BY <1>1 DEF Blank, ClientOver, Holds, Modes
  <1> QED
    BY <1>3, <1>4, <1>5, <1>6, <1>7 DEF Blank, Settled, Tally

\* The first state.
LEMMA InitSound ==
  ASSUME Init
  PROVE  Sound(s)
  <1> DEFINE C == [i \in Conns |-> NewConn(i)]
             U == [i \in Leg |-> NoUp]
             R == [i \in Conns |-> 0]
  <1>1. C \in [Conns -> ConnStates] /\ U \in [Leg -> Ups] /\ R \in [Conns -> Nat]
    BY NewConnIs, NoUpIs
  <1>2. /\ C[0] = NewConn(0) /\ (\A j \in Leg : C[j] = NewConn(j) /\ U[j] = NoUp /\ R[j] = 0) /\ R[0] = 0
    BY Zero
  <1>3. s = [conn |-> C, legs |-> {}, waiting |-> FALSE, ups |-> U, recs |-> R, seen |-> <<>>, left |-> FALSE, turn |-> 0]
    BY DEF Init
  <1> HIDE DEF C, U, R
  <1>4. <<>> \in Seq(Items) /\ {} \in SUBSET Leg /\ 0 \in Conns
    BY Zero
  <1>5. /\ s \in States /\ s.conn = C /\ s.ups = U /\ s.recs = R /\ ~ s.waiting /\ s.legs = {} /\ s.seen = <<>>
        /\ s.turn = 0
    BY <1>1, <1>3, <1>4 DEF States
  <1>6. /\ NewConn(0).open /\ NewConn(0).req = NewReq(0) /\ NewConn(0).out = <<>> /\ ~ NewConn(0).owes
        /\ NewConn(0).up = 0 /\ ~ NewConn(0).closing
    BY DEF NewConn
  <1>7. Blank(s)
    BY <1>2, <1>5, <1>6 DEF Blank
  <1> QED
    BY <1>5, <1>7, BlankIs DEF Sound

\* A request on a connection that owes nothing starts afresh.
LEMMA FreshIs ==
  ASSUME NEW t, Settled(t), t.turn = 0, t.conn[0].open, t.conn[0].req.phase = "Idle"
  PROVE  Blank(Fresh(t))
  <1> DEFINE c == t.conn[0]
             d == [c EXCEPT !.req = NewReq(0)]
             C == [i \in Conns |-> IF i = 0 THEN d ELSE NewConn(i)]
             U == [i \in Leg |-> NoUp]
             R == [i \in Conns |-> 0]
             r == Fresh(t)
  <1>1. t \in States /\ 0 \in Conns /\ c \in ConnStates
    BY Zero, ConnIs DEF Settled
  <1>2. c.out = <<>> /\ ~ c.owes /\ c.up = 0 /\ ~ c.closing /\ ~ t.waiting /\ t.legs = {}
    BY DEF Settled, ClientOver
  <1>3. d \in ConnStates /\ d.open /\ d.req = NewReq(0) /\ d.out = <<>> /\ ~ d.owes /\ d.up = 0 /\ ~ d.closing
    <2>1. NewReq(0) \in Reqs
      BY <1>1, NewReqIs
    <2> QED
      BY <1>1, <1>2, <2>1 DEF ConnStates
  <1>4. r = [t EXCEPT !.conn = C, !.ups = U, !.recs = R, !.seen = <<>>]
    BY DEF Fresh
  <1> HIDE DEF d
  <1>5. C \in [Conns -> ConnStates] /\ U \in [Leg -> Ups] /\ R \in [Conns -> Nat]
    BY <1>3, NewConnIs, NoUpIs
  <1>6. /\ C[0] = d /\ (\A j \in Leg : C[j] = NewConn(j) /\ U[j] = NoUp /\ R[j] = 0) /\ R[0] = 0
    BY Zero
  <1> HIDE DEF C, U, R
  <1>7. <<>> \in Seq(Items)
    OBVIOUS
  <1>8. /\ r \in States /\ r.conn = C /\ r.ups = U /\ r.recs = R /\ r.waiting = t.waiting /\ r.legs = t.legs
        /\ r.seen = <<>> /\ r.turn = t.turn
    BY <1>1, <1>4, <1>5, <1>7 DEF States
  <1> HIDE DEF r
  <1>9. Blank(r)
    BY <1>2, <1>3, <1>6, <1>8 DEF Blank
  <1> QED
    BY <1>9 DEF r

\* Every leg is linked, none is sent.
LEMMA Links ==
  ASSUME NEW t, Blank(t)
  PROVE  Racing(Linked(t), 1) /\ Linked(t).turn = 1
  <1> DEFINE c == t.conn[0]
             d == [c EXCEPT !.req.phase = "Dispatched"]
             L(i) == [NewConn(i) EXCEPT !.open = TRUE, !.of = TRUE]
             C == [i \in Conns |-> IF i = 0 THEN d ELSE [t.conn[i] EXCEPT !.open = TRUE, !.of = TRUE]]
             r == Linked(t)
  <1>1. t \in States /\ 0 \in Conns /\ c \in ConnStates /\ 1 \in Leg /\ 1 \in Conns
    BY Zero, ConnIs, LegsAssumption DEF Blank, Leg, Conns
  <1>2. /\ d \in ConnStates /\ d.open /\ d.req = [NewReq(0) EXCEPT !.phase = "Dispatched"] /\ d.out = <<>>
        /\ ~ d.owes /\ d.up = 0 /\ ~ d.closing
    <2>1. /\ d \in ConnStates /\ d.open = c.open /\ d.out = c.out /\ d.up = c.up /\ d.owes = c.owes
          /\ d.closing = c.closing /\ d.req = [c.req EXCEPT !.phase = "Dispatched"]
      BY <1>1, PhaseIs
    <2> HIDE DEF d
    <2> QED
      BY <2>1 DEF Blank
  <1>3. r = [t EXCEPT !.conn = C, !.legs = Leg, !.waiting = TRUE, !.turn = 1]
    BY DEF Linked
  <1> HIDE DEF d
  <1>4. \A j \in Leg : /\ L(j) \in ConnStates /\ L(j).open /\ L(j).of /\ L(j).req = NewReq(j) /\ L(j).out = <<>>
                        /\ ~ L(j).owes /\ L(j).up = 0 /\ ~ L(j).closing
    <2> SUFFICES ASSUME NEW j \in Leg
                 PROVE  /\ L(j) \in ConnStates /\ L(j).open /\ L(j).of /\ L(j).req = NewReq(j) /\ L(j).out = <<>>
                        /\ ~ L(j).owes /\ L(j).up = 0 /\ ~ L(j).closing
      OBVIOUS
    <2>1. /\ NewConn(j) \in ConnStates /\ NewConn(j).req = NewReq(j) /\ NewConn(j).out = <<>>
          /\ ~ NewConn(j).owes /\ NewConn(j).up = 0 /\ ~ NewConn(j).closing
      <3>1. NewConn(j) \in ConnStates
        BY NewConnIs, Zero
      <3> QED
        BY <3>1 DEF NewConn
    <2> DEFINE e == NewConn(j)
    <2> HIDE DEF e
    <2>2. e \in ConnStates => LET f == [e EXCEPT !.open = TRUE, !.of = TRUE]
                             IN /\ f \in ConnStates /\ f.open /\ f.of /\ f.req = e.req /\ f.out = e.out
                                /\ f.owes = e.owes /\ f.up = e.up /\ f.closing = e.closing
      BY DEF ConnStates
    <2> QED
      BY <2>1, <2>2 DEF e
  <1>5. C[0] = d /\ \A j \in Leg : C[j] = L(j)
    BY <1>1, Zero DEF Blank
  <1> HIDE DEF L
  <1>6. C \in [Conns -> ConnStates]
    <2>1. C = [j \in Conns |-> C[j]]
      OBVIOUS
    <2> HIDE DEF C
    <2>2. \A j \in Conns : C[j] \in ConnStates
      BY <1>2, <1>4, <1>5, Zero
    <2> QED
      BY <2>1, <2>2
  <1> HIDE DEF C
  <1>7. /\ r \in States /\ r.conn = C /\ r.ups = t.ups /\ r.recs = t.recs /\ r.waiting = TRUE /\ r.legs = Leg
        /\ r.seen = t.seen /\ r.turn = 1
    BY <1>1, <1>3, <1>6 DEF States
  <1> HIDE DEF r
  <1>8. ClientWaits(r)
    BY <1>2, <1>5, <1>7 DEF Blank, ClientWaits
  <1>9. \A j \in Leg : LegStatus(r, j, 1)
    <2> SUFFICES ASSUME NEW j \in Leg PROVE LegWaits(L(j), NoUp, 0, j)
      BY <1>5, <1>7 DEF Blank, LegStatus, LegIn, Leg
    <2>1. /\ NewReq(j).leg = j /\ NewReq(j).phase = "Idle" /\ ~ NewReq(j).cut /\ ~ NewReq(j).sunk /\ ~ NewReq(j).failed
          /\ ~ NewReq(j).token /\ ~ NewReq(j).ended /\ ~ NewReq(j).streaming
      BY DEF NewReq
    <2> QED
      BY <1>4, <2>1, NoUpIs, Empties DEF LegWaits, LegBase, Modes
  <1>10. Racing(r, 1)
    BY <1>1, <1>7, <1>8, <1>9 DEF Racing
  <1> QED
    BY <1>7, <1>10 DEF r

\* A request: its legs are linked, or it is refused.
LEMMA AskSound ==
  ASSUME Sound(s), s.turn = 0, Ask
  PROVE  Sound(s')
  <1>1. s.conn[0].open /\ s.conn[0].req.phase = "Idle"
    BY DEF Ask
  <1>2. Settled(s)
    BY <1>1 DEF Sound, Racing, ClientWaits, NewReq
  <1>3. Blank(Fresh(s))
    BY <1>1, <1>2, FreshIs
  <1>4. PICK usable \in SUBSET Leg : s' \in ApplyHedge(Fresh(s), usable)
    BY DEF Ask, Then
  <1>5. CASE usable = Leg
    <2>1. s' = Linked(Fresh(s))
      BY <1>4, <1>5 DEF ApplyHedge
    <2> QED
      BY <1>3, <2>1, Links DEF Sound, Unsent
  <1>6. CASE usable # Leg
    <2>1. s' \in ErrorRespondClient(Fresh(s))
      BY <1>4, <1>6 DEF ApplyHedge
    <2>2. Bare(Fresh(s)) /\ Fresh(s).turn = 0
      BY <1>3, BlankIs DEF Blank
    <2> QED
      BY <2>1, <2>2, ErrorsBare DEF Sound
  <1> QED
    BY <1>5, <1>6

-----------------------------------------------------------------------------
\* Every handler outside spawn_hedge's loop.
LEMMA HandlerSound ==
  ASSUME Sound(s), s.turn = 0, Handler
  PROVE  Sound(s')
  <1>1. ASSUME NEW i \in Conns, VenueStep(i) PROVE Sound(s')
    BY <1>1, ConnectedSound, ConnectFailsSound, LostSound, ReplySound, BadReplySound, BeginStreamSound, TokenSound,
       StreamEndSound, CorruptSound, StreamEofSound, StreamAbortsSound DEF VenueStep
  <1>2. ASSUME NEW i \in Conns, Silent(i) PROVE Sound(s')
    BY <1>2, SilentSound
  <1> QED
    BY <1>1, <1>2, AskSound, DrainsSound, ClientGoneSound DEF Handler

\* The inductive invariant.
RaceHolds == Sound(s)

\* A race holds together: every state is that of a race still on, with each leg sent, waiting
\* or gone as it should be, or of one that is settled.
THEOREM HedgeInvariant == Spec => []RaceHolds
  <1>1. Init => RaceHolds
    BY InitSound DEF RaceHolds
  <1>2. RaceHolds /\ [Next]_s => RaceHolds'
    <2> SUFFICES ASSUME Sound(s), [Next]_s PROVE Sound(s')
      BY DEF RaceHolds
    <2>1. CASE SendLeg
      BY <2>1, SendLegSound
    <2>2. CASE s.turn = 0 /\ Handler
      BY <2>2, HandlerSound
    <2>3. CASE UNCHANGED s
      BY <2>3
    <2> QED
      BY <2>1, <2>2, <2>3 DEF Next
  <1> QED
    BY <1>1, <1>2, PTL DEF Spec

\* Every state has its type.
HedgeTypeOK == s \in States

\* The invariant gives the types.
LEMMA SoundTyped == RaceHolds => HedgeTypeOK
  BY DEF HedgeTypeOK, RaceHolds, Sound, Racing, Settled

\* The state of a hedged request has its types, whatever its legs do.
THEOREM HedgeTypeCorrect == Spec => []HedgeTypeOK
  BY HedgeInvariant, SoundTyped, PTL

\* What the client has read, from the invariant.
LEMMA SoundServes == RaceHolds => OneServes
  <1> SUFFICES ASSUME Sound(s) PROVE OneServes
    BY DEF RaceHolds
  <1> DEFINE w == s.conn[0].req.leg
             p == s.seen
             q == s.conn[0].out
  <1>1. p \in Seq(Items) /\ q \in Seq(Items)
    <2>1. s \in States
      BY SoundTyped DEF RaceHolds, HedgeTypeOK
    <2>2. s.conn[0] \in ConnStates
      BY <2>1, ConnIs, Zero
    <2>3. p \in Seq(Items)
      BY <2>1 DEF States
    <2> QED
      BY <2>2, <2>3 DEF ConnStates
  <1>2. CASE Settled(s)
    <2>1. AllOf(p, w) /\ AllOf(q, w) /\ ((Clean(p) /\ Clean(q)) \/ NoneCut(s))
      BY <1>2 DEF Settled, Told
    <2>2. AllOf(p \o q, w) /\ (Clean(p) /\ Clean(q) => Clean(p \o q))
      BY <1>1, <2>1, Joins
    <2>3. Read = p \o q /\ Winner = w
      BY DEF Read, Winner
    <2> HIDE DEF p, q, w
    <2> QED
      BY <2>1, <2>2, <2>3 DEF OneServes, AllOf, Clean, NoneCut
  <1>3. CASE Racing(s, Unsent(s))
    <2>1. p = <<>> /\ q = <<>>
      BY <1>3 DEF Racing, ClientWaits
    <2>2. Len(Read) = 0
      BY <2>1 DEF Read
    <2> QED
      BY <2>2 DEF OneServes
  <1> QED
    BY <1>2, <1>3 DEF Sound

\* The client reads one leg's reply or the gateway's own 502, and a failure only when no leg was cut
\* for it (adopt_leg, settle_hedge, close_shadow), for any number of legs.
THEOREM OneLegServes == Spec => []OneServes
  BY HedgeInvariant, SoundServes, PTL

\* What is left of the legs, from the invariant.
LEMMA SoundSettles == RaceHolds => LegsSettled
  <1> SUFFICES ASSUME Sound(s) PROVE LegsSettled
    BY DEF RaceHolds
  <1>1. CASE s.waiting
    BY <1>1 DEF LegsSettled
  <1>2. CASE ~ s.waiting
    <2>1. Settled(s)
      BY <1>2 DEF Sound, Racing, ClientWaits
    <2>2. s.legs = {} /\ \A i \in Leg : LegOver(s.conn[i], s.ups[i], s.conn[0], i)
      BY <2>1 DEF Settled
    <2> QED
      BY <2>2 DEF LegsSettled, LegOver, Quiet, Winner
  <1> QED
    BY <1>1, <1>2

\* Once the race is decided no leg runs on, and every cut leg's venue connection was reset and never
\* pooled (settle_hedge, cut_leg, release_upstream).
THEOREM NoLegRunsOn == Spec => []LegsSettled
  BY HedgeInvariant, SoundSettles, PTL

\* What was recorded, from the invariant.
LEMMA SoundRecords == RaceHolds => LegsRecorded
  <1> SUFFICES ASSUME Sound(s) PROVE LegsRecorded
    BY DEF RaceHolds
  <1> DEFINE Some == \E i \in Leg : s.recs[i] > 0 \/ s.ups[i] # NoUp
             Tried == s.ups # [j \in Leg |-> NoUp]
  <1>1. s \in States /\ Leg # {} /\ 0 \notin Leg
    BY SoundTyped, Zero, LegsAssumption DEF Leg, RaceHolds, HedgeTypeOK
  <1>2. s.ups \in [Leg -> Ups] /\ s.recs \in [Conns -> Nat]
    BY <1>1 DEF States
  <1>3. Tried => \E i \in Leg : s.ups[i] # NoUp
    BY <1>2
  <1>4. CASE Racing(s, Unsent(s))
    <2>1. s.recs[0] = 0 /\ Winner = 0
      BY <1>4 DEF Racing, ClientWaits, NewReq, Winner
    <2>2. \A i \in Leg : IF i \in s.legs THEN s.recs[i] = 0 ELSE s.recs[i] = 1
      BY <1>4 DEF Racing, LegStatus, LegIn, LegRuns, LegWaits, LegGone
    <2>3. \A i \in Leg : i # Winner
      BY <1>1, <2>1
    <2> QED
      BY <2>1, <2>2, <2>3 DEF LegsRecorded
  <1>5. CASE Settled(s) /\ NotHedged(s)
    <2>1. Winner = 0 /\ (\A i \in Leg : s.recs[i] = 0 /\ s.ups[i] = NoUp) /\ s.recs[0] \in {0, 1}
      BY <1>5 DEF NotHedged, Recorded, Winner
    <2>2. ~ Tried /\ ~ Some
      BY <1>3, <2>1
    <2>3. \A i \in Leg : i # Winner
      BY <1>1, <2>1
    <2> QED
      BY <2>1, <2>2, <2>3 DEF LegsRecorded
  <1>6. CASE Settled(s) /\ NoWinner(s)
    <2>1. Winner = 0 /\ (\A i \in Leg : s.recs[i] = 1) /\ s.recs[0] = 0
      BY <1>6 DEF NoWinner, Winner
    <2>2. \A i \in Leg : i # Winner
      BY <1>1, <2>1
    <2> QED
      BY <2>1, <2>2 DEF LegsRecorded
  <1>7. CASE Settled(s) /\ Won(s)
    <2>1. /\ s.recs[0] = 0 /\ (s.conn[0].req.phase = "Idle" => s.conn[0].req.sunk)
          /\ \A i \in Leg : s.recs[i] = IF i = Winner THEN Recorded(s.conn[0].req) ELSE 1
      BY <1>7 DEF Won, Winner
    <2>2. Recorded(s.conn[0].req) \in {0, 1} /\ (s.conn[0].req.sunk => Recorded(s.conn[0].req) = 1)
      BY DEF Recorded
    <2> QED
      BY <2>1, <2>2 DEF LegsRecorded
  <1> QED
    BY <1>4, <1>5, <1>6, <1>7 DEF Sound, Settled, Tally

\* Each leg leaves one record, and the client's request none besides (sink_emit, close_shadow,
\* sink_unfinished).
THEOREM OneRecordPerLeg == Spec => []LegsRecorded
  BY HedgeInvariant, SoundRecords, PTL
=============================================================================
