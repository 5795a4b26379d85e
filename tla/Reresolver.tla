----------------------------- MODULE Reresolver -----------------------------
(***************************************************************************)
(* Resolving venue names off the loop (resolve.cpp, ~Engine): the engine's *)
(* thread queues a name under a mutex, a resolver thread looks it up with  *)
(* the mutex released and queues the answer, the engine's sweep installs   *)
(* it.  A venue whose connect fails moves to its next address at once.     *)
(*                                                                         *)
(* A critical section is one action, but for the resolver's last: `ready'  *)
(* is read without the mutex, so an answer pushed and not yet announced is *)
(* a state of its own (`Held').                                            *)
(***************************************************************************)
EXTENDS Integers, Sequences, SequencesExt, FiniteSets

CONSTANTS NVenue,      \* configured upstreams
          Named,       \* those with a name to look up
          Addr,        \* per venue, the addresses its name may have
          NoIp,        \* no address
          MinWait,     \* kReresolveMinNs
          MaxWait,     \* kReresolveMaxNs
          MaxNow,      \* the clock's bound
          MemoryFails  \* an allocation, or the start of the thread, may fail

Venue == 1..NVenue

ASSUME ReresolverConstants ==
  /\ NVenue \in Nat \ {0} /\ Named \subseteq Venue
  /\ DOMAIN Addr = Venue /\ \A v \in Venue : NoIp \notin Addr[v]
  /\ MinWait \in Nat \ {0} /\ MaxWait \in Nat /\ MinWait <= MaxWait
  /\ MaxNow \in Nat /\ MemoryFails \in BOOLEAN

VARIABLES ips, ip,                  \* per venue: its addresses, the one in use
          stood,                    \* history: the last move to an address failed
          inflight, next, backoff,  \* per venue: _rr_inflight, _rr_next_ns, _rr_backoff_ns
          epc, batch, walk,         \* the engine: where it is, _rr_batch, the walk's next venue
          pending, done, ready, stop, busy,  \* the shared Reresolver
          tpc, job, ans,            \* the resolver thread: where it is, its job, the answer
          now,
          asked                     \* history: when a venue's lookup was last queued

address == <<ips, ip, stood>>
pace    == <<inflight, next, backoff, asked>>
engine  == <<epc, batch, walk>>
shared  == <<pending, done, ready, stop, busy>>
thread  == <<tpc, job, ans>>
vars    == <<address, pace, engine, shared, thread, now>>

IP == UNION {Addr[v] : v \in Venue}

\* resolve_host_ipv4: what a lookup of v's name may answer, in the resolver's order and
\* each address once; <<>> when it fails.
Answers(v) ==
  {s \in UNION {[1..n -> Addr[v]] : n \in 0..Cardinality(Addr[v])} : IsInjective(s)}
Never   == -MinWait
NoJob   == 0

Init ==
  /\ ips \in [Venue -> UNION {Answers(v) : v \in Venue}]
  /\ \A v \in Venue : ips[v] \in Answers(v)
  /\ \A v \in Venue \ Named : ips[v] # <<>>
  /\ ip = [v \in Venue |-> IF ips[v] = <<>> THEN NoIp ELSE ips[v][1]]
  /\ stood = [v \in Venue |-> FALSE]
  /\ inflight = [v \in Venue |-> FALSE]
  /\ next = [v \in Venue |-> 0]
  /\ backoff = [v \in Venue |-> 0]
  /\ asked = [v \in Venue |-> Never]
  /\ epc = "run" /\ batch = <<>> /\ walk = 1
  /\ pending = <<>> /\ done = <<>> /\ ready = FALSE /\ stop = FALSE /\ busy = FALSE
  /\ tpc = "none" /\ job = NoJob /\ ans = <<>>
  /\ now = 0

\* The resolver holds the mutex: its answer pushed, `ready' not yet set.
Held == tpc = "publish"

-----------------------------------------------------------------------------
(* The engine's thread.                                                    *)

\* back_off: twice as long each time, up to the ceiling.
BackOff(v) ==
  LET twice == 2 * backoff[v]
      wait  == IF backoff[v] = 0 THEN MinWait ELSE IF twice < MaxWait THEN twice ELSE MaxWait
  IN
  /\ backoff' = [backoff EXCEPT ![v] = wait]
  /\ next' = [next EXCEPT ![v] = now + wait]

\* Mutant: a lookup in flight does not keep another from being queued.
MayAsk_Again(v) == v \in Named /\ now >= next[v]

MayAsk(v) == ~inflight[v] /\ v \in Named /\ now >= next[v]

\* request_reresolve: the thread started the first time, the name queued; or
\* neither could be, and it is asked again as after a failed lookup.
Request(v) ==
  \/ ~MayAsk(v) /\ UNCHANGED <<pace, pending, tpc>>
  \/ /\ MayAsk(v) /\ ~Held
     /\ pending' = Append(pending, v)
     /\ tpc' = IF tpc = "none" THEN "wait" ELSE tpc
     /\ inflight' = [inflight EXCEPT ![v] = TRUE]
     /\ asked' = [asked EXCEPT ![v] = now]
     /\ UNCHANGED <<next, backoff>>
  \/ /\ MayAsk(v) /\ ~Held /\ MemoryFails
     /\ tpc' \in IF tpc = "none" THEN {"none", "wait"} ELSE {tpc}
     /\ BackOff(v)
     /\ UNCHANGED <<inflight, asked, pending>>

\* readdress: out of memory, the address in use may stand.
Readdress(v, to) ==
  \/ ip' = [ip EXCEPT ![v] = to] /\ stood' = [stood EXCEPT ![v] = FALSE]
  \/ MemoryFails /\ UNCHANGED ip /\ stood' = [stood EXCEPT ![v] = TRUE]

\* The address after the one in use; the second, when that is not listed.
Successor(v) ==
  LET n == Len(ips[v])
      i == IF ip[v] \in ToSet(ips[v]) THEN CHOOSE j \in 1..n : ips[v][j] = ip[v] ELSE 1
  IN  ips[v][(i % n) + 1]

\* note_connect_failure: the venue moves on, and its name is looked up again.
ConnectFailed(v) ==
  /\ epc = "run" /\ ip[v] # NoIp
  /\ IF Len(ips[v]) > 1 THEN Readdress(v, Successor(v)) ELSE UNCHANGED <<ip, stood>>
  /\ Request(v)
  /\ UNCHANGED <<ips, engine, done, ready, stop, busy, job, ans, now>>

\* new_upstream to a venue without an address.
Undialable(v) ==
  /\ epc = "run" /\ ip[v] = NoIp
  /\ Request(v)
  /\ UNCHANGED <<address, engine, done, ready, stop, busy, job, ans, now>>

\* apply_reresolved's first half: nothing announced, or the answers taken.
TakeAnswers ==
  /\ epc = "run"
  /\ \/ ~ready /\ epc' = "walk" /\ UNCHANGED <<batch, done, ready>>
     \/ ready /\ ~Held /\ epc' = "apply" /\ batch' = done /\ done' = <<>> /\ ready' = FALSE
  /\ UNCHANGED <<address, pace, walk, pending, stop, busy, thread, now>>

\* The fresh list; the address in use stands if it is still there.
Install(v, fresh) ==
  /\ ips' = [ips EXCEPT ![v] = fresh]
  /\ IF ip[v] \in ToSet(fresh) THEN UNCHANGED <<ip, stood>> ELSE Readdress(v, fresh[1])

\* Mutant: an answer leaves the venue free to ask again at once.
Paced_Not(v) == backoff' = [backoff EXCEPT ![v] = 0] /\ UNCHANGED next

\* The next lookup after one that answered.
Paced(v) ==
  /\ backoff' = [backoff EXCEPT ![v] = 0]
  /\ next' = [next EXCEPT ![v] = now + MinWait]

\* One turn of apply_reresolved's loop.
ApplyOne ==
  /\ epc = "apply" /\ batch # <<>>
  /\ LET v     == Head(batch).slot
         fresh == Head(batch).ips
     IN
     /\ inflight' = [inflight EXCEPT ![v] = FALSE]
     /\ IF fresh = <<>> THEN BackOff(v) /\ UNCHANGED address
                        ELSE Paced(v) /\ Install(v, fresh)
  /\ batch' = Tail(batch)
  /\ UNCHANGED <<asked, epc, walk, shared, thread, now>>

ApplyEnd ==
  /\ epc = "apply" /\ batch = <<>>
  /\ epc' = "walk"
  /\ UNCHANGED <<address, pace, batch, walk, shared, thread, now>>

\* resolve_unaddressed: every named venue without an address, in order.
Unaddressed ==
  /\ epc = "walk" /\ walk <= NVenue
  /\ IF ip[walk] = NoIp THEN Request(walk) ELSE UNCHANGED <<pace, pending, tpc>>
  /\ walk' = walk + 1
  /\ UNCHANGED <<address, epc, batch, done, ready, stop, busy, job, ans, now>>

SweepEnd ==
  /\ epc = "walk" /\ walk > NVenue
  /\ epc' = "run" /\ walk' = 1
  /\ UNCHANGED <<address, pace, batch, shared, thread, now>>

\* ~Engine: told to stop; a thread in a lookup is detached, another joined.
Shutdown ==
  /\ epc = "run" /\ ~Held
  /\ stop' = TRUE
  /\ epc' = IF tpc = "none" \/ busy THEN "gone" ELSE "join"
  /\ UNCHANGED <<address, pace, batch, walk, pending, done, ready, busy, thread, now>>

Join ==
  /\ epc = "join" /\ tpc = "returned"
  /\ epc' = "gone"
  /\ UNCHANGED <<address, pace, batch, walk, shared, thread, now>>

-----------------------------------------------------------------------------
(* The resolver thread.                                                    *)

TakeJob ==
  /\ tpc = "wait" /\ ~stop /\ pending # <<>>
  /\ job' = Head(pending) /\ pending' = Tail(pending)
  /\ busy' = TRUE
  /\ tpc' = "resolve"
  /\ UNCHANGED <<address, pace, engine, done, ready, stop, ans, now>>

\* Mutant: the wait's condition does not look at `stop'.
Return_OnJobOnly ==
  /\ tpc = "wait" /\ stop /\ pending # <<>>
  /\ tpc' = "returned"
  /\ UNCHANGED <<address, pace, engine, shared, job, ans, now>>

Return ==
  /\ tpc = "wait" /\ stop
  /\ tpc' = "returned"
  /\ UNCHANGED <<address, pace, engine, shared, job, ans, now>>

\* Mutant: a lookup that throws reports nothing.
Lookup_DropsFailure ==
  /\ tpc = "resolve"
  /\ \/ tpc' = "report" /\ ans' \in Answers(job)
     \/ tpc' = "wait" /\ UNCHANGED ans
  /\ UNCHANGED <<address, pace, engine, shared, job, now>>

\* The lookup, without the mutex: addresses, a failure, or out of memory,
\* which reads as a failure.
Lookup ==
  /\ tpc = "resolve"
  /\ tpc' = "report" /\ ans' \in Answers(job)
  /\ UNCHANGED <<address, pace, engine, shared, job, now>>

\* The answer queued, then announced.
Report ==
  /\ tpc = "report"
  /\ busy' = FALSE
  /\ done' = Append(done, [slot |-> job, ips |-> ans])
  /\ tpc' = "publish" /\ job' = NoJob /\ ans' = <<>>
  /\ UNCHANGED <<address, pace, engine, pending, ready, stop, now>>

Publish ==
  /\ tpc = "publish"
  /\ ready' = TRUE
  /\ tpc' = "wait"
  /\ UNCHANGED <<address, pace, engine, pending, done, stop, busy, job, ans, now>>

-----------------------------------------------------------------------------
Tick ==
  /\ now < MaxNow
  /\ now' = now + 1
  /\ UNCHANGED <<address, pace, engine, shared, thread>>

Sweep  == TakeAnswers \/ ApplyOne \/ ApplyEnd \/ Unaddressed \/ SweepEnd
Engine == Sweep \/ Shutdown \/ Join \/ \E v \in Venue : ConnectFailed(v) \/ Undialable(v)
Loop   == TakeJob \/ Return \/ Report \/ Publish

Next == Engine \/ Loop \/ Lookup \/ Tick

Spec == Init /\ [][Next]_vars

\* The engine sweeps and joins, and the resolver's thread is scheduled.  A
\* lookup ends, by the system resolver's own timeouts, while the engine runs;
\* nothing is assumed of one it has been told to stop.
FairSpec ==
  /\ Spec
  /\ WF_vars(Sweep) /\ WF_vars(Join) /\ WF_vars(Loop)
  /\ WF_vars(Lookup /\ ~stop)

-----------------------------------------------------------------------------
(* Properties.                                                             *)

Answer == [slot : Venue, ips : Seq(IP)]

Flags ==
  /\ stood \in [Venue -> BOOLEAN] /\ inflight \in [Venue -> BOOLEAN]
  /\ ready \in BOOLEAN /\ stop \in BOOLEAN /\ busy \in BOOLEAN

Data ==
  /\ ips \in [Venue -> Seq(IP)] /\ ip \in [Venue -> IP \cup {NoIp}]
  /\ next \in [Venue -> Nat] /\ asked \in [Venue -> Int]
  /\ backoff \in [Venue -> {0} \cup MinWait..MaxWait]
  /\ epc \in {"run", "apply", "walk", "join", "gone"}
  /\ batch \in Seq(Answer) /\ walk \in 1..NVenue + 1
  /\ pending \in Seq(Venue) /\ done \in Seq(Answer)
  /\ tpc \in {"none", "wait", "resolve", "report", "publish", "returned"}
  /\ job \in Venue \cup {NoJob} /\ ans \in Seq(IP)
  /\ now \in Nat

\* Every variable has its type; a backoff stays within its bounds.
TypeOK == Flags /\ Data

Running == {job} \ {NoJob}
Slots(s) == {s[i].slot : i \in DOMAIN s}
Once(s)  == \A i, j \in DOMAIN s : s[i].slot = s[j].slot => i = j

\* A venue's lookup is in one place: queued, running, answered or taken; and
\* _rr_inflight says exactly whether it is in any.  So an answer always has
\* room in the capacity reserved for one per venue, and no push allocates.
OnePlace ==
  /\ IsInjective(pending) /\ Once(done) /\ Once(batch)
  /\ ToSet(pending) \cap (Running \cup Slots(done) \cup Slots(batch)) = {}
  /\ Running \cap (Slots(done) \cup Slots(batch)) = {}
  /\ Slots(done) \cap Slots(batch) = {}
  /\ \A v \in Venue :
       inflight[v] <=> v \in ToSet(pending) \cup Running \cup Slots(done) \cup Slots(batch)

\* An answer is announced: the loop's cheap check never hides one.
Announced == done # <<>> => ready \/ Held

\* "shutdown never waits on it": joining, the thread is in no lookup and has
\* none left to report.
JoinsAtOnce == epc = "join" => tpc \in {"wait", "returned"}

\* One venue's lookups are queued at least kReresolveMinNs apart, however many
\* of its connects fail meanwhile.
RateLimited ==
  [][\A v \in Venue : asked'[v] # asked[v] => asked'[v] >= asked[v] + MinWait]_vars

\* The address dialled is one of the venue's list, through rotations and fresh
\* lists, unless memory ran out when it last had to move.
AddressListed ==
  \A v \in Venue : ips[v] # <<>> => ip[v] \in ToSet(ips[v]) \/ stood[v]

\* Every lookup asked for comes back to the engine, unless it shuts down.
AnswerComes == \A v \in Venue : inflight[v] ~> (~inflight[v] \/ stop)

\* Shutting down ends, though a lookup may never.
ShutdownEnds == stop ~> epc = "gone"
=============================================================================
