-------------------------- MODULE Reresolver_proofs --------------------------
(* Proofs about Reresolver, for any venues, names and waits.               *)
EXTENDS Reresolver, SequenceTheorems, TLAPS

\* Where the threads are, and what the shared flags say of it.
Threads ==
  /\ busy <=> tpc \in {"resolve", "report"}
  /\ job # NoJob <=> tpc \in {"resolve", "report"}
  /\ stop <=> epc \in {"join", "gone"}
  /\ tpc = "returned" => stop
  /\ epc # "apply" => batch = <<>>
  /\ JoinsAtOnce

\* No venue is asked for again before its wait is over.
Pacing ==
  \A v \in Venue : asked[v] <= now /\ (~inflight[v] => next[v] >= asked[v] + MinWait)

Inv == TypeOK /\ OnePlace /\ Announced /\ Threads /\ Pacing /\ AddressListed

USE ReresolverConstants

LEMMA Venues == NoJob \notin Venue /\ \A n \in 1..NVenue : n \in Venue
  BY DEF Venue, NoJob

\* Addresses are addresses of some venue, and a lookup answers a list of them.
LEMMA AnswersAreLists == \A v \in Venue : Answers(v) \subseteq Seq(IP)
  BY DEF Answers, IP

LEMMA FirstListed == ASSUME NEW S, NEW s \in Seq(S), s # <<>>
                    PROVE  s[1] \in S /\ s[1] \in ToSet(s) /\ 1 \in DOMAIN s
  BY DEF ToSet

LEMMA InitInv == Init => Inv
<1> SUFFICES ASSUME Init PROVE Inv
  OBVIOUS
<1>1. ips \in [Venue -> Seq(IP)]
  BY AnswersAreLists DEF Init
<1>2. ip \in [Venue -> IP \cup {NoIp}]
<2>1. ASSUME NEW v \in Venue, ips[v] # <<>> PROVE ips[v][1] \in IP
  BY <1>1, <2>1, FirstListed
<2> QED BY <2>1 DEF Init
<1>3. TypeOK
<2>1. Flags
  BY Zenon DEF Init, Flags
<2>2. Data
  BY <1>1, <1>2, Venues DEF Init, Data, NoJob, Never, Answer
<2> QED BY <2>1, <2>2 DEF TypeOK
<1>4. OnePlace
  BY DEF Init, NoJob, OnePlace, IsInjective, Once, Slots, Running, ToSet
<1>5. Announced /\ Threads
  BY DEF Init, Announced, Threads, JoinsAtOnce, NoJob
<1>6. Pacing
  BY DEF Init, Pacing, Never
<1>7. AddressListed
<2> SUFFICES ASSUME NEW v \in Venue, ips[v] # <<>> PROVE ip[v] \in ToSet(ips[v])
  BY DEF AddressListed
<2> QED BY <1>1, FirstListed DEF Init
<1> QED BY <1>3, <1>4, <1>5, <1>6, <1>7 DEF Inv

-----------------------------------------------------------------------------
(* The invariant, one lemma per conjunct.                                  *)

\* back_off keeps the waits within their bounds.
LEMMA BackOffTypes ==
  ASSUME Data, NEW v \in Venue, BackOff(v)
  PROVE  /\ backoff' \in [Venue -> {0} \cup MinWait..MaxWait]
         /\ next' \in [Venue -> Nat]
         /\ next'[v] >= now + MinWait
         /\ \A w \in Venue \ {v} : next'[w] = next[w]
<1> DEFINE twice == 2 * backoff[v]
           wait  == IF backoff[v] = 0 THEN MinWait
                    ELSE IF twice < MaxWait THEN twice ELSE MaxWait
<1>0. /\ backoff[v] \in {0} \cup MinWait..MaxWait /\ now \in Nat
      /\ backoff \in [Venue -> {0} \cup MinWait..MaxWait] /\ next \in [Venue -> Nat]
  BY DEF Data
<1>1. wait \in MinWait..MaxWait
  BY <1>0
<1>2. /\ backoff' = [backoff EXCEPT ![v] = wait]
      /\ next' = [next EXCEPT ![v] = now + wait]
  BY DEF BackOff
<1>3. now + wait \in Nat /\ now + wait >= now + MinWait
  BY <1>0, <1>1
<1> HIDE DEF wait
<1> QED BY <1>0, <1>1, <1>2, <1>3

\* What a request changes, and nothing else.
LEMMA RequestTypes ==
  ASSUME Data, NEW v \in Venue, Request(v)
  PROVE  /\ pending' \in Seq(Venue)
         /\ next' \in [Venue -> Nat] /\ asked' \in [Venue -> Int]
         /\ backoff' \in [Venue -> {0} \cup MinWait..MaxWait]
         /\ tpc' \in {"none", "wait", "resolve", "report", "publish", "returned"}
<1>1. CASE UNCHANGED <<pace, pending, tpc>>
  BY <1>1 DEF Data, pace
<1>2. CASE /\ pending' = Append(pending, v)
           /\ tpc' = IF tpc = "none" THEN "wait" ELSE tpc
           /\ asked' = [asked EXCEPT ![v] = now]
           /\ UNCHANGED <<next, backoff>>
  BY <1>2 DEF Data
<1>3. CASE /\ tpc' \in IF tpc = "none" THEN {"none", "wait"} ELSE {tpc}
           /\ BackOff(v)
           /\ UNCHANGED <<asked, pending>>
  BY <1>3, BackOffTypes DEF Data
<1> QED BY <1>1, <1>2, <1>3 DEF Request

LEMMA RequestFlags ==
  ASSUME Flags, NEW v \in Venue, Request(v)
  PROVE  inflight' \in [Venue -> BOOLEAN]
  BY DEF Flags, Request, pace

\* The next address is a listed one.
LEMMA SuccessorListed ==
  ASSUME Data, NEW v \in Venue, Len(ips[v]) > 1
  PROVE  Successor(v) \in ToSet(ips[v]) /\ Successor(v) \in IP
<1> DEFINE n == Len(ips[v])
           i == IF ip[v] \in ToSet(ips[v]) THEN CHOOSE j \in 1..n : ips[v][j] = ip[v] ELSE 1
<1>1. ips[v] \in Seq(IP) /\ n \in Nat /\ n > 1 /\ DOMAIN ips[v] = 1..n
  BY DEF Data
<1>2. i \in 1..n
  BY <1>1 DEF ToSet
<1>3. (i % n) + 1 \in 1..n
  BY <1>1, <1>2
<1>4. Successor(v) = ips[v][(i % n) + 1]
  BY DEF Successor
<1> HIDE DEF i
<1> QED BY <1>1, <1>3, <1>4 DEF ToSet

LEMMA DataStep == Data /\ Threads /\ [Next]_vars => Data'
<1> SUFFICES ASSUME Data, Threads, [Next]_vars PROVE Data'
  OBVIOUS
<1>1. ASSUME NEW v \in Venue, ConnectFailed(v) PROVE Data'
  <2>1. ip' \in [Venue -> IP \cup {NoIp}]
    BY <1>1, SuccessorListed DEF ConnectFailed, Readdress, Data
  <2> QED BY <1>1, <2>1, RequestTypes DEF ConnectFailed, Data, engine
<1>2. ASSUME NEW v \in Venue, Undialable(v) PROVE Data'
  BY <1>2, RequestTypes DEF Undialable, Data, engine, address
<1>3. CASE TakeAnswers
  <2>1. \/ epc' = "walk" /\ batch' = batch /\ done' = done
        \/ epc' = "apply" /\ batch' = done /\ done' = <<>>
    BY <1>3, Zenon DEF TakeAnswers
  <2>2. batch' \in Seq(Answer) /\ done' \in Seq(Answer)
    <3>1. batch \in Seq(Answer) /\ done \in Seq(Answer) /\ <<>> \in Seq(Answer)
      BY DEF Data
    <3> QED BY <2>1, <3>1, Zenon
  <2>3. UNCHANGED <<ips, ip, next, asked, backoff, walk, pending, tpc, job, ans, now>>
    BY <1>3, Zenon DEF TakeAnswers, address, pace, thread
  <2> QED BY <2>1, <2>2, <2>3 DEF Data
<1>4. CASE ApplyOne
  <2> DEFINE v == Head(batch).slot
             fresh == Head(batch).ips
  <2>1. v \in Venue /\ fresh \in Seq(IP) /\ batch' \in Seq(Answer)
    <3>1. Head(batch) \in Answer /\ batch' \in Seq(Answer)
      BY <1>4 DEF ApplyOne, Data
    <3> QED BY <3>1 DEF Answer
  <2>2. CASE fresh = <<>> /\ BackOff(v) /\ UNCHANGED address
    BY <1>4, <2>1, <2>2, BackOffTypes DEF ApplyOne, Data, address, shared, thread
  <2>3. CASE fresh # <<>> /\ Paced(v) /\ Install(v, fresh)
    <3>1. fresh[1] \in IP
      BY <2>1, <2>3, FirstListed
    <3>2. ips' \in [Venue -> Seq(IP)] /\ ip' \in [Venue -> IP \cup {NoIp}]
      BY <2>1, <2>3, <3>1 DEF Install, Readdress, Data
    <3>3. next' \in [Venue -> Nat] /\ backoff' \in [Venue -> {0} \cup MinWait..MaxWait]
      BY <2>1, <2>3 DEF Paced, Data
    <3> QED BY <1>4, <2>1, <3>2, <3>3 DEF ApplyOne, Data, shared, thread
  <2> QED BY <1>4, <2>2, <2>3 DEF ApplyOne
<1>5. CASE ApplyEnd
  BY <1>5 DEF ApplyEnd, Data, address, pace, shared, thread
<1>6. CASE Unaddressed
  <2>1. walk \in Venue /\ walk' \in 1..NVenue + 1
    BY <1>6 DEF Unaddressed, Data, Venue
  <2>2. CASE Request(walk)
    BY <1>6, <2>1, <2>2, RequestTypes DEF Unaddressed, Data, address
  <2>3. CASE UNCHANGED <<pace, pending, tpc>>
    BY <1>6, <2>1, <2>3 DEF Unaddressed, Data, address, pace
  <2> QED BY <1>6, <2>2, <2>3 DEF Unaddressed
<1>7. CASE SweepEnd
  BY <1>7 DEF SweepEnd, Data, address, pace, shared, thread
<1>8. CASE Shutdown
  BY <1>8 DEF Shutdown, Data, address, pace, thread
<1>9. CASE Join
  BY <1>9 DEF Join, Data, address, pace, shared, thread
<1>10. CASE TakeJob
  BY <1>10 DEF TakeJob, Data, address, pace, engine
<1>11. CASE Return
  BY <1>11 DEF Return, Data, address, pace, engine, shared
<1>12. CASE Lookup
  <2>1. job \in Venue
    BY <1>12 DEF Lookup, Threads, Data
  <2> QED BY <1>12, <2>1, AnswersAreLists DEF Lookup, Data, address, pace, engine, shared
<1>13. CASE Report
  <2>1. job \in Venue
    BY <1>13 DEF Report, Threads, Data
  <2>2. done' \in Seq(Answer)
    BY <1>13, <2>1 DEF Report, Data, Answer
  <2> QED BY <1>13, <2>2 DEF Report, Data, address, pace, engine
<1>14. CASE Publish
  BY <1>14 DEF Publish, Data, address, pace, engine
<1>15. CASE Tick
  BY <1>15 DEF Tick, Data, address, pace, engine, shared, thread
<1>16. CASE UNCHANGED vars
  BY <1>16 DEF vars, Data, address, pace, engine, shared, thread
<1> QED BY <1>1, <1>2, <1>3, <1>4, <1>5, <1>6, <1>7, <1>8, <1>9, <1>10, <1>11, <1>12,
           <1>13, <1>14, <1>15, <1>16 DEF Next, Engine, Sweep, Loop

LEMMA FlagsStep == Flags /\ Data /\ [Next]_vars => Flags'
<1> SUFFICES ASSUME Flags, Data, [Next]_vars PROVE Flags'
  OBVIOUS
<1> USE DEF Flags
<1>1. ASSUME NEW v \in Venue, ConnectFailed(v) PROVE Flags'
  <2>1. stood' \in [Venue -> BOOLEAN]
    BY <1>1, Zenon DEF ConnectFailed, Readdress
  <2> QED BY <1>1, <2>1, RequestFlags, Zenon DEF ConnectFailed
<1>2. ASSUME NEW v \in Venue, Undialable(v) PROVE Flags'
  BY <1>2, RequestFlags, Zenon DEF Undialable, address
<1>3. CASE TakeAnswers
  BY <1>3, Zenon DEF TakeAnswers, address, pace
<1>4. CASE ApplyOne
  <2>1. stood' \in [Venue -> BOOLEAN]
    BY <1>4, Zenon DEF ApplyOne, Install, Readdress, address
  <2>2. inflight' \in [Venue -> BOOLEAN]
    BY <1>4, Zenon DEF ApplyOne
  <2> QED BY <1>4, <2>1, <2>2, Zenon DEF ApplyOne, shared
<1>5. CASE ApplyEnd
  BY <1>5, Zenon DEF ApplyEnd, address, pace, shared
<1>6. CASE Unaddressed
  <2>1. walk \in Venue
    BY <1>6 DEF Unaddressed, Data, Venue
  <2>2. inflight' \in [Venue -> BOOLEAN]
    BY <1>6, <2>1, RequestFlags, Zenon DEF Unaddressed, pace
  <2> QED BY <1>6, <2>2, Zenon DEF Unaddressed, address
<1>7. CASE SweepEnd \/ Join
  BY <1>7, Zenon DEF SweepEnd, Join, address, pace, shared
<1>8. CASE Shutdown
  BY <1>8, Zenon DEF Shutdown, address, pace
<1>9. CASE TakeJob \/ Report \/ Publish
  BY <1>9, Zenon DEF TakeJob, Report, Publish, address, pace
<1>10. CASE Return \/ Lookup \/ Tick
  BY <1>10, Zenon DEF Return, Lookup, Tick, address, pace, shared
<1>11. CASE UNCHANGED vars
  BY <1>11, Zenon DEF vars, address, pace, shared
<1> QED BY <1>1, <1>2, <1>3, <1>4, <1>5, <1>6, <1>7, <1>8, <1>9, <1>10, <1>11, Zenon
        DEF Next, Engine, Sweep, Loop

LEMMA ThreadsStep == Flags /\ Data /\ Threads /\ [Next]_vars => Threads'
<1> SUFFICES ASSUME Flags, Data, Threads, [Next]_vars PROVE Threads'
  OBVIOUS
<1> USE DEF Threads, JoinsAtOnce
\* A request starts the thread, and moves it in no other way.
<1>1. ASSUME NEW v \in Venue, Request(v), UNCHANGED <<epc, batch, stop, busy, job>>, epc \in {"run", "walk"}
      PROVE Threads'
  <2>1. tpc' = tpc \/ (tpc = "none" /\ tpc' = "wait")
    BY <1>1, Zenon DEF Request
  <2> QED BY <1>1, <2>1, Zenon
<1>2. ASSUME NEW v \in Venue, ConnectFailed(v) \/ Undialable(v) PROVE Threads'
  BY <1>1, <1>2, Zenon DEF ConnectFailed, Undialable, engine
<1>3. CASE TakeAnswers
  BY <1>3, Zenon DEF TakeAnswers, thread
<1>4. CASE ApplyOne
  BY <1>4, Zenon DEF ApplyOne, shared, thread
<1>5. CASE ApplyEnd
  BY <1>5, Zenon DEF ApplyEnd, shared, thread
<1>6. CASE SweepEnd
  BY <1>6, Zenon DEF SweepEnd, shared, thread
<1>7. CASE Unaddressed
  <2>1. walk \in Venue
    BY <1>7 DEF Unaddressed, Data, Venue
  <2>2. CASE Request(walk)
    BY <1>1, <1>7, <2>1, <2>2, Zenon DEF Unaddressed
  <2>3. CASE UNCHANGED <<pace, pending, tpc>>
    BY <1>7, <2>3, Zenon DEF Unaddressed
  <2> QED BY <1>7, <2>2, <2>3, Zenon DEF Unaddressed
<1>8. CASE Shutdown
  BY <1>8, Zenon DEF Shutdown, Held, Data, thread
<1>9. CASE Join
  BY <1>9, Zenon DEF Join, shared, thread
<1>10. CASE TakeJob
  <2>1. job' \in Venue /\ job' # NoJob
    BY <1>10, Venues DEF TakeJob, Data
  <2> QED BY <1>10, <2>1, Zenon DEF TakeJob, engine
<1>11. CASE Return
  BY <1>11, Zenon DEF Return, engine, shared
<1>12. CASE Lookup
  BY <1>12, Zenon DEF Lookup, engine, shared
<1>13. CASE Report
  BY <1>13, Zenon DEF Report, engine
<1>14. CASE Publish
  BY <1>14, Zenon DEF Publish, engine
<1>15. CASE Tick
  BY <1>15, Zenon DEF Tick, engine, shared, thread
<1>16. CASE UNCHANGED vars
  BY <1>16, Zenon DEF vars, engine, shared, thread
<1> QED BY <1>2, <1>3, <1>4, <1>5, <1>6, <1>7, <1>8, <1>9, <1>10, <1>11, <1>12,
           <1>13, <1>14, <1>15, <1>16, Zenon DEF Next, Engine, Sweep, Loop

\* No critical section leaves an answer unannounced.
LEMMA AnnouncedStep == Announced /\ [Next]_vars => Announced'
<1> SUFFICES ASSUME Announced, [Next]_vars PROVE Announced'
  OBVIOUS
<1> USE DEF Announced, Held
<1>1. ASSUME NEW v, Request(v), UNCHANGED <<done, ready>> PROVE Announced'
  <2>1. tpc' = tpc \/ tpc = "none"
    BY <1>1, Zenon DEF Request
  <2> QED BY <1>1, <2>1, Zenon
<1>2. ASSUME NEW v \in Venue, ConnectFailed(v) \/ Undialable(v) PROVE Announced'
  BY <1>1, <1>2, Zenon DEF ConnectFailed, Undialable
<1>3. CASE TakeAnswers
  BY <1>3, Zenon DEF TakeAnswers, thread
<1>4. CASE ApplyOne \/ ApplyEnd \/ SweepEnd \/ Join
  BY <1>4, Zenon DEF ApplyOne, ApplyEnd, SweepEnd, Join, shared, thread
<1>5. CASE Unaddressed
  <2>1. CASE Request(walk)
    BY <1>1, <1>5, <2>1, Zenon DEF Unaddressed
  <2>2. CASE UNCHANGED <<pace, pending, tpc>>
    BY <1>5, <2>2, Zenon DEF Unaddressed
  <2> QED BY <1>5, <2>1, <2>2, Zenon DEF Unaddressed
<1>6. CASE Shutdown
  BY <1>6, Zenon DEF Shutdown, thread
<1>7. CASE TakeJob
  BY <1>7, Zenon DEF TakeJob
<1>8. CASE Return \/ Lookup
  BY <1>8, Zenon DEF Return, Lookup, shared
<1>9. CASE Report
  BY <1>9, Zenon DEF Report
<1>10. CASE Publish
  BY <1>10, Zenon DEF Publish
<1>11. CASE Tick
  BY <1>11, Zenon DEF Tick, shared, thread
<1>12. CASE UNCHANGED vars
  BY <1>12, Zenon DEF vars, shared, thread
<1> QED BY <1>2, <1>3, <1>4, <1>5, <1>6, <1>7, <1>8, <1>9, <1>10, <1>11, <1>12, Zenon
        DEF Next, Engine, Sweep, Loop

\* A request queues a lookup only once the venue's wait is over, and a failed
\* one waits again.
LEMMA RequestPaced ==
  ASSUME Flags, Data, Pacing, NEW v \in Venue, Request(v), now' = now
  PROVE  Pacing'
<1>0. /\ now \in Nat /\ asked \in [Venue -> Int] /\ next \in [Venue -> Nat]
      /\ inflight \in [Venue -> BOOLEAN]
  BY DEF Data, Flags
<1>1. CASE UNCHANGED <<pace, pending, tpc>>
  BY <1>1 DEF Pacing, pace
<1>2. CASE /\ inflight' = [inflight EXCEPT ![v] = TRUE]
           /\ asked' = [asked EXCEPT ![v] = now]
           /\ UNCHANGED <<next, backoff>>
  BY <1>0, <1>2 DEF Pacing
<1>3. CASE BackOff(v) /\ UNCHANGED <<inflight, asked, pending>>
  BY <1>0, <1>3, BackOffTypes DEF Pacing
<1> QED BY <1>1, <1>2, <1>3 DEF Request

LEMMA PacingStep == Flags /\ Data /\ Pacing /\ [Next]_vars => Pacing'
<1> SUFFICES ASSUME Flags, Data, Pacing, [Next]_vars PROVE Pacing'
  OBVIOUS
<1>0. /\ now \in Nat /\ asked \in [Venue -> Int] /\ next \in [Venue -> Nat]
      /\ inflight \in [Venue -> BOOLEAN]
  BY DEF Data, Flags
<1>1. ASSUME UNCHANGED pace, now' = now \/ now' = now + 1 PROVE Pacing'
  BY <1>0, <1>1 DEF Pacing, pace
<1>2. ASSUME NEW v \in Venue, ConnectFailed(v) \/ Undialable(v) PROVE Pacing'
  BY <1>2, RequestPaced DEF ConnectFailed, Undialable
<1>3. CASE TakeAnswers \/ ApplyEnd \/ SweepEnd \/ Shutdown \/ Join
  BY <1>1, <1>3 DEF TakeAnswers, ApplyEnd, SweepEnd, Shutdown, Join
<1>4. CASE ApplyOne
  <2> DEFINE v == Head(batch).slot
  <2>1. v \in Venue
    <3>1. Head(batch) \in Answer
      BY <1>4 DEF ApplyOne, Data
    <3> QED BY <3>1 DEF Answer
  <2>2. /\ next'[v] >= now + MinWait /\ next' \in [Venue -> Nat]
        /\ \A w \in Venue \ {v} : next'[w] = next[w]
    <3>1. CASE BackOff(v)
      BY <2>1, <3>1, BackOffTypes
    <3>2. CASE Paced(v)
      BY <1>0, <2>1, <3>2 DEF Paced
    <3> QED BY <1>4, <3>1, <3>2 DEF ApplyOne
  <2>3. /\ inflight' = [inflight EXCEPT ![v] = FALSE] /\ asked' = asked /\ now' = now
    BY <1>4 DEF ApplyOne
  <2> HIDE DEF v
  <2> QED BY <1>0, <2>1, <2>2, <2>3 DEF Pacing
<1>5. CASE Unaddressed
  <2>1. walk \in Venue
    BY <1>5 DEF Unaddressed, Data, Venue
  <2> QED BY <1>1, <1>5, <2>1, RequestPaced DEF Unaddressed
<1>6. CASE Loop \/ Lookup \/ Tick
  BY <1>1, <1>6 DEF Loop, TakeJob, Return, Report, Publish, Lookup, Tick
<1>7. CASE UNCHANGED vars
  BY <1>1, <1>7 DEF vars
<1> QED BY <1>2, <1>3, <1>4, <1>5, <1>6, <1>7 DEF Next, Engine, Sweep

\* A move is to an address of the list.
LEMMA AddressStep == Flags /\ Data /\ AddressListed /\ [Next]_vars => AddressListed'
<1> SUFFICES ASSUME Flags, Data, AddressListed, [Next]_vars PROVE AddressListed'
  OBVIOUS
<1>0. /\ ips \in [Venue -> Seq(IP)] /\ ip \in [Venue -> IP \cup {NoIp}]
      /\ stood \in [Venue -> BOOLEAN]
  BY DEF Data, Flags
<1>1. ASSUME UNCHANGED address PROVE AddressListed'
  BY <1>1 DEF AddressListed, address
<1>2. ASSUME NEW v \in Venue, ConnectFailed(v) PROVE AddressListed'
  <2>1. ips' = ips
    BY <1>2 DEF ConnectFailed
  <2>2. CASE Len(ips[v]) > 1 /\ Readdress(v, Successor(v))
    <3>1. Successor(v) \in ToSet(ips[v])
      BY <2>2, SuccessorListed
    <3> QED BY <1>0, <2>1, <2>2, <3>1 DEF Readdress, AddressListed
  <2>3. CASE UNCHANGED <<ip, stood>>
    BY <2>1, <2>3 DEF AddressListed
  <2> QED BY <1>2, <2>2, <2>3 DEF ConnectFailed
<1>3. CASE ApplyOne
  <2> DEFINE v == Head(batch).slot
             fresh == Head(batch).ips
  <2>1. v \in Venue /\ fresh \in Seq(IP)
    <3>1. Head(batch) \in Answer
      BY <1>3 DEF ApplyOne, Data
    <3> QED BY <3>1 DEF Answer
  <2>2. CASE fresh # <<>> /\ Install(v, fresh)
    <3>1. fresh[1] \in ToSet(fresh)
      BY <2>1, <2>2, FirstListed
    <3>2. ips' = [ips EXCEPT ![v] = fresh]
      BY <2>2 DEF Install
    <3>3. \/ ip[v] \in ToSet(fresh) /\ ip' = ip /\ stood' = stood
          \/ ip' = [ip EXCEPT ![v] = fresh[1]] /\ stood' = [stood EXCEPT ![v] = FALSE]
          \/ ip' = ip /\ stood' = [stood EXCEPT ![v] = TRUE]
      BY <2>2, Zenon DEF Install, Readdress
    <3> HIDE DEF v, fresh
    <3> QED BY <1>0, <2>1, <3>1, <3>2, <3>3 DEF AddressListed
  <2> QED BY <1>1, <1>3, <2>2 DEF ApplyOne
<1>4. CASE TakeAnswers \/ ApplyEnd \/ SweepEnd \/ Shutdown \/ Join \/ Unaddressed
  BY <1>1, <1>4 DEF TakeAnswers, ApplyEnd, SweepEnd, Shutdown, Join, Unaddressed
<1>5. ASSUME NEW v \in Venue, Undialable(v) PROVE AddressListed'
  BY <1>1, <1>5 DEF Undialable
<1>6. CASE Loop \/ Lookup \/ Tick
  BY <1>1, <1>6 DEF Loop, TakeJob, Return, Report, Publish, Lookup, Tick
<1>7. CASE UNCHANGED vars
  BY <1>1, <1>7 DEF vars
<1> QED BY <1>2, <1>3, <1>4, <1>5, <1>6, <1>7 DEF Next, Engine, Sweep

-----------------------------------------------------------------------------
(* A lookup in one place: what the queues' operations do to who is in them. *)

LEMMA AppendVenue ==
  ASSUME NEW s \in Seq(Venue), NEW v \in Venue, IsInjective(s), v \notin ToSet(s)
  PROVE  IsInjective(Append(s, v)) /\ ToSet(Append(s, v)) = ToSet(s) \cup {v}
<1>1. /\ DOMAIN s = 1..Len(s) /\ Len(s) \in Nat
      /\ DOMAIN Append(s, v) = 1..Len(s) + 1
      /\ \A i \in 1..Len(s) : Append(s, v)[i] = s[i]
      /\ Append(s, v)[Len(s) + 1] = v
  BY AppendProperties
<1>2. \A i \in 1..Len(s) : s[i] # v
  BY <1>1 DEF ToSet
<1>3. IsInjective(Append(s, v))
  BY <1>1, <1>2 DEF IsInjective
<1>4. ToSet(Append(s, v)) = ToSet(s) \cup {v}
  BY <1>1 DEF ToSet
<1> QED BY <1>3, <1>4

LEMMA TailVenue ==
  ASSUME NEW s \in Seq(Venue), s # <<>>, IsInjective(s)
  PROVE  IsInjective(Tail(s)) /\ ToSet(Tail(s)) = ToSet(s) \ {Head(s)} /\ Head(s) \in ToSet(s)
<1>1. /\ DOMAIN s = 1..Len(s) /\ Len(s) \in Nat \ {0} /\ Head(s) = s[1]
      /\ DOMAIN Tail(s) = 1..Len(s) - 1
      /\ \A i \in 1..Len(s) - 1 : Tail(s)[i] = s[i + 1]
  BY HeadTailProperties
<1>2. \A i \in 1..Len(s) : s[i] = Head(s) <=> i = 1
  BY <1>1 DEF IsInjective
<1>3. IsInjective(Tail(s))
  BY <1>1 DEF IsInjective
<1>4. ASSUME NEW x \in ToSet(s) \ {Head(s)} PROVE x \in ToSet(Tail(s))
  <2>1. PICK i \in 1..Len(s) : s[i] = x
    BY <1>1, <1>4 DEF ToSet
  <2>2. i - 1 \in 1..Len(s) - 1 /\ Tail(s)[i - 1] = x
    BY <1>1, <1>2, <1>4, <2>1
  <2> QED BY <1>1, <2>2 DEF ToSet
<1>5. ASSUME NEW x \in ToSet(Tail(s)) PROVE x \in ToSet(s) \ {Head(s)}
  <2>1. PICK i \in 1..Len(s) - 1 : s[i + 1] = x
    BY <1>1, <1>5 DEF ToSet
  <2> QED BY <1>1, <1>2, <2>1 DEF ToSet
<1>6. Head(s) \in ToSet(s)
  BY <1>1 DEF ToSet
<1> QED BY <1>3, <1>4, <1>5, <1>6

LEMMA AppendAnswer ==
  ASSUME NEW s \in Seq(Answer), NEW a \in Answer, Once(s), a.slot \notin Slots(s)
  PROVE  Once(Append(s, a)) /\ Slots(Append(s, a)) = Slots(s) \cup {a.slot}
<1>1. /\ DOMAIN s = 1..Len(s) /\ Len(s) \in Nat
      /\ DOMAIN Append(s, a) = 1..Len(s) + 1
      /\ \A i \in 1..Len(s) : Append(s, a)[i] = s[i]
      /\ Append(s, a)[Len(s) + 1] = a
  BY AppendProperties
<1>2. \A i \in 1..Len(s) : s[i].slot # a.slot
  BY <1>1 DEF Slots
<1>3. Once(Append(s, a))
  BY <1>1, <1>2 DEF Once
<1>4. Slots(Append(s, a)) = Slots(s) \cup {a.slot}
  BY <1>1 DEF Slots
<1> QED BY <1>3, <1>4

LEMMA TailAnswer ==
  ASSUME NEW s \in Seq(Answer), s # <<>>, Once(s)
  PROVE  Once(Tail(s)) /\ Slots(Tail(s)) = Slots(s) \ {Head(s).slot} /\ Head(s).slot \in Slots(s)
<1>1. /\ DOMAIN s = 1..Len(s) /\ Len(s) \in Nat \ {0} /\ Head(s) = s[1]
      /\ DOMAIN Tail(s) = 1..Len(s) - 1
      /\ \A i \in 1..Len(s) - 1 : Tail(s)[i] = s[i + 1]
  BY HeadTailProperties
<1>2. \A i \in 1..Len(s) : s[i].slot = Head(s).slot <=> i = 1
  BY <1>1 DEF Once
<1>3. Once(Tail(s))
  BY <1>1 DEF Once
<1>4. ASSUME NEW x \in Slots(s) \ {Head(s).slot} PROVE x \in Slots(Tail(s))
  <2>1. PICK i \in 1..Len(s) : s[i].slot = x
    BY <1>1, <1>4 DEF Slots
  <2>2. i - 1 \in 1..Len(s) - 1 /\ Tail(s)[i - 1].slot = x
    BY <1>1, <1>2, <1>4, <2>1
  <2> QED BY <1>1, <2>2 DEF Slots
<1>5. ASSUME NEW x \in Slots(Tail(s)) PROVE x \in Slots(s) \ {Head(s).slot}
  <2>1. PICK i \in 1..Len(s) - 1 : s[i + 1].slot = x
    BY <1>1, <1>5 DEF Slots
  <2> QED BY <1>1, <1>2, <2>1 DEF Slots
<1>6. Head(s).slot \in Slots(s)
  BY <1>1 DEF Slots
<1> QED BY <1>3, <1>4, <1>5, <1>6

\* An empty queue has no one in it.
LEMMA NoneQueued == Once(<<>>) /\ Slots(<<>>) = {}
  BY DEF Once, Slots

\* A request queues a venue only when its lookup is nowhere.
LEMMA RequestOnePlace ==
  ASSUME Flags, Data, OnePlace, NEW v \in Venue, Request(v), UNCHANGED <<done, batch, job>>
  PROVE  OnePlace'
<1>0. pending \in Seq(Venue) /\ inflight \in [Venue -> BOOLEAN]
  BY DEF Data, Flags
<1>1. Running' = Running /\ Slots(done') = Slots(done) /\ Slots(batch') = Slots(batch)
  BY DEF Running
<1>2. CASE UNCHANGED <<inflight, pending>>
  BY <1>1, <1>2 DEF OnePlace
<1>3. CASE /\ ~inflight[v] /\ pending' = Append(pending, v)
           /\ inflight' = [inflight EXCEPT ![v] = TRUE]
  <2>1. v \notin ToSet(pending) \cup Running \cup Slots(done) \cup Slots(batch)
    BY <1>3, Zenon DEF OnePlace
  <2>2. IsInjective(pending') /\ ToSet(pending') = ToSet(pending) \cup {v}
    BY <1>0, <1>3, <2>1, AppendVenue DEF OnePlace
  <2>3. \A w \in Venue : inflight'[w] <=> (w = v \/ inflight[w])
    BY <1>0, <1>3
  <2> QED BY <1>1, <2>1, <2>2, <2>3 DEF OnePlace
<1> QED BY <1>2, <1>3 DEF Request, MayAsk, pace

LEMMA OnePlaceStep == Flags /\ Data /\ Threads /\ OnePlace /\ [Next]_vars => OnePlace'
<1> SUFFICES ASSUME Flags, Data, Threads, OnePlace, [Next]_vars PROVE OnePlace'
  OBVIOUS
<1>0. /\ pending \in Seq(Venue) /\ done \in Seq(Answer) /\ batch \in Seq(Answer)
      /\ inflight \in [Venue -> BOOLEAN] /\ ans \in Seq(IP)
  BY DEF Data, Flags
<1>1. ASSUME UNCHANGED <<inflight, pending, done, batch, job>> PROVE OnePlace'
  BY <1>1 DEF OnePlace, Running
<1>2. ASSUME NEW v \in Venue, ConnectFailed(v) \/ Undialable(v) PROVE OnePlace'
  BY <1>2, RequestOnePlace DEF ConnectFailed, Undialable, engine
<1>3. CASE TakeAnswers
  <2>1. CASE UNCHANGED <<batch, done>>
    BY <1>1, <1>3, <2>1 DEF TakeAnswers, pace, thread
  <2>2. CASE batch' = done /\ done' = <<>>
    <3>1. batch = <<>>
      BY <1>3 DEF TakeAnswers, Threads
    <3>2. UNCHANGED <<inflight, pending, job>>
      BY <1>3 DEF TakeAnswers, pace, thread
    <3>3. Once(batch') /\ Once(done') /\ Slots(done') = {} /\ Slots(batch) = {}
          /\ Slots(batch') = Slots(done) /\ Running' = Running
      BY <2>2, <3>1, <3>2, NoneQueued DEF OnePlace, Running
    <3> QED BY <3>2, <3>3 DEF OnePlace
  <2> QED BY <1>3, <2>1, <2>2 DEF TakeAnswers
<1>4. CASE ApplyOne
  <2> DEFINE v == Head(batch).slot
  <2>1. /\ batch # <<>> /\ batch' = Tail(batch) /\ inflight' = [inflight EXCEPT ![v] = FALSE]
        /\ UNCHANGED <<pending, done, job>>
    BY <1>4 DEF ApplyOne, shared, thread
  <2>2. Once(batch') /\ Slots(batch') = Slots(batch) \ {v} /\ v \in Slots(batch)
    BY <1>0, <2>1, TailAnswer DEF OnePlace
  <2>3. \A w \in Venue : inflight'[w] <=> (w # v /\ inflight[w])
    BY <1>0, <2>1
  <2>4. Running' = Running
    BY <2>1 DEF Running
  <2> HIDE DEF v
  <2> QED BY <2>1, <2>2, <2>3, <2>4 DEF OnePlace
<1>5. CASE ApplyEnd \/ SweepEnd \/ Shutdown \/ Join
  BY <1>1, <1>5 DEF ApplyEnd, SweepEnd, Shutdown, Join, pace, shared, thread
<1>6. CASE Unaddressed
  <2>1. walk \in Venue
    BY <1>6 DEF Unaddressed, Data, Venue
  <2> QED BY <1>1, <1>6, <2>1, RequestOnePlace DEF Unaddressed, pace
<1>7. CASE TakeJob
  <2> DEFINE v == Head(pending)
  <2>1. pending # <<>> /\ pending' = Tail(pending) /\ job' = v /\ UNCHANGED <<inflight, done, batch>>
    BY <1>7 DEF TakeJob, pace, engine
  <2>2. IsInjective(pending') /\ ToSet(pending') = ToSet(pending) \ {v} /\ v \in ToSet(pending)
    BY <1>0, <2>1, TailVenue DEF OnePlace
  <2>3. v \in Venue /\ Running = {} /\ Running' = {v}
    <3>1. v \in Venue
      BY <1>0, <2>1, HeadTailProperties
    <3>2. job = NoJob
      BY <1>7 DEF TakeJob, Threads
    <3> QED BY <2>1, <3>1, <3>2, Venues DEF Running
  <2> HIDE DEF v
  <2> QED BY <2>1, <2>2, <2>3 DEF OnePlace
<1>8. CASE Return \/ Lookup \/ Publish \/ Tick
  BY <1>1, <1>8 DEF Return, Lookup, Publish, Tick, pace, engine, shared, thread
<1>9. CASE Report
  <2> DEFINE a == [slot |-> job, ips |-> ans]
  <2>1. done' = Append(done, a) /\ job' = NoJob /\ UNCHANGED <<inflight, pending, batch>>
    BY <1>9 DEF Report, pace, engine
  <2>2. job \in Venue /\ job # NoJob
    BY <1>9, Venues DEF Report, Threads, Data
  <2>3. Running = {job} /\ Running' = {}
    BY <2>1, <2>2 DEF Running
  <2>4. a \in Answer /\ a.slot = job
    BY <1>0, <2>2 DEF Answer
  <2> HIDE DEF a
  <2>5. job \notin Slots(done)
    BY <2>3 DEF OnePlace
  <2>6. Once(done') /\ Slots(done') = Slots(done) \cup {job}
    BY <1>0, <2>1, <2>4, <2>5, AppendAnswer DEF OnePlace
  <2> QED BY <2>1, <2>2, <2>3, <2>6 DEF OnePlace
<1>10. CASE UNCHANGED vars
  BY <1>1, <1>10 DEF vars, pace, engine, shared, thread
<1> QED BY <1>2, <1>3, <1>4, <1>5, <1>6, <1>7, <1>8, <1>9, <1>10
        DEF Next, Engine, Sweep, Loop

-----------------------------------------------------------------------------
(* The theorems.                                                           *)

\* The invariant is kept by every step of the engine's thread and the
\* resolver's, in any interleaving, for any venues and waits.
THEOREM ResolverInvariant == Spec => []Inv
<1>1. Inv /\ [Next]_vars => Inv'
  BY DataStep, FlagsStep, ThreadsStep, AnnouncedStep, PacingStep, AddressStep, OnePlaceStep
     DEF Inv, TypeOK
<1> QED BY InitInv, <1>1, PTL DEF Spec

\* The variables keep their types, back_off's doubling its bounds.
THEOREM ResolverTypeCorrect == Spec => []TypeOK
<1>1. Inv => TypeOK
  BY DEF Inv
<1> QED BY ResolverInvariant, <1>1, PTL

\* A lookup is in one place only, so the capacity reserve()d for one answer per
\* venue is never exceeded and the pushes under the mutex cannot throw.
THEOREM LookupInOnePlace == Spec => []OnePlace
<1>1. Inv => OnePlace
  BY DEF Inv
<1> QED BY ResolverInvariant, <1>1, PTL

\* apply_reresolved's unlocked look at `ready' misses no answer.
THEOREM AnswersAnnounced == Spec => []Announced
<1>1. Inv => Announced
  BY DEF Inv
<1> QED BY ResolverInvariant, <1>1, PTL

\* ~Engine joins a thread that is waiting or has returned, never one in a lookup.
THEOREM ShutdownJoinsAtOnce == Spec => []JoinsAtOnce
<1>1. Inv => JoinsAtOnce
  BY DEF Inv, Threads
<1> QED BY ResolverInvariant, <1>1, PTL

\* The address dialled is on the venue's list, unless readdress ran out of memory.
THEOREM DialledIsListed == Spec => []AddressListed
<1>1. Inv => AddressListed
  BY DEF Inv
<1> QED BY ResolverInvariant, <1>1, PTL

\* Two lookups of one venue are queued kReresolveMinNs apart or more.
LEMMA RequestSpaced ==
  ASSUME Data, Pacing, NEW v \in Venue, Request(v)
  PROVE  \A w \in Venue : asked'[w] # asked[w] => asked'[w] >= asked[w] + MinWait
<1>0. /\ now \in Nat /\ asked \in [Venue -> Int] /\ next \in [Venue -> Nat]
  BY DEF Data
<1>1. CASE asked' = asked
  BY <1>1
<1>2. CASE MayAsk(v) /\ asked' = [asked EXCEPT ![v] = now]
  <2>1. now >= next[v] /\ next[v] >= asked[v] + MinWait
    BY <1>2 DEF MayAsk, Pacing
  <2> QED BY <1>0, <1>2, <2>1
<1> QED BY <1>1, <1>2 DEF Request, pace

\* However often its connects fail, a venue's name is looked up no faster than
\* the configured minimum apart.
THEOREM LookupsRateLimited == Spec => RateLimited
<1>1. Inv /\ [Next]_vars
      => [\A v \in Venue : asked'[v] # asked[v] => asked'[v] >= asked[v] + MinWait]_vars
  <2> SUFFICES ASSUME Inv, Next
               PROVE  \A v \in Venue : asked'[v] # asked[v] => asked'[v] >= asked[v] + MinWait
    OBVIOUS
  <2>1. Data /\ Pacing
    BY DEF Inv, TypeOK
  <2>2. ASSUME NEW v \in Venue, ConnectFailed(v) \/ Undialable(v)
        PROVE  \A w \in Venue : asked'[w] # asked[w] => asked'[w] >= asked[w] + MinWait
    BY <2>1, <2>2, RequestSpaced DEF ConnectFailed, Undialable
  <2>3. CASE Unaddressed
    <3>1. walk \in Venue
      BY <2>1, <2>3 DEF Unaddressed, Data, Venue
    <3> QED BY <2>1, <2>3, <3>1, RequestSpaced DEF Unaddressed, pace
  <2>4. CASE TakeAnswers \/ ApplyOne \/ ApplyEnd \/ SweepEnd \/ Shutdown \/ Join
    BY <2>4 DEF TakeAnswers, ApplyOne, ApplyEnd, SweepEnd, Shutdown, Join, pace
  <2>5. CASE Loop \/ Lookup \/ Tick
    BY <2>5 DEF Loop, TakeJob, Return, Report, Publish, Lookup, Tick, pace
  <2> QED BY <2>2, <2>3, <2>4, <2>5 DEF Next, Engine, Sweep
<1> QED BY ResolverInvariant, <1>1, PTL DEF Spec, RateLimited
=============================================================================
