# llmbridge: a verification project

TLA+ models of the llmbridge gateway, TLC configurations that check them on
small instances, and TLAPS proofs. Every definition is translated from the
sources under `src/`; `PROJECT.json` maps each to the lines it models.

## The system

A gateway worker is one thread running one `Engine` over one of two I/O
backends. Clients speak an OpenAI-like HTTP API; each request is framed, routed
to a venue (an upstream provider), forwarded or translated, and its reply is
returned whole or as an event stream. Workers share nothing but two atomics.

| Part | State | Operations | Hard because |
| --- | --- | --- | --- |
| Upstream pool (`core/pool.*`) | intrusive lists per venue, one count | acquire, release, remove, reap | removal from anywhere, reap re-entered by its own closes, one cap over all lists |
| Client side (`core/client.cpp`) | rbuf, request state, output, read gate | frame, dispatch, respond, finish, error, close | pipelining, a request put back for a failover, exactly one record |
| Upstream side (`core/upstream.cpp`) | connection, its client, retry marks | connect, send, bytes, EOF, retry, failover | bytes and EOF in one drain, a failure racing the first byte |
| Streams (`core/stream.cpp`, `stream.hpp`) | framing left, translator, end and truncation latches | begin, pump, flush, terminate, finalize | backpressure, EOF that is or is not an end, partial failure of a step |
| Sweep (`core/sweep.cpp`) | deadlines | sweep | every phase must have a deadline |
| Connection registry (`core/registry.hpp`) | a dense vector, a slot in each member | add, remove, walk | removal while walking |
| io_uring backend (`io/uring_io.cpp`) | rings, in-flight counts, pins | connect, send, receive, pause, close, drain | completions after the code moved on, a full ring, deferred free |
| OutBuf (`core/outbuf.hpp`) | front, offset, back, pin | stage, wire, sent | bytes staged under a send in flight |
| epoll backend (`io/epoll_io.cpp`) | interest, dead list | events, synchronous send, close | a batch that names closed connections |
| Re-resolver (`resolve.cpp`, `engine.cpp`) | job and answer queues, mutex, thread | request, loop, apply, shutdown | two threads, detach or join |
| Hedging (`core/hedge.cpp`) | shadow clients per leg | launch, adopt, settle, close | legs racing in one batch |
| Streamed bodies (`core/body.cpp`, `splice.cpp`) | what was forwarded, what is parked | feed, park, replay | failover in the middle of a body |
| HTTP framing, chunk decoder (`net/http.hpp`) | parser state | feed | input cut at any byte |
| SSE translator (`provider/sse.cpp`) | parser state, open calls, sticky failure | next, dispatch, finish | input cut at any byte, an end that must not be invented |
| Body scanner, JSON readers, splice (`provider/body_scan.cpp`, `json.hpp`, `json_scan.hpp`, `splice.cpp`) | parser state, held positions | feed, parse, walk, override | three readers of one text that must agree |
| Usage and facts of a reply (`provider/openai.cpp`, `translate_gemini.cpp`) | carried bytes, counts | feed | input cut at any byte, a capped carry |
| Request building (`request.cpp`) | facts of a head | read, name a key, build | headers repeated, named, stripped, translated |
| TLS (`net/tls.cpp`, `core/transport.cpp`) | session, ciphertext pending | push, pump | a request sent in plaintext and pending in ciphertext |

`PROJECT.json` lists these and the parts left out (JSON translators, SigV4 and
SHA-256, option parsing, formatting) with the reason, and under `hazards` what
is hard to test in each, at its line, with the properties that are about it.

How they interact: a backend delivers an event; the engine's handler runs to
completion, calling the backend (`send`, `set_read`, `close`, `connect`), the
pool and the registry, and re-entering itself (an error inside a dispatch
inside a failover). A close calls back `Engine::forget`, which takes the other
leg along. The resolver thread shares only a mutex-guarded record with the engine.

## Modules

| Module | Models |
| --- | --- |
| `UpstreamPool` | the pool as code: links, ends, count, stamps; reap one close at a time |
| `PoolSpec` | what the pool promises: a bounded stack per venue |
| `UpstreamPool_proofs` | the pool's invariant and theorems |
| `PoolStacks_proofs` | the proof that the linked lists implement `PoolSpec` |
| `Lifecycle`, `Lifecycle_proofs` | a request's life in one worker, over the epoll backend's events; its invariant and theorems |
| `ClientReads_proofs` | the proof that `Lifecycle`'s clients read their own replies |
| `BodyStream` | a body forwarded while it arrives, or parked; confirm, splice, resend, failover, discard |
| `Hedge` | a request raced over several venues |
| `EpollLoop`, `EpollLoop_proofs` | the batch loop, the registry and the sweep's walk, and the TLS session under a connection; its invariant and theorems |
| `UringConn`, `UringConn_proofs` | the io_uring backend's connections, rings and drain, with `OutBuf`; its invariant and theorems |
| `Reresolver`, `Reresolver_proofs` | resolving venue names on a second thread, rotation, shutdown; its invariant and theorems |
| `Http` | heads and their framing, the chunk decoder, the framer |
| `Sse` | the splitter of events and the translator from Anthropic to OpenAI |
| `Reply` | a reply read in pieces through `Http` and `Sse`, with references over the whole text |
| `Json`, `BodyScan`, `JsonScan` | the parser, the incremental scan, the walk over text with overrides and splices |
| `StreamUsage`, `StreamFacts` | the counts, and a Gemini stream's facts, read as they arrive |
| `Forward` | which of a head's lines a venue's request carries, and its credential |
| `Texts` | bodies, streams and heads read by all of these, and what the readers owe each other |
| `MC*` | instances for TLC |

### UpstreamPool

`newer`, `older`, `newest`, `oldest`, `count`, `ts` are the fields of the code.
`state` says who owns a connection (none, an exchange, the pool), and `dirt`
which of `release`'s reasons to refuse it has. `elder` is a history variable:
the set of connections pooled earlier in the same list. It turns "the list is
well formed" into a statement about one step of a link at a time, so that
removal from the middle can be checked and proved without recursion.
`Release` is `pool_upstream` with every early return of
`UpstreamPool::release`; `Close` is any closing of a connection (its `forget`
removes it from the pool); `ReapBegin`, `ReapOne`, `ReapEnd` are the loop of
`reap`, during which the worker does nothing else.

### Lifecycle

One worker is one thread, so a handler and everything it calls is atomic
towards other events. A handler makes several choices on the way (does this
send complete, is a connection to be had), so it is written as a stack of
routines, `todo`: while it is not empty only its head runs; every event needs
it empty (`Quiet`). A routine of the code is a routine of the stack: `frame`
(`try_frame`), `dispatch`, `send` (`send_upstream`), `lost` (`upstream_lost`),
`failed` (`upstream_failed`), `error` (`error_respond`), `respond`,
`upBytes`, `upEof`, `pump` (`stream_pump`), `pumpEof`, `flush`
(`stream_flush`), `gate` (`gate_client_reads`).

Bytes are items tagged with the request they belong to; the module's header
lists them. A send writes any prefix of what is owed or fails. A venue follows
the grammar of an HTTP response (`Follows`), may cut it anywhere, break it, add
bytes past it, and close with or after any of them. A client's own parser
(`See`) reads what reaches it: `rx.mode` is "bad" as soon as an item belongs to
another request, comes out of place, or ends a stream no venue ended. One thing
out of place is set apart, `rx.raw`: the events of a step the translator failed
in, which the code sends outside any chunk; the property says what may follow.
`sunk` is the code's latch on a request's record: `SinkEmit` sets it wherever a
record is made, and the close that follows a reply (`forget`,
`sink_unfinished`) looks at it before it makes another.

Timeouts are events without a clock: a deadline may pass whenever it applies,
which covers every setting of the timeouts (but off; see fairness).

What the environment may do and is not modelled: bytes a venue sends on a
pooled connection before its next request close it (`IdleDrop`); after one run
of extra bytes ("x") the venue sends nothing more in that exchange.

### UringConn

A connection is a slot with a generation; the operations queued, held by the
kernel and completed are records naming slot and generation, so that "refers to
a freed connection" can be said. The kernel may complete any operation it holds
in any order, end a multishot receive with or without data, and set F_MORE on
an EOF. `FlushFails` lets `io_uring_enter` refuse the flush of a full ring, and
`r.lost` remembers which connections were closed with no entry for their cancel;
`DrainFails` lets it refuse during the drain. Every run has both. The engine is abstracted to what
it asks: stage and send, pause or resume, close, connect. `Flush` hands the
kernel every queued entry at once and says in closed form which operations a
cancel among them finds (`Hit`): those the kernel holds and those queued before
it; their completions come in any order. The shutdown is `BeginDrain`, then
`StopConn` for each live connection (`stop`), then completions until `EndDrain`,
or `QuitDrain` when the kernel refuses. A receive that ends with neither data,
EOF, lack of buffers nor a cancel closes the connection.

### Reresolver

The engine's thread and the resolver's share a record under a mutex. A critical
section is one action, except the resolver's last one: `ready` is an atomic the
engine reads without the mutex, so "the answer is pushed and not yet announced"
(`Held`) is a state, and every section of the engine's waits for its end.
`Request` is `request_reresolve` with its early returns, the first start of the
thread and the failure of either allocation; `TakeAnswers`, `ApplyOne`,
`ApplyEnd`, `Unaddressed` and `SweepEnd` are the sweep's `apply_reresolved` and
`resolve_unaddressed`; `ConnectFailed` and `Undialable` are the two callers
outside it; `Shutdown` and `Join` are `~Engine`. A lookup answers any list of
the name's addresses, in any order, or fails. `stood` and `asked` are history:
whether the last move to another address ran out of memory, and when a venue's
lookup was last queued. Left out of `readdress`: the Host header a bare address
is sent with, which changes along with the address.

### BodyStream

One client connection with one request and another behind it. The head is in at
once, the body arrives a symbol at a time, so every cut happens. A handler is an
operator from the connection to the set of connections it may leave (one for each
answer of the policy, the pool and the kernel it asks on the way): a handler's
own calls stay in its order and nothing runs between them. `c.whole` collects
what each venue holds once it has all it was promised; `by`, `outcome` and `next`
are bookkeeping of the model. Texts are symbols of `Json`, scanned by `BodyScan`
and edited by `JsonScan`, so a splice in the model is the splice of the code.
A venue answers at any moment, closes a stale connection, fails, or takes what it
is sent. Left out: the memory caps on parked bodies, a body's deadlines (they end
a request like a refusal does), chunked uploads (framed before they get here).
One reading of the code it confirms: the byte that `pump_body` keeps back until
`confirm` is also kept back by the scan, which holds the closing brace.

### Hedge

Connections 0 (the client) and 1..Legs (its shadows) run the same handlers, with
the branches the code takes on `shadow`, `hedge_of` and `hedge_open`. A handler
is an operator to a set of states, as above; `spawn_hedge` links every leg in one
step (`Linked`) and sends each by a step of its own (`SendLeg`, with `turn` the
loop's index), while no other handler runs. Left out: `error_owed` and the
error counters, partial writes of a leg (a leg writes to no socket), and
failover, which `upstream.cpp:472` turns off for a hedged request.

### EpollLoop

`Wait` chooses a batch. An entry is handled in its two directions, `ReadHalf` and
`WriteHalf`, each of which may call the engine (`engine`), and `NextEntry` goes
on to the next. While the engine runs it may stage and send, dial, pause,
resume or drop anything, and add a hedge's legs, clients without a socket, to the
registry (`AddLeg`, in a sweep too), any number of times until it returns
(`Return`). These are all the calls the engine makes of the backend and the
registry, and no order of them is left out. `Drop`
marks a connection and keeps it on the dead list. The tick first reaps the pool
(`SweepBegin`), then walks the registry backwards (`WalkBegin`, `SweepOne`,
`SweepEnd`), the engine called for each client; `FreeDoomed` frees the dead at
the end of the turn. The session keeps its records by number: made in
order, staged inside while the sink is refused, then on the way to the socket.
A session makes records of its own (`MaxPost`) after the handshake. The client's
TLS path is the same operators; the instance puts TLS on the venue's side.

### Http, Sse, Reply

`Texts` starts and steps `Reply` beside its own texts, so that one run has both.
Text is a sequence of symbols, one for each thing the code tells apart (CR, LF,
space, colon, digits, known names, other). `Reply` grows a text and reads it in
pieces, one layer a behaviour. The references (`Reference`, `EventsOf`,
`FramingBy`) are written from the whole text, with none of the decoder's state;
`Parsers` is sixteen ways another hop may read a head. To keep the input space
small, `Reply` stops growing a text one symbol after it is malformed or complete,
and sends digits only where a size may stand; heads are scripted for the framing
layer, since the head layer has them all.

### Json, BodyScan, JsonScan, StreamUsage, StreamFacts, Forward, Texts

A body grows from a seed by words, in place of every text over the alphabet:
the seeds are the openings of the cases the readers tell apart (an escape, a
`\u` key, nesting, a model before or after the tracked member, an options
object), and up to `MaxMore` words follow, whole or not. A stream is up to
`MaxFragments` of one venue's events, cut anywhere. In `StreamFacts` a line's
symbols stand in the order `gemini_facts` reads its members. A head is up to
`MaxHead` of `AskedLines`, and is built for every one of `Routes`, each a venue,
what the client asks in which dialect, and what the policy decided. `Forward`
follows a whole request from `try_frame` through `apply_decision` and `dispatch`
to `build_forward` or `build_translated_request`, with every refusal on the way.
Its texts are flags: a path is its layout and its model, a body whether it is a
JSON object, translates and takes the overrides.

## Runs

| Run | Instance | Checks |
| --- | --- | --- |
| `pool` | 3 connections, 2 venues, one cap of 2 | `ListsSound`, `ReapComplete`, refinement of `PoolSpec` (`RefinesStacks`) |
| `lifecycle` | 1 client, 2 pipelined requests, a policy, a translated venue and another, 3 attempts, Expect, replies whole, in halves, chunked or ended by EOF, cut, corrupt or refused | the client reads its own replies, each framed as announced but for a step the translator failed in, after which there is only the close; no answered request is resent, no lost wakeup; every request ends (liveness) |
| `shared` | 2 clients on one venue's pool, HTTP/1.0 keep-alive and close, streams of a given length, bytes past a reply, a stream cap | no reply crosses over, one record a request (its end and the close after it both look for one to make), no upstream left behind |
| `uring` | a client and its upstream, a ring of 2 that may stay full, a drain that may be refused | a paused or resumed read is never lost |
| `uring_reuse` | a slot used twice, 4 bytes, 2 pauses, a ring that may stay full, a drain that may be refused | nothing refers to a freed connection, bytes in order; closed connections whose cancel got an entry are freed and a drain ends (liveness) |
| `resolver` | 2 names, one that never resolves, any allocation failing | one lookup a venue, paced; answers come, shutdown ends (liveness) |
| `texts` | 11 seeds and 3 words, 2 events of 8 kinds, 3 lines of 11 kinds, heads of 3 lines of 13 kinds for some 340 routes; replies' heads of 3 lines, replies of 12 symbols twice on a connection, streams of 6 symbols, 4 events | the readers agree; counts, facts, framing, events and translation the same however cut; requests carry only what they may; unambiguous heads, honest ends |
| `body` | 12 requests, 5 decisions, 3 venues, 2 failovers | a venue has what was decided, none what was not vouched for, the next request is intact |
| `body_options` | the same | a violation, below |
| `hedge` | 3 legs, 2 tokens | one leg serves, the others are reset and recorded; the wait ends (liveness) |
| `hedge_records` | the same | a violation, below |
| `loop` | 2 clients or legs, a TLS venue, batches of 2 | no freed connection is met, none skipped; records whole and in order, what is owed is armed |

`hedge_records` finds the code at odds with its documentation. After `adopt_leg`
the client holds the winning leg's request, marked `hedged`; if the client then
leaves, or a send to it fails, before it has the whole reply,
`sink_unfinished` (`client.cpp:106`) passes over a hedged request, and the leg's
shadow was closed as already recorded: the winner leaves no record.
GATEWAY-INTERNALS.md:1146: "**Records.** One per leg"; `hedge.cpp:198`: "Every
leg leaves a record, whatever ended it". `LegsRecorded`, in `hedge`, states what
does hold.

`body_options` finds another. A body forwarded as it arrives, with a sink and no
policy, is judged by `BodyScan`, which looks into `stream_options` only
(`body_scan.cpp:173`). When it is all in, `end_upload` asks for the facts of the
whole, which also look into `prompt_cache_options`, and drops their verdict
(`body.cpp:278`): a venue gets the whole of a body that repeats `ttl` there,
where the same body, held, is answered 400. CHANGELOG.md:378: "a repeated or
escaped key inside `prompt_cache_options` is refused where a sink or policy
reads the body, as one inside `stream_options` already was";
`translate_body.cpp:90`: "a repeated `ttl` would price one lifetime and buy
another". `OnlyVouched`, in `body`, has this as its one exception, and so has
`ScanAgrees`.

### Further configurations

Kept beside the runs, to be started by hand. The first four pass.

| Configuration | Module | Checks |
| --- | --- | --- |
| `MCUpstreamPoolDeep.cfg` | `MCUpstreamPool` | 4 connections in one list: types, count, cleanliness, newest first, reap |
| `MCLifecycleFailover.cfg` | `MCLifecycle` | 3 pipelined requests: types, `AsksBounded`, `PipelineKept`, `Linked`, `PooledFit` (all also proved) |
| `MCUringMore.cfg` | `MCUringConn` | types, `InflightExact`, `PinnedOneSend`, `ReadsHeld`, and `DrainedAtEnd`, `PinnedStill` (the last three also proved) |
| `MCReresolverMore.cfg` | `MCReresolver` | types, `Announced`, `JoinsAtOnce`, `AddressListed` (all four also proved) |

These each show a disagreement between the code and what its comments or
documents say. The property a run checks of the same behaviour states the
exception exactly, and names the claim.

| Configuration | Violates | What happens | Exception in |
| --- | --- | --- | --- |
| `MCLifecycleChunks.cfg` | `ChunksFramed` | events translated before the translator fails in the same read leave outside any chunk (`stream.hpp:415`); `stream.hpp:430`: "framed like every other write" | `ClientsReadTheirReplies` |
| `MCLifecycleInterim.cfg` | `EveryRequestRecorded` | a request refused while its own 100 Continue is queued is closed on with its phase Idle and leaves no record; `client.cpp:102`: "Every way a request ends reaches forget(), so a request that never completed is recorded here whatever closed it" | `RecordedOnce` |
| `MCLifecycleResidue.cfg` | `ResidueNeverPooled` | bytes past the last chunk of a stream go with the buffer (`stream.hpp:325`) and the connection is pooled; GATEWAY-INTERNALS.md:524 lists them among the refusals | none: the bytes reach no one |
| `MCUringDrain.cfg` | `DrainReapsAll` | the drain leaves on EBUSY and EAGAIN (`uring_io.cpp:570`), which the main loop calls transient, with operations still in the kernel; `uring_io.cpp:557`: "reaped until none is outstanding" | `DrainedAtEnd` |
| `MCTriggers.cfg` | `TriggersOnce` | a trigger whose key is the first byte of a read is not counted: what stands before a key must be seen to know it for one, and the kept tail is joined only when it ends inside the key (`openai.cpp:599`); `openai.cpp:591`: "Each is counted once, where it ends" | `UsageAsWhole` |
| `MCScoped.cfg` | `TokenScoped` | a client's path under a project that is not Google's publisher layout passes the check for an OAuth token (`client.cpp:455`) and is rewritten to the publisher path without a project (`registry.cpp:208`), and one that names no model goes as it was; `dialect.hpp:189`: "a project-scoped target still goes as written", `client.cpp:452`: "An OAuth token reaches Vertex only under a project" | `RequestsClean` (`PathKept`) |
| `MCListed.cfg` | `ListedStay` | a byte-forward drops what a `Connection` line names only if it is a header it has no field for, or `anthropic-beta` (`request.cpp:682`, `:690`): a credential named there leaves; `request.cpp:604`: "the hop-by-hop headers and any the client's Connection names are this hop's", DESIGN.md:310 | `RequestsClean` (`HopKept`, `CredentialsGo`) |
| `MCFramings.cfg` | `BothRefused` | a response with a `Transfer-Encoding` that does not name chunked and a `Content-Length` is framed by its length (`http.hpp:452`, `:495`); `http.hpp:489`: "Both framings present: refuse". A request with any `Transfer-Encoding` is refused (`http.hpp:337`) | `HeadsUnambiguous` |

Met while modelling, with no configuration of their own:

- `upstream.cpp:225` calls a retry "this request's one allowed retry", and
  `upstream.cpp:140` clears the mark whenever a connection is taken from the
  pool, so a request failed over to a pooled connection may be retried again;
  `AsksBounded` states the bound that does hold.
- `uring_io.cpp:235` says every operation on a closed fd completes, and
  `submit_cancel` (`uring_io.cpp:199`) queues no cancel when the ring is full and
  stays full. `ClosedIsFreed` and `DrainEnds` say nothing of such a connection,
  and only of such a one.
- `BodyScan` looks for repeated keys at the top level and in `stream_options`;
  the facts also look into `prompt_cache_options`, and the parser refuses a repeat
  at any depth. `ScanAgrees` says of a body the scan lets through that the facts
  and the parser take it but for exactly these.

### Bounds

- Pool: two venues give the sharing of the cap and three of the four cases of
  neighbours a removal has; the middle of a list needs three members
  (`MCUpstreamPoolDeep.cfg`), and the proofs have lists of any length.
- `Lifecycle`: `MaxReq` 2 lets a reply be followed by another on the same
  connection; two requests arrive together, so one waits behind a failover.
  `Segment` 2 lets one read hold two events, an event and an end, or an end and
  more. Streams are chunked and ended by EOF here, of a given length in `shared`,
  which also has bytes past a reply. `PauseAbove` 0 pauses at the first item owed. `PoolCap` 1 makes the pool
  full; `NUp` is never the bound (`LifecycleConstants`).
- `shared` has one request a client: the second client reuses the first's
  connection. Clients are symmetric.
- `UringConn`: `Depth` 2 makes the ring full with two entries queued; 4 bytes
  give a send of two cut in the middle with a byte staged behind it; `MaxCq` bounds
  the completions the kernel adds unread (cancels add theirs regardless).
- `Reresolver`: `MinWait` 2 and `MaxWait` 3 make the second failure reach the
  ceiling without being a doubling; `MaxNow` 2 is one full wait, after which a
  second lookup of the same venue goes out. One name has two addresses (in
  either order, or one of them), the other none that resolve.
- `Texts`, replies: 12 body symbols hold two chunks with a trailer; `MaxSizeLine` 3,
  `MaxBodyLen` 2, `MaxSseLine` 2 and `MaxEvent` 4 are limits within what is sent, so
  each is passed by one somewhere. `MaxBlocks` 2 with 4 events opens one call too
  many.
- `Texts`: `MaxKeys` 3, `MaxDepth` 3, `MaxLine` 5, `MaxObject` 20, `MaxKeyHeaders` 2
  and `MaxConnections` 1 are all passed by some text. Three words finish, break or
  extend any of the seeds, which are cut where the readers tell cases apart.
- `BodyStream`: bodies of 3 to 18 symbols; two failovers let a venue be returned
  to. `Hedge`: three legs, so that one is cut while another has failed; two
  tokens, so that a winner streams on after the race.
- `EpollLoop`: two clients, each of which may be a leg, so that a leg goes with its
  client in the walk; batches of two, so that the first entry closes the second's
  connection; `MaxOut` 2 with `MaxPost` 1 puts a record of the session's own
  between two of the request's.
- Deadlock is checked for `pool` and `loop`. Elsewhere all connections closed,
  the text read, or the engine gone is a proper end.

### Fairness

- `WF(Internal)`: a handler runs to its return.
- `SF(Sweep(c))`: `sweep_idle` runs on the loop's tick whatever else happens,
  and a client, a venue or a send that makes no progress does not move the
  stamps its deadlines are measured from, so a deadline that keeps applying
  expires in the end. Strong, because between ticks handlers run and the
  action is disabled; assumes the timeouts are on, as they are by default.
- `WF(Enter)`, `WF(Reap)`, `WF(\E c : StopConn(c))`, `WF(EndDrain)`: the loop of
  `run()` submits and reaps in every turn, and its drain cancels every live
  connection before it waits. Nothing is assumed of the kernel's own completions; a
  cancel completes what it finds.
- `WF(Sweep)`, `WF(Join)`, `WF(Loop)`: the engine sweeps on its tick and both
  threads are scheduled. `WF(Lookup /\ ~stop)`: a lookup ends by the system
  resolver's own timeouts; once the engine has been told to stop, nothing is
  assumed of one, which is the case the destructor's detach is for.
- `WF(SendLeg)` in `Hedge`: a loop runs to its end. `WF(turn = 0 /\ Silent(i))`:
  the sweep looks at every leg on every tick, and a venue that is silent meets its
  deadline. It assumes that a venue does not send bytes without content for ever,
  which would move the stamp.

## Proofs

`UpstreamPool_proofs` proves, for any finite set of connections, any venues, any
capacity and any clock, `Spec => []PoolInv` and from it `TypeOK`, `ListsSound`,
`CountSound`, `PoolClean`, and the action properties `AcquireNewest` and
`ReapComplete`. The assumptions are the module's `ASSUME`.

`ListsSound` is not inductive through the count: removing a member decrements
`count`, which is a natural only if the member is counted. `PoolInv` conjoins
the type invariant, the lists (`Chained`, `Ends`, `Ranked`, `AgeOrdered`), the
count and cleanliness. The work is in `Remove`: for a member in the middle, at
either end, or alone, the neighbours' links are rewritten and `elder` loses one
element everywhere; each case is a step. `Ranked` (of two members one is the
elder) is what makes the oldest the elder of all, and with `AgeOrdered` what
makes `reap` right to stop at the first young connection.

`PoolStacks_proofs` proves `Spec => RefinesStacks` from the same assumption: the
pointers implement `PoolSpec`'s stacks. The mapping takes each venue's list to the
sequence `for_each` meets (`Walk`: the sequence that starts at `newest` and
`Follows` the `older` links), and the connections in use to `busy`. The argument
carries one more invariant along, `Listed`: every venue's links spell out a sequence
of exactly its pooled connections, none twice. `WalkIs` shows that links spell out
one sequence at most, by the least place where two would differ; so the walk is the
sequence `Listed` speaks of. `RemoveCuts` (a member taken out wherever it lies),
`RemoveKeeps` (the other venues) and `PushGrows` say what the two list operations do
to it, and each action is then a step of the stacks: `Open` dials, `Acquire` pops,
`Release` pushes or hangs up, a close evicts or hangs up, and the rest stutter.

`Reresolver_proofs` proves, for any venues, names, addresses and waits with
`0 < MinWait <= MaxWait`, and any failures of memory, `Spec => []Inv` and from
it `TypeOK`, `OnePlace`, `Announced`, `JoinsAtOnce`, `AddressListed` and the
action property `RateLimited`. `Inv` adds two parts the runs do not name.
`Threads` ties the flags to where the threads are: `busy` exactly while a job
is held, `stop` exactly once the destructor began, nothing left in `batch`
outside the apply loop; `JoinsAtOnce` needs the first, `OnePlace` the last
(taking the answers overwrites `batch`). `Pacing` says a venue not in flight
may not ask before its last lookup plus the minimum wait; it is what makes
`RateLimited` a one-step fact. `OnePlace` is kept through four lemmas on what
`Append` and `Tail` do to the set of venues in a queue without duplicates.

`EpollLoop_proofs` proves, for any connections, any of them under TLS, any batch
size and any order of the engine's calls, legs it adds to the registry included,
`Spec => []IInv` and from it `TypeOK`, `EntriesLive`,
`SweepLooksAtAll`, `WireWhole` and `OwedArmed`. `IInv` is a conjunction of six
parts. `ControlSound` ties the place in the loop to what may be pending there.
`RegistrySound` says that the vector and the members' slots are inverse to each
other, which is what removal by moving the last member into the hole rests on.
`BatchSound` says that every entry still to be handled names a connection that is
live or doomed, never freed; it holds because freeing waits for the end of the
turn. `SweepSound` says that every member at or above the walk's index has been
looked at, or joined under the walk: a removal moves only a member from the end,
which the backwards walk has passed, into the hole, and a leg joins at the end. `ConnsSound` describes one connection: the records on
the socket, on their way and inside the session are together the numbers
1..`made`, and nothing owed is unarmed; it is stated of the connection record
alone, and one lemma for each call of the transport keeps it.

`UringConn_proofs` proves, for any finite set of slots, any ring depth and any
bounds, `Spec => []IInv` and from it `TypeOK`, `NoUseAfterFree`, `ReadsHeld`,
`InOrder`, the action property `PinnedStill`, and `DrainedAtEnd`, flushes and waits
refused or not: a drain that ends by its count leaves no operation in the kernel,
and one that ends by a refused wait (`uring_io.cpp:570`) leaves only operations of
connections it still counts as in flight. That the second leaves none, which the
drain's comment says, is false (`MCUringDrain.cfg`). `IInv` says of the rings
(`Orderly`) that of one kind at most one operation is out on a connection, and
that a completion with more to come is followed by its operation or its end; of
a connection (`Booked`) that its flags, its count and its generation are exactly
what the rings hold; of its bytes (`Numbered`, `Ahead`) that both halves of the
buffer hold consecutive numbers and that what the peer heard beyond what is
booked is what one unread completion reports; that client and upstream name each
other (`Paired`); and that a connection that wants to read has its receive
(`Reading`). None of the properties is inductive without `Booked`: that a count
reaches zero only when nothing refers to the connection needs the exact count,
and that needs `Orderly`.

`Hedge_proofs` proves, for any number of legs from two and any number of tokens,
`Spec => []RaceHolds` and from it `HedgeTypeOK`, `OneServes`, `LegsSettled` and
`LegsRecorded`. `RaceHolds` is a disjunction, as a handler may end a race anywhere
in its course. `Racing(t, n)`: the client waits, has read nothing and owes nothing;
the legs from `n` on are linked and not sent; each earlier one runs, holding its own
venue connection, with clean bytes and no token shown, or went by itself and left
its one record. `Settled(t)`: no leg is linked or open; all the client read is of
its winner; `Tally`, the records of a request never hedged, of one with no winner
and of one that was won; the client's connection is idle and owes nothing, or is
part of the way through its answer. Neither is kept inside a handler, so `Acting(t,
i, n)` describes a race with leg `i` in the middle of one, and there is one lemma
for each helper of the model that says which of the three it leads to: `Buries`
takes a leg out with its record, `Adopts` and `SettlesAll` settle the race,
`LastGones` leaves the gateway's 502. `AloneLast` is where the order in
`spawn_hedge` matters: a leg is alone only once every leg was sent, so one that
fails at once is not taken for the last. It also follows that the loop's check for
a leg `doomed` by an earlier one is never needed (`Sending`). TLC finds `RaceHolds`
true as well, with `Hedge_proofs` as the module and the constants of `MCHedge.cfg`.

`Lifecycle_proofs` proves, for any finite set of clients, any venues, policy,
requests, streams and bounds, `Spec => []Inv` and from it `TypeOK`, `Linked`,
`NoOrphan`, `PooledFit`, `NoLostWakeup`, `PipelineKept`, `AsksBounded`, the action
property `NeverResendAnswered`, and `RecordedOnce`, whether clients use Expect or not:
a request refused while its own 100 Continue is queued is its one exception, and
`mute` is the history that names it. That a request gets no second record rests on
the latch: a stream is recorded with its phase still Streaming, and the close behind
it is kept from another record by `sunk` alone. The
assumptions are `LifecycleConstants`; the slots are one for each client, each pooled
connection and the two the stack may still name (`LiveFew`, `FreshFree` count them),
so `NUp` never stands for a limit of the code.

The properties speak of the state between events, and a handler passes through
states where none of them holds, so `Inv` says what holds at every step of a
handler. `StackSound`: below the routine that runs there are only what a caller
still owes, the gate of a client's reads and the EOF read along with bytes.
`Local`, for each client, depends on the routine that runs about it (`At`): `Mode`
ties the phase to the flags and to whether it has an upstream; `Pipe` says which
requests are buffered, one more while one is being dispatched or refused; `Awake`
says that a phase that waits has what wakes it, or the routine that will provide
it is on the stack; `Recorded` and `Unanswered` count the records and keep a request
with a response byte out of the phases from which it may be sent. `Owned` says that
client and upstream name each other, that the upstream holds that client's request
(`Pair`), and that a connection without a client is in its venue's list, once, and
fit. `HeadFit` is what a routine about an upstream assumes of it. The step is proved
per routine and event, each in three parts: the client's record (the lemmas
`Local...`), ownership (`Own...`) and the stack (`Goes`, `Leaves`).
`NeverResendAnswered` needs both: a dispatch takes the head of the buffer, which
`Pipe` shows to be the request in hand, and a retry resends the upstream's request,
which `Pair` shows to be its client's.

`AsksBounded` is proved with a count beside `Inv` (`AsksInv`). A request not yet in
hand was never staged, so one that is framed starts at zero with its attempts; one
about to be dispatched was staged at most twice per attempt before this one (`Spent`),
once more while its connection is the attempt's first, twice once that is a retry's.
It rests on what each step leaves alone: only `Frame` and a failover put a dispatch on
the stack (`AllDue`), nothing else changes the attempts (`AllTried`), and no step takes
a retry's mark off a connection a client holds (`FirstBefore`).

`ClientReads_proofs` proves, for the same constants, `Spec => []ClientsReadTheirReplies`:
no client ever reads another's bytes, a reply out of turn, one begun inside another, or
the end of a stream its venue did not finish, and events outside a chunk only where the
translator failed, with nothing behind them but the close. It carries `ReadInv` along with `Inv`.
`Reads` relates what a client has parsed to what it is owed: it has read every reply
before the one it is in (`Hand`: the request in hand, or the next), and the bytes owed
are the rest of that one (`Owing`), each item coming where the parser expects it
(`Fits`) and nothing behind its end. `Told` ties the phase to where that reply is: only
interim responses before it begins, inside a body while it streams, its end staged
exactly when the stream terminated cleanly. Of a step that failed, `Bare` and
`NoRawBefore` say that its events are the last thing owed, and `RawCloses` that such a
client ends closed. `Heard`, `Hearing`, `Sends` and `EofTold`
follow the honesty of an end from the venue to the client: an upstream holds only its
own request's answer; its last item, or an EOF where the body has no framing, only of
an answer the venue finished; and a stream ended without an error has seen one of
them. What a client parses of a run of items is recursive (`SeeAll`), so `SeeAllIs`
gives it in closed form (`Seen`), by the least item at which the two would differ;
`Delivered` then says what any prefix that a send accepts leaves owed, and every handler
is one of a few changes to what is owed: nothing, a message appended, a stream's items
appended, a prefix delivered, the client closed. TLC finds `ReadInv` true as well, on
the instances of `MCLifecycle.cfg` and `MCLifecycleShared.cfg`.

Only model-checked: `RequestsEnd` of `Lifecycle` and `WaitEnds` of `Hedge`, liveness
properties, which the prover does not do; `EveryLegRecorded` of `Hedge` and `OptionsRefused` of `BodyStream`, which are false;
`BodyStream`, which reads text through recursive operators, and the readers of text
themselves, which are recursive.

## Not modelled

- The provider translators but for `gemini_facts`: conversions of one JSON
  document to another with no state of their own, checked by golden files.
- SHA-256, SigV4 and the random and wiping helpers: primitives with test vectors.
- URLs, sockets, DNS calls, option parsing, signal handling, logs, counters,
  histograms and the text of our own replies: I/O and formatting.
- The indices of the io_uring rings and the buffer ring; TLS on io_uring, where
  the session is `EpollLoop`'s and the transport `UringConn`'s.
- Benchmarks, fuzz targets and the old parsers they compare with.

## Plan

1. Done: the pool and the re-resolver with their proofs; the lifecycle, streamed
   bodies and hedging; both backends; the readers of replies, bodies and heads.
2. Done: proofs of both backends, of hedging, of the lifecycle and of what its
   clients read, and of the pool's refinement of its stacks.
3. Proofs: the control of `BodyStream`, once its scanner is a parameter.
4. The composition of `EpollLoop`'s session with `UringConn`'s transport, and
   the rings' indices.
