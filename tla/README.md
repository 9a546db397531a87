# Formal models of the nginx demo

The repository rebuilds parts of nginx step by step; `src/demo/src` is the sum of
these exercises: a master with worker processes, a websocket server on an
edge-triggered event loop, and a process that takes messages from redis and
broadcasts them to the workers through shared memory. This directory holds TLA+
models of it, what TLC checks on small instances, and what TLAPS proves for all.

All paths below are relative to `src/demo/src`. The build considered is the one of
the makefile: x86-64 Linux, NGX_DEBUG undefined, one worker (NGX_PROCESS_NUM 1)
unless said otherwise, so the models leave the number of workers open.

## 1. Inventory

| component | code | state | operations |
|---|---|---|---|
| Message ring | core/ngx_cycle.c, os/unix/ngx_process_cycle.c, http/ngx_websocket.c | `ngx_messages[]` in MAP_SHARED memory; the writer's index and id; each worker's slot and last id | store a message and notify; scan, read, send, resynchronise |
| Master, workers, channels | os/unix/ngx_process_cycle.c, ngx_process.c, ngx_channel.c | `ngx_processes[]`, signal flags, pending signals, socketpair channels | spawn, pass channels, signal, reap, exit |
| Cached time | core/ngx_times.c, ngx_atomic.h | 64 slots of time and strings, a try-lock, published pointers | update in the main program, update in a signal handler, read in the log |
| Connection pool | core/ngx_connection.c | `connections[]`, free list, reusable queue | get, drain, reusable, close, free |
| Event loop | event/ngx_epoll.c, ngx_event.c, ngx_event_accept.c | epoll interest and edges, event flags, instance bits | wait, dispatch, accept, register |
| HTTP request | http/ngx_http_request.c | handlers, request, response buffer | read, parse, answer, upgrade, finalise |
| Websocket delivery | http/ngx_websocket.c | hash table of channel queues, `wc` | join, send, leave, close |
| Redis client | os/unix/ngx_redis_message.c | socket, buffer, parser state | connect, subscribe, read, parse, reconnect |
| HTTP parsers | http/ngx_http_parse.c, ngx_http_request.c | parser state, pointers into the header buffer, header list, in the request | read, request line, header line, headers looked at, decision |
| Memory pool, list, array | core/ngx_palloc.c, ngx_list.c, ngx_array.c | blocks with `last` and `failed`, `current`, large entries | create, allocate, free a large one, destroy; push |
| Timers | core/ngx_rbtree.c, event/ngx_event_timer.c, ngx_event_timer.h | a red-black tree of the events with a timer, `ngx_current_msec` | add, delete, find, expire |
| Table of channels | core/ngx_hash.c | chains, size, number of entries | create, insert, enlarge, look up |
| Start-up and wrappers | core/nginx.c, ngx_cycle.c, ngx_connection.c (listening), os/unix/* | command line, pid file, descriptors | one pass, sequential |

How they interact. The *master* forks the workers and the *message process* and
talks to workers through channels (open channel, terminate, quit) and signals. The
*message process* reads redis, writes into the ring and writes
`NGX_CMD_NEW_MESSAGE` into every worker's channel. A *worker* sleeps in
`epoll_wait()`; its clients, its listening socket and its channel wake it; after
every batch of events it walks the ring and sends what is new to the queue of the
message's channel. Signals interrupt everything and update the *cached time*,
which every log line reads.

What is hard, and what each part owes (the full list, line by line, is under
`hazards` in PROJECT.json):

- *Message ring*: no lock, one writer that never looks at its readers, wake-ups
  through bounded channels, the id stored before the rest. It owes each worker
  the messages in order, whole as long as the writer stays out of the slot, no
  sleep on a message, and a way back in step after a lap.
- *Processes*: coalescing signals, full channels, signals between a test and a
  blocking call, partial start. Owed: an order to stop reaches everyone, no
  zombie is forgotten, every worker learns every other's channel.
- *Cached time*: handlers nest at any instruction. Owed: one owner of the lock,
  never a torn string published, time that does not go back.
- *Connections*: events of one batch that invalidate each other, edges that are
  reported once, drains in the middle of an accept, sends that are cut or fail in
  the middle of a walk. Owed: every slot accounted for, live members in every
  queue, no unread byte without an edge, no bytes after a cut frame.
- *Redis client and parsers*: input cut anywhere. Owed: the same result whatever
  the cuts, and recovery when redis goes away.
- *Memory pool and what lives in it*: calls that allocate twice and fail at the
  second; blocks that are given up, and blocks whose size is no multiple of the
  alignment, where the room left is computed below 0. Owed: no two allocations overlap,
  none leaves a block that ends on the alignment, and none straddles the end of
  another; nothing leaks, a list or an array has memory for what it counts.
- *Timers*: no hazard today, as no handler sets a timer; what the functions owe any
  caller: a red-black tree in the order of time, over the end of the clock and with
  equal keys, each handler called when its time has come and not later than that round.
- *Table of channels*: enlarged in the middle of an insertion, or not for lack of
  memory. Owed: each channel is found with the queue last put for it.

## 2. Modules

| module | models | state and actions in terms of the code |
|---|---|---|
| `MessageLog` | abstract: what a broadcast log promises | `published`, `passed[w]`; a reader skips only what a whole ring separates it from |
| `MessageRing` | the ring, its writer, its readers, the wake-ups | one action per store or load of shared memory: `Store` (five fields in code order), `Advance`, `Notify`; `Scan`, `Lookup`, `LoadLength`, `SendHead`, `SendBody`, `Resync` (the second load of the id) |
| `ProcessLife` | master, workers, message process | `mpc`/`pc[s]` are the places where each process may be; spawn with its failures, `sigsuspend`, the flags of signals, the order to stop over channel or kill, SIGCHLD and `waitpid` |
| `TimeCache` | cached time of one process | a stack of activations: main update, log line, signal handlers on top; one action per group of stores between two points where a handler can tell the difference |
| `Connections` | pool, epoll, accept, request, upgrade, delivery | `connections[s]` holds the event handlers by name and the flags; `peer[k]` the kernel side; `interest`, `ready_list` epoll; actions `EpollWait`, `TakeEvent`, `WriteHalf`, `Accept`, `Drain`, `Take`, `ReadRequest`, `WriteResponse`, `Scan`, `Walk` and the clients |
| `RedisStream` | redis connection, buffer and resumable parser of the message process | `stream` is what redis sent and nobody received, `buffer`, `pos`, `last` the buffer, `state`, `after_cr`, `number`, `message_length` the parser's memory; `Receive`, `Interrupted`, `Call`, `Parse` (one cell: `Start` ... `InPayload`, `Done`), `Again`, `Reconnect` |
| `HttpParse` | parsers of the request line and of header lines, the handlers that call them, the read into the one buffer, the decision | `buffer`, `pos`, `last` the buffer, `p`, `state`, `hash`, `i` the parser's local copies, `r` what the request keeps between two calls; actions `Receive`, `Call`, one cell of the request line or of a header line, the returns of both, what is done with a header |
| `MemoryPool` | pool, list, array | one call is a set of outcomes of a pool (with malloc failing or not), so that calls that allocate twice compose two; `pieces` are the allocations inside the blocks, `heap` what malloc gave |
| `RbTree` | the red-black tree, pointer by pointer | `Insert`, `Delete` with their rotations and repairs, `MinFrom`, `NextOf` as operators on a record of pointers; a loop of the code is `Loop` of its body (`InsertRound`, `DeleteRound`, `PlaceRound`, `MinRound`, `UpRound`), both sides of the tree written once |
| `Timers` | event timers over `RbTree` in the rounds of the event loop | `Wait`, `Handle`, `Expire`, `ExpireTimer`, `Expired`; what handlers set and delete is an input |
| `HashTable` | the table of the channels | `NewTable`; an insertion in the steps of the code: `HashInsert`, `Enlarge`, `Move` (one entry to its new chain), `Moved`, `Renew`, `Add`, with the failures of malloc; `Lookup` |
| `*_proofs` | theorems about the module of that name; `Structures_proofs` about `MemoryPool` and `HashTable`, `Timers_proofs` about `Timers` and `RbTree` | |
| `MC*` | the same for TLC, with one or more .cfg | |

`MessageRing` composes writer, workers and channels; `Connections` composes the
worker's parts, since they interact inside one batch of events. The two meet at
`ngx_websocket_process_messages`: `MessageRing` has every load of shared memory
and one send, `Connections` has whole messages and every client's send. `RedisStream`
ends where `MessageRing` begins: a member of its `broadcast` is what
`ngx_websocket_frame_encode` stores. `HttpParse` is the inside of one step of
`Connections`, whose verdict of a parser is any its state allows. What a process
keeps for itself alone (`TimeCache`, `MemoryPool`, `Timers`, `HashTable`) shares
nothing and is put side by side in `MCStructures`, for one run.

Abstractions worth knowing:

- `MessageRing` names messages by number; a field of a slot is the number of the
  message whose store reached it last. x86-64 keeps stores and loads in order.
- `ProcessLife` has one flag for `ngx_terminate` and `ngx_quit` in children, which
  treat them alike; the order of commands inside a channel does not matter, since
  a child empties its channel before it looks at anything.
- `TimeCache` keeps one string in two halves for all strings both updates write.
- `Connections` replaces the HTTP parser by any verdict the state allows, keeps
  one bit "unread bytes" per socket, leaves out allocation failures, and handles
  one `recv()`, `send()`, `accept4()` or handler per step, with clients acting in
  between. Two places use freed memory: the second write event of a drained
  connection may do nothing or lose the worker (`corrupt`); the walk reads a link
  of a connection it just closed, which is modelled as the old link, what
  free() leaves there as nothing is allocated in between.
- `RedisStream` has cells for bytes: what the parser compares at once is a cell or
  two (so that a cut inside is possible), a length in digits is one cell, the
  channel name with its length and the number of clients is one. Memory the
  buffer has not been given matches nothing, and so does memory past its end.
- `HttpParse` has cells for characters, too: in the request line every character
  the parser tells apart, in names and values of headers the stretches it hashes
  or compares at once. What a client sends is a record of parts; its text, and what it
  means, are defined from the parts. A comparison with memory that was not written goes either
  way; two history variables, `cut` (the method was compared with bytes not yet
  received, http/ngx_http_parse.c:56) and `overread` (a header name without a NUL
  was compared past its end, http/ngx_http_request.c:451), mark the runs in which
  it happened, and the answer is not promised there.
- `MemoryPool` has sizes and offsets in bytes and no contents. What is allocated
  behind the end of a block keeps its offset; which other memory its bytes then
  overwrite is not in the model. The bounds MaxBlocks
  and MaxLarge are failures of malloc like any other; MaxPieces ends a run.
- `Timers`: no handler of the program sets a timer (the calls are commented out),
  and no worker updates `ngx_current_msec`, so a timer, if one were set, would
  never expire. The module checks the functions for what they owe any caller: the
  clock advances, and handlers set and delete what they like, but for a delay of
  0 set again by the handler itself, which `ngx_event_expire_timers` would call for ever.
- `RbTree` lets a loop go round as often as there are nodes, at most. `Timers_proofs`
  shows that this is enough for each of them to end as the code ends it. Half is half
  of the numbers a key may be, 2^63 for `ngx_msec_t`: the sign of a difference.

## 3. Runs

Every property of a passing run has a mutant in PROJECT.json: a definition changed
the way a plausible bug would, with which TLC finds the property violated.

| run | instance | what it shows |
|---|---|---|
| `ring` | 2 slots, 2 workers, channel of 1, 4 messages | the writer laps a reader up to a whole ring and more; order, cursors, wake-ups, wholeness outside overlaps; refinement of `MessageLog` with liveness |
| `life` | 2 workers + message process, channel of 1 | any interleaving of start, failures, signals and exits; nobody is left untold, everyone told exits |
| `life_quit` | the same | violated: after SIGQUIT the master never leaves its loop |
| `time_skip` | 3 slots, 3 seconds, 2 nested handlers | violated: a process, master or worker, skips lines of its log after as many signals as there are slots |
| `pool` | 1 slot, 2 clients, 1 message, 1 response refused by the kernel | full pool, drain, slot reuse with stale events, deferred responses |
| `delivery` | 2 slots, 2 clients, 1 message | two websockets in the queue, every combination of whole, cut, refused and failed sends |
| `eof` | 1 slot, 1 client | violated: end of stream after half a request is not announced |
| `reset` | 1 slot, 1 client | violated: write error answered by a write, without end |
| `redis` | buffer of 20 cells, 3 messages of up to 2 (limit 1), 1 failure | the stream cut at any cell, the subscription accepted or refused, a close or a signal at any moment, every outcome of the buffer's end |
| `redis_full` | the same, no failure | violated: a full buffer is taken for a redis that has gone away |
| `http` | some seventy requests, each a request for a websocket or one that differs from it in one part; a buffer of 33 cells, names of up to 2 cells in lower case | cut anywhere by the network and closed anywhere by the client: answer, line and headers are those of the request; what is complete is answered |
| `structures` | time: 3 slots, 3 seconds, 2 nested handlers; pool: blocks of 131 bytes, no multiple of the alignment, requests of 3, 48 and 100, 4 blocks, 2 large; timers: 6 events, a clock of 16 ms; table: 5 channels, 3, 5 and 7 chains | lock ownership, whole strings, monotonic log time under any nesting; the pool, its list and its array; the tree and the order of expiry; the channels found |

Bounds. *Ring*: with two slots and four messages the writer passes a reader by one
and by two laps; more slots add no new order of accesses, since only the reader's
own slot and its neighbour matter; the proofs cover all N. *Processes*: two workers
are the least that must learn of each other; a channel of one is the least that can
be full at the wrong moment. It is also all the room that one OPEN_CHANNEL needs, so
no state of `life` has one dropped: what the run shows of MeshIsComplete is the failing
starts, and the room that is needed is the hypothesis of `MeshIsBuilt` alone. *Time*: three slots separate "the slot published",
"the slot being filled" and "the next one", two handlers on top of the main program
exhaust the outcomes of a try-lock. *Connections*: with one slot each newcomer
meets a full pool, and the slot is reused while events for its last owner are still
in the batch; two members are enough for a queue that loses its head, its tail or
both while it is walked. Requests, drains and re-registrations are not bounded;
the bounds MaxPressure and MaxMessages cap the failures of the kernel and the
messages. *Redis*: the buffer takes the answer and two short messages, so that the
third meets every outcome: a buffer that was reset, one whose start is copied over
an unparsed tail (Slack 5), one that is full; a payload of 0, of the limit and of
one more are the three cases the parser tells apart. *HTTP*: the requests differ
from a good one in one part, as the parsers have no memory of a part beyond the
pointers and the state the model has; the buffer of 33 cells is one that a long
line fills, and LC 2 is one that a name of three cells goes round. *Pool*: a block
of 131 bytes is full after one or two requests, so that four are enough for blocks
behind `current`; like the 2018 bytes of a request it does not end on the alignment, and
after 128 bytes one more request of 3 fills it up to where the next aligned address
is behind the end (list parts and the elements of the array come to lie there in the run); Patience is 0 in the run instead of 4, as the path to five
failures of a block is long and only the comparison matters; the proofs leave
all of these open. *Timers*: with five nodes a wrong colour in the repair that
borrows from the sibling goes unnoticed, with six it does not; delays of 1 and 3 ms on a clock
of 16 keep all times in use within half of the clock, which is what
TimersAssumption says and a clock of 2^64 ms gives. The VIEW replaces the tree by
its shape with keys, colours and flags: which event has which timer makes no
difference to what the tree or an invariant does, and the links and the key of a node outside
the tree, and the parent of the sentinel, are written before they are read. *Table*: keys that meet in a
chain of three, part in five, and a third growth; after `Primes` the code
multiplies the entries by ten.

Fairness. *Ring*: the writer finishes what it has begun to publish and every worker
goes on running (the scheduler), redis owes nothing. *Processes*: the master, the
children and the handlers run; no signal or failure is owed. *Connections*: the
worker runs; clients owe nothing. *Redis*: the message process runs
unless it waits in `recv()`; redis and signals owe nothing. *HTTP*: the worker runs, and
what the client has sent arrives (TCP), so that a complete request is
received in the end. `structures` has only safety.

CHECK_DEADLOCK is off where the system really stops: everyone has exited, the
bound of messages is reached, all clients are done, or redis has nothing more to send.

## 4. Findings

- `life_quit`: `continue` in os/unix/ngx_process_cycle.c:136 skips the exit of the
  master on SIGQUIT, whose log line says "shutting down".
- `time_skip`: the slots of a process, master or worker, get `sec = 0` from every
  signal; when the handler comes round to the slot `ngx_cached_time` points to,
  `ngx_time()` is 0 and equals the initial `disk_full_time`, and lines are skipped:
  until the next update in the master, for good in a worker, which never updates.
- `eof`: the condition at event/ngx_epoll.c:359 compares identifiers the
  preprocessor does not know, so EPOLLRDHUP is not subscribed; `ngx_unix_recv`
  relies on it, and an end of stream that comes with half a request is never read.
- `reset`: a failed write of a response calls `ngx_http_finalize_request`, which
  writes again; `c->error` would end it and is set nowhere.
- `redis_full`: when the buffer fills up inside a message, os/unix/ngx_redis_message.c:97
  calls `recv()` with a size of 0 and takes its 0 for the end of the stream; the
  log says "redis server has gone away." of a redis that is connected, and as the
  buffer stays full the next connection ends the same way.

Behaviour that contradicts no text of the repository and is in the model: the ring
has no lock where http/ngx_websocket.c:371 and :394 have "todo" comments, so that a
reader may skip a message or mix two (`UndisturbedFrameIsWhole` delimits the
damage); a slow
websocket leaves the queue for good (`message_size` is never set); a drain whose
tail does nothing on close frees nothing and newcomers are refused while idle
connections remain; EMFILE stops accepting for good; a worker that dies is not
started again; a cut inside the prefix that `strncmp()` compares ends the message
process, unless the bytes an earlier message left in the buffer happen to match,
which is then the right answer; the `ngx_memcpy` of os/unix/ngx_process_cycle.c:295
copies the start of the buffer over the tail instead of the tail to the start; a
new connection keeps the parser's state, so that the answer to its subscription
ends the process or is taken for the rest of a message; a GET that is cut in its
first four bytes is refused, or taken, as memory happens to be; the entry of a
large allocation is never used again after `ngx_pfree`, since the search of
core/ngx_palloc.c:171 looks for an entry that is NULL instead of one whose
allocation is; a table that cannot be enlarged refuses the key even when the
chain has it; the pool of a request has 2018 bytes, no multiple of the
alignment, so that an aligned address may lie past the end of a block, where the
difference core/ngx_palloc.c:111 computes is taken for a large number and the
allocation lies behind the block (`Behind`). Outside the model: http/ngx_websocket.c:79-89 keeps the memory of a
queue that could not be put into the table.

## 5. Proofs

TLAPS proves the following for all values of the constants, from the assumptions
named in the modules (positive sizes; at least two time slots).

- `MessageRing_proofs`: `TypeCorrect` (with "the notified slot is a worker's while
  the stage is NOTIFY"), `RingIsOrdered` (strengthened by "the id is ahead of the
  index": it is what relates ids of this lap and the last), `NoWakeupIsLost`,
  `CursorStaysInStep` (through `LapInv`: writer and readers are a multiple of N
  apart from their slot; multiples of N instead of `%`, which the provers do not
  reason about), `UndisturbedFramesAreWhole` (`FrameInv`), and
  `ImplementsLogSafety`, the step simulation of `MessageLog`'s safety part.
- `ProcessLife_proofs`: `TypeCorrect` with `TableOK` (used slots are the first
  ones), `MarkedWorkersAreTold`, `NobodyIsLeftUntold` (`LeaveInv`),
  `ZombiesAreCollected`, `MeshIsBuilt` under the assumption ChannelCap >= W - 1,
  which is the exact answer to the source's "TODO: NGX_AGAIN" and the only result about it.
- `TimeCache_proofs`: `TypeCorrect`, `LockIsOwned` and `PublishedStaysWhole` from
  `FillInv`: which activation owns the lock, and that the slot being filled is not
  the published one. `LinesAreWhole` adds `CopyInv`: an activation that copies
  either interrupted an update, which cannot go on before it is over, or `slot` is
  as many slots ahead of the one it copies as were filled since. `TimeOnlyAdvances`
  adds `OrderInv`: second published <= second being filled <= now.
- `Structures_proofs`, the pool: `PoolTypeCorrect`, `AllocationsStayApart`, `MemoryStaysAccounted`
  and `ContainersStayWhole`, from one invariant `IInv`: `Good(pool)` (the pool has
  its type, its pieces are apart and what malloc gave is accounted for), the list and the array
  have their memory in it, and the two do not share it (`Different`), which is
  what keeps the one whole when the other grows in place. As a call is a set of
  outcomes, the lemmas are about one function each: from a good pool every outcome is
  good, keeps what was allocated (`Keeps`) and adds what it returns (`New`); a call
  that allocates twice cites two of them, and an action cites its call. The size of
  a block is any that has room for an entry, on the alignment or not: `Held` (only a
  block that does not end on the alignment may have its next free byte behind the
  end) and `InBlock(m) \/ Behind(m)` for each piece are inductive together, since the
  test of ngx_palloc_small() either finds real room or an address behind the end.
  `AlignedPoolsStayInside` is what is left of it for the pools of the cycle (a default
  size), of a connection (1024 bytes) and of the websockets (512): nothing leaves its block.
- `Structures_proofs`, the table of the channels: `ChannelsStayFound` from `HashInv`. Every
  pair is in the chain of its index and no key is in a table twice (`Proper`); while
  entries are moved, a key that was put is in the old chains or in the new ones,
  never in both, with the value last put; the count is that of the keys put. No
  induction over chains is needed, as the module moves one entry a step; the lemmas are
  about an entry that is linked, unlinked or overwritten.
- `Connections_proofs`: `TypeCorrect`, `PoolStaysAccounted` and `QueuesStayLive`, from
  one invariant `BaseInv`. The two properties need each other: a slot can only be
  freed once because a queue holds live slots, and a queue can only stay live
  because nothing else frees its members. The other parts say what the worker has
  in its hands between two steps: an interest registered for an open socket, the
  events of the batch, the connection being accepted, the cursor of the walk.
- The same module, about the clients: `CutFrameStaysLast` and `SubscribersStayInStep` from
  `BaseInv` and `Whole` (a member's client has whole frames). Most actions are
  "quiet" for the two, which one lemma says for all of them.
  `UnreadDataStaysAnnounced` from `BaseInv` and `Attentive`: a request that still reads
  and whose socket holds bytes has an edge with epoll, or an event of this batch that
  carries its instance bit, or its read handler runs; an open socket is registered for
  EPOLLIN; and the batch is empty when the worker sleeps. The instance bit is needed:
  an event of the slot's former owner announces nothing.
- `Timers_proofs`: `TreeOfTheTimers`, `TimersOnTime` and `TimersExpireInOrder` from `TimersIInv`, for every
  number of events, every Half and all delays that TimersAssumption admits: the flags and
  the tree name the same timers, and no time is before `Floor(phase)` (1 once the due ones are
  called, -Lag before) nor so late that it leaves the reach of the signed difference while the
  clock advances by Lag. The tree part is `IsTree(t, d, T, kk)`: there are a function u
  (`Shape`: u[a] is a and what is below it; children know their parents and parents
  their children), a function h (`Level`: the black heights agree) and no red node
  has a red child (`RedRule`), and d orders the nodes T. The order is by d, the time
  until each timer, and not by the keys, which wrap: `Reranked` changes d when the
  time goes on or a key outside the tree is written, and `InReachDiffer` says that the signed
  difference of two keys is that of their d.
  Inside the loops the invariant is weakened at one place, where the loop is: `Rising`
  allows one red node to have a red parent while an insertion climbs; `Holed` lets
  one black node be missing below one side of one node (`Gap`) while a deletion does.
  Each case of the code (`Recoloured`, `Raised`, `Siblinged`, `Turned`, `Borrow`) is a
  lemma about either side, over lemmas about what a rotation does to shape, heights
  and order. The loops end because the number of nodes below, or not below, the place
  where they are goes up each round (`GrowingEnds`).
  A deletion that takes a node from elsewhere (`Substituted`) is a renaming of the
  tree. `TreeIsRedBlack`, `TreeIsOrdered` and `WalkMeetsAll` go from `IsTree` to what the run
  checks; u and h are functions nobody can enumerate, so `TimersIInv` itself
  is not given to TLC, only the parts the properties state.
- `RedisStream_proofs`: `TypeCorrect`: pointers and lengths stay inside the buffer
  wherever the stream is cut, though a comparison runs past the bytes received.
  `CutsNeverMatter` adds `StreamInv`: while no tail was copied over and no connection
  replaced, what is in the buffer from the cursor on, followed by what redis has sent
  and nobody received, is the end of a sequence of frames. `FramesAt` gives the place
  of each frame that is not handed on, in order; the places are needed since a reset of the
  buffer shifts all of them. The parser's memory (state, `number`, `after_cr`,
  `message_length`) is exactly what the part of its frame before the cursor says.
- `HttpParse_proofs`: `TypeCorrect`: for every request and every cut no pointer of
  the parsers or of the request leaves the buffer, but for the one character the
  comparison of the method runs ahead, no name overruns `lowcase_header`, and the version stays in the
  range the checks allow. `WhatIsKeptWasSent` and `RequestsAreAnswered`: what is kept of
  a request is what was sent, and its answer is the one its parts deserve, however it
  is cut. They assume that the requests are clear (`IsClear`: no part of the record
  holds a cell that would end it, so that the record is the one way to read its text;
  a request may still be wrong in every part), and give every buffer size and every
  number of lines. `ParseInv` has three layers: where each part of a request is in its
  text (`LineIn`, `HeaderIn`, `From`); what the parser knows at a place in a part
  (`LinePlace`, `HeaderPlace`: for each state the cells it can stand before, the
  pointers set so far, the number of the minor version, the name in lower case; one
  lemma `After...` per state says what the next cell means); and what the handlers
  have (`Understood(k)`: the cells of the line and those from header line k on are
  untouched by the NULs written into the buffer, the list is that of the first k
  lines, and the key kept is a C string with the value of the last line that has
  one). A refusal is right because the cell it came at shows the request to be wrong.

Only model-checked: liveness (`ToldWorkersExit`, `MessageProcessExitsWithTraffic`,
`LeaversAreClosed`, `ResponsesAreFinished`, `MessagesArrive`, `CompleteIsAnswered`,
the fairness part of `ImplementsLog`), which is beyond the prover. Every invariant and
every action property of a passing run is stated by a theorem. What a function defined by recursion
over a list or over the rounds of a loop is (`HeadersText`, `NumberOf`, `HeadersOf`) is proved through
`Steps` and `Defined`, from the well-foundedness of the numbers, since the induction
theorems of the library take an operator.

## 6. Not modelled, and the plan

Not modelled, and why:

- *Listening sockets* (core/ngx_connection.c:47-203): a sequence of system calls at
  start-up, in one process, each with its error path. Its retry loop counts `tries`
  up from 5 as long as it is not 0, so that an address in use is tried for ever; there is no
  other actor or state to relate.
- *Start-up*, command line, daemon, pid file, wrappers: straight-line code before
  anything runs concurrently. What of it others depend on, the allocation of the ring, is in `MessageRing`.
- *Strings, SHA-1, base64, calendar*: formatting and bit arithmetic without state;
  a model of it would be a transliteration.
- *Queue functions without a caller* (middle, sort, split) and *posted events*
  (NGX_POST_EVENTS is never set); the queues that are used are sequences in `Connections`.
- *The stand-alone programs* beside `demo/`: `demo/` has their code in its current form.
- Inside the modelled parts: the flags of signals nobody reads, the self-test of
  EPOLLRDHUP, the accept mutex, allocation failures in the handlers of
  connections; the `note` of each component in PROJECT.json names them.

Done of the plan: 1 `MessageLog`/`MessageRing`, 2 `ProcessLife`, 3 `TimeCache`,
4 `Connections`, 5 `RedisStream`, 6 `HttpParse`, 7 `MemoryPool`, 8 `RbTree`/`Timers`,
9 `HashTable` and the containers. Left, most important first:

10. Allocation failures in `Connections`: accept, request and join, with what
    each leaves behind.
11. Refinement of an abstract pool by the connections of `Connections`.
12. A refinement of an abstract queue of timers, a set of keys, by `Timers`.
