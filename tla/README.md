# A TLA+ verification of mles-rs

mles-rs is a publish/subscribe server: clients join a channel over a TLS
websocket, and every frame a client sends is distributed to the other members
of its channel and kept in a bounded history. The same process serves static
files, redirects plain HTTP and forwards requests to upstream servers.

This directory holds TLA+ models of the parts of the server that keep state,
TLC configurations that check them on small instances, and proofs, checked by
TLAPS, of the most important invariants for every value of the constants.
`PROJECT.json` maps every definition to the source lines it models.

## 1. The system

| Part | State it keeps | Operations | Interacts with |
|---|---|---|---|
| Event loop (`websocket.rs`, `spawn_event_loop`) | `ch_db`: channel → hash → sender; `msg_db`: channel → history, last activity | handle `Init`, `Msg`, `Logoff`; daily clean-up | every connection, by one event queue (16 places) and one queue per connection (128 places) |
| Connection (`websocket.rs`, `create_ws_handler`) | atomics `h`, `ch`, `ping_cntr`, `is_closed`; a queue; a oneshot | receiver task, ping task, sender task | the event loop, the socket, each other |
| Header and authentication (`types.rs`, `auth.rs`) | none | hash of the header, `verify_auth` | receiver task |
| Compression cache (`cache.rs`) | `LruCache`, `current_size` | `get`, `insert`, `clear` | file requests, under a write lock |
| File server (`http.rs`, `dyn_reply`) | locals of each request | stat, conditional reply, cache lookup, read, compress, insert | cache, file system |
| Listener (`server.rs`) | counters per source, semaphore | policy on accept, accept loop, serve, upgrade, drop | TCP, TLS, websockets |
| Rate limiter (`server.rs`, `lib.rs`) | governor's buckets | check, `retain_recent` | both listeners |
| Reverse proxy, redirect routes (`proxy.rs`, `http.rs`) | none | match a route, forward or redirect | upstreams |
| Start-up (`lib.rs`, `main.rs`) | none after start-up | wire the parts together | all |

What makes it hard: the three tasks of a connection share atomics without a
common lock and end independently; the `Logoff` of a connection is sent by a
different task than its `Init` and `Msg`; the event loop awaits the queues of
the connections and they await its queue; the history is replayed to a
connection that is already registered; files change between the stat, the
cache and the read of one request; a connection, its per-source permit and its
semaphore permit have three different lifetimes. `PROJECT.json` lists these
hazards at their lines, each with the properties that would catch it.

## 2. The modules

| Module | Models | Variables |
|---|---|---|
| `MlesHeader` | header, its hash, `verify_auth` | – |
| `EventLoop` | `spawn_event_loop` | `ch_db`, `msg_db`, the queues, where the loop is suspended |
| `Connection` (extends `EventLoop`) | `create_ws_handler` | one control variable per task, the atomics, the socket |
| `MlesWs` (extends `Connection`) | the composition; its properties | – |
| `MlesWsProofs`, `MlesWsSafety` | proofs about `MlesWs` | – |
| `MCMlesWs` | instances of `MlesWs` | – |
| `CompressionCache`, `ForgetfulMap`, `MCCache` | the cache, what a cache promises, the instance | `cache`, `current_size` |
| `FileServer` (extends `CompressionCache`), `MCFiles` | `dyn_reply` over the cache | the files, each request's locals and reply |
| `Listener`, `ListenerProofs`, `MCListener` | one listening port, proofs, instances | `stage`, `counts`, `available`, `pending`, `listening` |

### Granularity

`main.rs` runs tokio's current-thread runtime, so a task runs undisturbed from
one await to the next. That is one action. Every await at which a task can be
suspended with shared state in between separates two actions; in particular
each send of the event loop is a step of its own. The models do not cover the
library used on a multi-threaded runtime, where `h` and `ch` could be read
between their two stores.

### Queues

A tokio `mpsc` queue is one sequence. Permits are given first come, first
served, so a send that has to wait has its place already: the first `capacity`
items are in the buffer and the later ones belong to blocked senders
(`Blocked`, `EventBlocked`). A task whose send is blocked takes no step. When
the receiving half is dropped (`TxDrop`), the items go and further sends fail.

That is tokio's documented contract, and an assumption about its
implementation, where a permit is given in order but the value enters the
buffer only when the sender that was given it is polled. A receiver that pops
twice in one poll wakes two senders, and the second might be polled first.
The two senders of one connection are its receiver and its sender task.
`EventOrder` and `NoZombie`, and the theorems about them, rest on the contract
and say nothing of such an overtaking.

### Event loop and connections

| Code | Actions |
|---|---|
| `WsEvent::Init`, vacant entry | `InitJoin`, then a `ReplaySend` per history message, then `InitDone` |
| `WsEvent::Init`, occupied | `InitDuplicate` |
| `WsEvent::Msg` | `MsgTake`, a `BroadcastSend(c)` per member in any order, `BroadcastDone`; `MsgDropped` if the channel is empty |
| `WsEvent::Logoff` | `Logoff` |
| clean-up arm | `Cleanup`; `Clock` is the wall clock |
| receiver task, first frame | `RxFirstInvalid`, `RxFirstRefused`, `RxFirstHeader`, `RxFirstEnd` |
| `err_rx.await` | `RxConfirmed`, `RxRejected` |
| frame loop | `RxStreamEnd`, `RxCloseFrame`, `RxFrameWhenClosed`, `RxPong`, `RxData` |
| ping task | `PingStart`, `PingTick`, `PingSent`, `PingStop` |
| sender task | `TxNext`, `TxDrained`, `TxWritten`, `TxFailed`, `TxClosed`, `TxLoggedOff` |

The hashes are represented by what they are computed from: `h` by the header,
`ch` by its channel. This takes SipHash to be injective and never 0. A digest
of `auth.rs` is represented by the bytes it is computed from, and these are
the user, the channel and the key written without separators (`concat`):
`verify_auth` does not tell apart two pairs of a user and a channel with the
same bytes. `h` and `ch` are stored and read together with no await between, so one variable
stands for both. A frame is identified by its connection and its number on it.
The socket is one Boolean, `net`: reads and writes succeed while it holds and
fail afterwards. A data frame of the model is any frame that the code
publishes, client pings included.

History variables, which no action reads: `log` (messages per channel in the
order the loop took them), `joined` (what a joining connection found),
`active` (when a channel's last message was settled), `received` (data frames
written to a socket), `late` (a header read after the sender task ended).

### Cache and file server

The `LruCache` is a sequence, least recently used first; `put` at capacity
drops the head, as the library does. `make_space` is `Pops`, the number of
entries that have to go. A file's content is a version number and 0 stands for
no file; a request carries the set of encodings it wants, so that MIME types
and header parsing reduce to the choice of that set. Files are replaced by
rename, which gives a new modification time each time, so an open file keeps
its content. Modification times are compared in whole seconds (`secs`). A
copy and a 304 carry, for the property only, the version and the exact time
that the seconds were cut from.

### Listener

`stage[c]` follows a connection from the kernel's backlog through policy,
handshake and service to its end. The loop polls its stream only when it is
not waiting for a permit (`Polling`); handshakes advance only then. `TLS`
chooses between `serve_tls` and `serve_http`. Each port has its own limiter
and semaphore (`lib.rs` creates two of each), so one port is modelled at a
time. The rate limiter, which the ports share, is a refusal that may happen at
any time if one is configured.

## 3. The runs

### Passing

| Run | Instance | Shows |
|---|---|---|
| `delivery` | a publishing user; a second connection on the same or another channel, or a duplicate of the first; clock to 2, clean-up threshold 1 | `ExactDelivery`, `HistoryIsRecent`, `TypeOK`, `EventOrder`, `CleanupSparesActive` |
| `leaving` | server with a key; a session that answers pings as long as it likes and leaves, or is refused; a second one that publishes: a duplicate, another user or malformed | `NoZombie`, `ClosedBeforeCleanup`, `OnlyPingedEvict`, `OnlyAuthorisedRemoves`, `JoinAnswered`, `ClosedSessionLeaves`, `SilentPeerClosed` |
| `cache` | four keys, contents of four sizes | `SizeBound`, refinement of `ForgetfulMap` |
| `files` | one file, two clients, two ticks per second | `ServedFresh`, `NotModifiedIsCurrent` |
| `tls` | five connections, three sources, two per source, one permit | `TypeOK`, `CountsExact`, `PerSourceCap`, `PermitsConserved`, `NoneHeldUp` |

`ExactDelivery` is the main property of the websocket server: a registered
client whose sender task runs has received, or has under way to it, exactly
the history it found when it joined followed by every data frame that others
published on its channel since, in the order the event loop took them, and
nothing else. `Due` and `UnderWay` define the two sides. The header frames of
others are due only as part of the history, as in the code; that `README.md`
promises more is the subject of `announced`.

`StaysJoined`, that a registered session is never removed by another one, is
refuted by `evicted`. `OnlyPingedEvict` says how far it does hold: the only
connection that can remove another's entry is a duplicate for which a ping was
queued, or whose ping task has ended, before it was confirmed.
`ClosedSessionLeaves` and `NoZombie` except a connection that was given up
before its header was read, which is the subject of `locked_out`.

`NotModifiedIsCurrent` excepts one case: the client's copy was read in the
same second in which the file changed again. The code cannot tell the two
apart, as seconds are all that HTTP dates carry; the property says that no
other stale copy is ever confirmed.

`NoneHeldUp` says that while permits keep coming free, no waiting connection
waits for ever. It assumes nothing of handshakes or of the length of a
service: `serve_tls` puts no limit on either, and one that never ends must
not delay the others.

### Violations

These runs state what a document or comment of the repository says, and TLC
finds a behaviour of the code that contradicts it. `PROJECT.json` quotes the
lines.

| Run | What happens |
|---|---|
| `announced` | A user joins a channel that has a member. The header frame is added to the history for later joiners, and sent to nobody. |
| `evicted` | A duplicate connection has stored the hash it shares with the registered session. Its socket fails before its rejection resets the hash, and its sender task logs the registered session off. |
| `locked_out` | The ping task gives up a connection that has sent no header. Its sender task ends without a `Logoff`, since `h` is still 0. A header read after that is registered and never removed. |
| `stalled` | The event loop waits on the full queue of a connection whose sender task waits on the full event queue to log off. No channel is served any more. |
| `stuck` | The stream ends before the first frame; the receiver task awaits a oneshot whose other half it owns. |
| `cache_drift` | `put` at the `LruCache`'s capacity evicts an entry whose size stays counted in `current_size`. |
| `upgraded` | The semaphore permit is released when a connection is upgraded, while it lives on. |

One more behaviour has no run of its own, as no document speaks of it: with `TLS = FALSE` in `tls.cfg`, TLC finds that one accept error
(`AcceptError`) ends the redirect port's loop for good.

### Bounds

- Queues have one place (`TASK_BUF`, `WS_BUF` are 16 and 128 in the code), so
  that every send can block. `leaving` is the exception: its event queue has
  six places, which no reachable state fills. With less, the deadlock of
  `stalled` is reachable and is the subject of that run.
- `Limit` is 2, with up to four messages and headers per channel: the history
  overflows.
- `MaxMissed` is 2, as in the code.
- `Client` gives each connection its script: headers it may send, number of
  messages, whether it leaves, whether its connection lasts for pings. A
  client that never leaves or never pings removes interleavings that another
  run covers.
- `MaxTime` 2 and `CLEANUP` 1 let a channel pass the threshold, and a message
  in time keep it, in `delivery`; in the other websocket runs the clock stands
  still.
- `Capacity` is 2, `max_size` 5 and the sizes 1, 3, 6 and 7, with
  `MAX_FILE_SIZE` 6: a file can be refused for its size, replaced, evicted for
  space and evicted by the `LruCache`'s own limit, and one that is not refused
  can be larger than the whole cache, which it empties.
- `SECOND` 2 and `MaxTime` 2 in `files`: two changes can fall in one second
  or in two. A request wants both encodings, one or none.
- `max_per_key` is 2 with three connections of one /64, so that the cap is
  reached by counting and not by the first connection.
- In `files` the clients are symmetric. No liveness property is checked there.

Deadlock is checked in `cache`. In the other runs the clients' scripts, the
clock or the connections come to an end, and a server that has nothing left to
do stops.

### Fairness

`MlesWs`: weak fairness of the event loop and of each of a connection's three
tasks. The executor polls every task that was woken. For the sender task this
includes that a pending socket write resolves, because the peer reads on or
the socket reports an error. What the peer and the network decide (`Peer`) is
not fair: a client need not send, answer or leave.

`Listener`: weak fairness of the accept loop and of the start of a service for
which the loop has a permit; these run without waiting for anybody. Handshakes
and services are not fair: nothing in the code ends a handshake, and the header
timeout of `serve_http` and `serve_tls` does not bound a request or a
websocket. What `NoneHeldUp` needs of them, that permits keep coming free, is
its premise.

## 4. The proofs

| Theorem | States | Module |
|---|---|---|
| `TypesAreKept` | `Spec => []TypeOK` | `MlesWsProofs` |
| `ClosedFirst` | `Spec => []ClosedBeforeCleanup` | `MlesWsSafety` |
| `EventsInOrder` | `Spec => []EventOrder` | `MlesWsSafety` |
| `NoZombies` | `Spec => []NoZombie` | `MlesWsSafety` |
| `ListenerTypes` | `Spec => []TypeOK` | `ListenerProofs` |
| `CountsAreExact` | `Spec => []CountsExact` | `ListenerProofs` |
| `SourceIsCapped` | `Spec => []PerSourceCap` | `ListenerProofs` |
| `PermitsAreConserved` | `Spec => []PermitsConserved` | `ListenerProofs` |

**Websocket server.** The only assumption on the constants that is used is
`NoHash \notin Header` (an atomic that is still 0 is no hash), and only in
`MlesWsSafety`: the theorems hold for any connections, scripts, capacities
and limits.

- `ClosedBeforeCleanup` is not inductive: the sender task also leaves its loop
  because of a `None` that another task queued, or because every other holder
  of the queue is gone. `Closing(c)` adds that both come with `is_closed`.
- `EventOrder` and `NoZombie` need the life cycle of a connection, `Life(c)`.
  `Stages` says what each task may have done by when; in particular an `Init`
  is only in the queue while the oneshot is unanswered, and a `Logoff` only
  once the sender task is past its loop. `OneHash` says that the atomics, the
  queued events and the table agree on the connection's hash. Without it, a
  `Logoff` might remove another entry than the connection's own. `Owned` says
  that whoever is registered, or about to be, still has the hash to log off
  with, has a `Logoff` on the way, or was `late`.
- A step of one connection leaves the life cycle of the others alone
  (`Alone`, `ConnFrame`); a step of the event loop concerns the connection
  whose event is taken. Queues are reasoned about as sets of items
  (`RangeAppend`, `RangeTail`), except for the order itself (`AppendOrder`,
  `TailOrder`).

`late` is the exception that `locked_out` exhibits: the theorem shows that it
is the only way in which an entry can be left behind.

**Listener.** From `ListenerAssumption`: finitely many connections, addresses
of the three families, `max_per_key` at least 1. The inductive invariant is
`CountsExact` with the types, the cap on every counter, and `PendingReady`:
the connection the loop is waiting with cannot be ended by anybody else.
`KeyIsSource` shows that `rate_limit_key` identifies exactly the addresses of
one source, which turns the cap on counters into `PerSourceCap`.

**Only model-checked:** the liveness properties (TLAPS has no fairness or
`ENABLED` reasoning), `ExactDelivery` and `HistoryIsRecent` (they filter and
concatenate sequences; induction over data is out of the provers' reach),
`OnlyPingedEvict` and `OnlyAuthorisedRemoves`, and the cache and the file server,
whose definitions use folds and filters.

## 5. What is not modelled

- governor's buckets and `retain_recent`; only that it may refuse.
- TLS, certificates, HTTP parsing, compression: libraries.
- Reverse proxy and redirect routes: stateless per request.
- Response headers and MIME types: constant tables.
- Hash collisions. A peer that neither reads nor fails: see the fairness.
- File changes that keep or turn back the modification time.
- `--limit 0`, which only the library's configuration allows, not the command
  line: the history would then be unbounded. The properties about the history
  presume a positive limit.

## 6. Plan

In place: sections 2 to 4. Next, in this order:

1. An abstract publish/subscribe specification per channel (joined members,
   the sequence of published frames, what each member still has to get), with
   `MlesWs` as its refinement for `ExactDelivery`; a proof of the part that
   needs no induction over data (delivery only to members, no frame back to
   its sender).
2. Proofs of `OnlyAuthorisedRemoves` and of `CleanupSparesActive` from `IInv`.
3. Proof of the cache's key uniqueness and of its refinement of
   `ForgetfulMap`, with the size bookkeeping as an uninterpreted part.
4. The two ports together with the shared rate limiter (a token bucket per
   source, `retain_recent`), and the websocket's lifetime joined with the
   listener's permits.
5. Reverse proxy and route order: `forwarded_for` as an operator checked
   against its reference definition, the fall-through to the file routes when
   an upstream fails, `prefix_filter` on paths.
