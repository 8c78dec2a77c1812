# GoRedis: TLA+ verification project

GoRedis is a Redis server in Go: RESP2 over TCP, five data types, expiry,
`MULTI`/`EXEC`, publish/subscribe and an append-only file. This directory holds
TLA+ models translated from its source, TLC configurations that check them on
small instances, and TLAPS proofs for every instance. `PROJECT.json` maps each
definition to the lines it stands for.

    tlc -workers 2 -config MCStore.cfg MCStore    # model-check one configuration
    tlapm StoreProofs.tla                               # check the proofs of a module

## 1. Inventory

| Component | State | Operations | Hard behaviour | What makes it correct |
|---|---|---|---|---|
| Store engine (`internal/store`) | `data`: key -> entry (kind, payload, deadline), under one `RWMutex`; sweeper goroutine | the methods of strings, hashes, lists, sets, sorted sets and keys; `sweepExpired`; `Close` | expired entries stay in the map until somebody removes them; the sweeper works with the time of its tick; int64 overflow | expired entries are invisible; no empty containers; a failing command changes nothing; the sweeper removes only expired entries, and all of them in the end |
| Registry and handlers (`internal/command`) | the table of `Spec`s, immutable after `NewRegistry` | `validate`, `Dispatch`, one handler per command | the handler runs under `Store.mu` and the log is written after it has been released | every successful write is logged once, before its reply |
| Transactions (`context.go`, `transaction.go`) | `inTx`, `queue`, `txError` of each connection | `MULTI`, queueing, `EXEC`, `DISCARD` | other connections run between two commands of a batch | all or nothing; nothing is left over from an earlier transaction |
| Pub/sub (`internal/pubsub`, `command/pubsub.go`) | `Hub.subs`, each subscriber's `channels` and bounded inbox | `Subscribe`, `Unsubscribe`, `UnsubscribeAll`, `Publish` | two locks that are never held together; `Publish` sends to a snapshot; inboxes fill up | hub and subscribers agree; order and no duplicates per publisher; nobody is blocked; a closed connection is registered nowhere |
| Connections (`server/connection.go`) | request loop, forwarder, write lock | read, dispatch, reply; push; deferred teardown | the client goes away, or stops reading, in any state | teardown leaves nothing behind |
| Append-only file (`internal/aof`) | the file, what of it is on the disk | `Append`, `syncLoop`, `Replay`, `Close` | kill, power failure, cut frames, failing writes | replay gives back the keyspace the clients saw |
| Server (`server/server.go`) | listener, set of connections, wait group | `New` with replay, accept loop, shutdown | a connection accepted while the server shuts down; clients that never leave | shutdown ends; it drains all connections but the one just being accepted |
| RESP codec (`internal/resp`) | none | `Reader.Read`, `Writer.Write` | frames that end early, nesting, payloads with line ends | what is written is read back; a cut frame yields nothing |
| `cmd/goredis` | none | flags, signals, logging | | pure I/O, not modelled |

How they interact: each connection is a goroutine that reads a request, calls
`Registry.Dispatch`, which calls the handler (which calls the store, or the hub)
and then `ctx.OnWrite` (which appends to the file), and writes the reply. A second
goroutine per connection forwards what other connections' `Publish` put in its
inbox. The sweeper and the sync loop run by themselves. At start `server.New`
dispatches every frame of the file again, with no `OnWrite`.

## 2. Modules

| Module | Models | Extends / used by |
|---|---|---|
| `Keyspace` | the methods of `Store`, as pure operators `Method(d, now, args) = [data, reply]` | |
| `Commands` | the command tables, the `Write` flag, `Apply` = the handler of a command | extends `Keyspace` |
| `Store` | the store at run time: map, clock, ticker, sweeper, `Close` | extends `Commands` |
| `LiveKeyspace` | abstract specification: keys vanish at their deadline | implemented by `Store` |
| `PubSub` | hub, subscribers, the handlers, request loop, forwarder, teardown | |
| `Persistence` | request loop, transactions, `Dispatch`, AOF, crash, replay, over the store that `LiveKeyspace` promises | extends `Commands` |
| `Server` | `Run`, the accept loop, one goroutine per connection, the wait group, `shutdown` | |
| `Resp` | `Value.Marshal`, `Writer.Write`, `Reader.Read`, as pure operators | |
| `Arguments` | the options of `SET`, durations, the rounding of `TTL` and `PTTL` | extends `Resp` |
| `Wire` | frames in a stream of bytes that may be cut: a connection, or the log | extends `Arguments` |
| `KeyspaceProofs`, `StoreProofs`, `PubSubProofs`, `PersistenceProofs`, `ServerProofs`, `RespProofs`, `WireProofs` | theorems about the module of that name | |
| `Recursion` | a recursive function satisfies its equation | instantiated by `RespProofs` and `WireProofs` |
| `MCStore`, `MCPubSub`, `MCPersistence`, `MCServer`, `MCWire` | small instances | |

`Store` and `Persistence` share `Commands`: the first runs commands on the map
with its leftovers and shows that clients cannot tell it from `LiveKeyspace`; the
second uses that fact and keeps only live entries, so that expiry and crash
recovery can be explored together. `Persistence` takes frames whole and cut frames
as a choice of what the reader makes of them; `Wire` looks at the bytes of the same
frames. `Server` keeps of a connection what shutdown can see of it.

### Keyspace and Commands

A keyspace is a function from the keys present to records `kind`, `val`,
`expireAt`; deadline 0 is Go's zero time. Every writing method holds `Store.mu`
from beginning to end, which makes it one operator. What the methods share is
factored as the code shares it: `getLocked`, the `...OrWrongType` checks
(`OrWrongType`), the get-or-create helpers (`Created`), and the delete-when-empty
tail (`Shrunk`). `Add64` wraps; `IncrBy` checks for overflow, `HIncrBy` does not,
as in the code. Strings are opaque apart from `ParseInt`, `FormatInt`, `Concat`, their length and
their order, which are constants.

`DEL`, `EXISTS` and `MGET` look each key up with a `time.Now()` of its own, so that a
deadline may pass between two keys, or between two mentions of one, and the reply mixes
two instants. A method starts at `now` and takes `took` (a member of the constant
`Took`); `late` says how much later than `now` each reading is. `TTL` reads the clock
twice, at the two ends of `took`. The second reading of `SET` and `EXPIRE` only sets
the deadline, which a longer duration sets as well. All other methods read the clock
once, or never. `DEL` runs on new readings when it is replayed (`Again`).

Every method that reads is an operator too; `Reading` is what they share: the wrong
kind, the absent key, and otherwise something of the payload. A reply that lists a
Go map has no order, and is the map or the set. `Slice` is the body that `LRange` and
`ZRange` share, with `clampIndex`; `sorted` is the order that `ZRank` and `ZRange`
each compute anew. Commands that call the same method with fixed arguments (`INCR`
and `DECR`, `SETNX` and `SETEX`, `PEXPIRE`, `PTTL`) are represented by the general
one; `DECRBY` is not `INCRBY`, since its negation wraps (`Neg64`). `PING`, `ECHO` and
`INFO` touch no state and are left out; a request the handler rejects before it calls
the store is the `BAD` of `Persistence`, or an error reply.

### Store

| Action | Code |
|---|---|
| `Execute(c)` | a handler calling its method, under the lock |
| `TickerFires`, `ReceiveTick`, `Sweep` | the ticker's one-slot channel, the `select`, `sweepExpired` with the time it received |
| `Close`, `StopSweeping` | `close(stopSweep)`, and the goroutine's return |
| `TimePasses` | the clock |

`last` remembers the command that ran last and its reply, for the comparison with
`LiveKeyspace`. The run hides it from TLC's fingerprints (`VIEW`): no step reads
it, and the comparison is made on every transition. The view also drops the time of a
tick that has been dealt with and a tick that comes after the sweeper has stopped.

### PubSub

A step is one critical section: `Subscribe` is the part of `Hub.Subscribe` under
`Hub.mu`, `SubscribeSub` the part under `Subscriber.mu`; `Publish` takes the
snapshot, each `Send` is one non-blocking `select`. `Request` reads a request,
which `subscriberModeAllowed` may refuse; a request is one command or the
commands of an `EXEC`. `ReadError` and `UnsubscribeAll` are the deferred teardown,
`Receive`, `Forward` and `StopForwarding` are `forwardPubSub`. `published` and
`pushed` number messages so that order can be observed.

### Persistence

`Read` and the actions on the `Context` (`queueCommand`, `multi`, `exec`,
`discard`, `Refuse`) are single steps, since a `Context` belongs to one goroutine. `BAD` is a request that
`validate` refuses. When it names one of `commandsBypassingQueue` (`MULTI 1`, `EXEC 1`)
it is `BADCONTROL`: inside a transaction it never reaches `queueCommand`, is refused by
`Refuse`, and leaves `txError` as it was. `sent` is what `queueCommand` was given.
`Handler` and `Log` are the two halves of `Dispatch`, with nothing held in
between. `file` is the sequence of frames; `synced` says how many survive a power
failure. `Crash` kills the process (a graceful shutdown is the special case in which
no request is under way; `AOF.Close` does not sync, so power may still fail after it),
`PowerLoss` keeps a prefix of what was not synced,
`TornTail` also cuts its last frame, `LogFails` is a failing write, and `Sync` may fail unnoticed. `ReplayTorn`
gives the three things the reader can make of a cut frame: an error, a plain
`io.EOF` taken for the end, or a frame completed by the bytes that follow.
`states`, `sent`, `ranAt` and `written` are history variables; the code has no
counterpart, and no guard reads them. `PUBLISH` carries the write flag too, so it
is logged and replayed; replay publishes to a hub without subscribers and changes
nothing, and the model leaves it out.

### Server

| Action | Code |
|---|---|
| `Listen`, `RunFails`, `ContextDone` | `Run` up to its `select`, and the two ways out of it |
| `CloseClosing`, `CloseListener`, `StartWaiter`, `Drained`, `GraceElapses`, `ForceClose`, `CloseStore`, `CloseAOF` | `shutdown`, statement by statement |
| `Wait`, `WaitReturns` | the goroutine in `wg.Wait`, with the panic of a reused wait group |
| `Accept`, `AcceptFails`, `TrackConn`, `Start` | `acceptLoop`; `inHand` is the connection between `Accept` and `wg.Add` |
| `Request`, `OnWrite`, `Reply`, `ConnError`, `UntrackConn`, `Done` | `handleConn` and the deferred calls |
| `Cancel`, `Connect`, `ClientLeaves` | the context and the clients |

`unlogged` is a history variable: who may be told OK for a write that came too late
for the log. Reads are left out of `Request`: they differ from writes only in that
they skip `OnWrite`.

### Resp, Arguments and Wire

A byte is a token: a type marker, CR, LF, a letter, or a numeral, which counts as one
byte. A value is a tuple of its type and what the type uses; the third component of a
bundle is the `Multi` mark, which `Writer.Write` looks at and `Marshal` does not.
`Read` gives a value and the bytes after it, or the error; the ends of the stream are
`io.EOF` (from `ReadByte`, `ReadString`, and `ReadFull` before its first byte) and
`io.ErrUnexpectedEOF`, as the library defines them.

`Value` is the set of values that the program handles and `Depth` how deep each is
nested: `Marshal`, `Writer.Write` (`Frames`) and the elements of an array
(`readElems`) are recursive functions over them and over the number of bytes. A call
of `Read` inside of `readArray` has fewer bytes before it than the outer one, which is
what bounds `readElems`; the bound itself is never met before the bytes run out.

In `Wire` a writer appends frames, the reader consumes them at its own pace, and
`Cut` removes the end of the stream at any byte the reader has not passed. A
connection ends there; the log may be appended to after the fragment. `set` is the
loop over the options of a `SET` as it was read off the stream: `setWord` is its body
and `setFrom` the loop, which counts the words that are left.

## 3. Runs

| Run | Checks | Shows |
|---|---|---|
| `store` | `TypeOK`, `NoEmptyContainers`, `UnloggedLeaveNoTrace`, `ListRanges`, `RanksAgree`, `CounterExact`, `ExpiryIsInstantaneous`, `SweptEventually` | all commands, all kinds, on keys whose deadlines pass while the sweeper is late, and while a command over several keys is under way; the sweeper gets to all of them |
| `store_ranges` | `RedisRanges`, violated | a stop before the first element |
| `pubsub` | `TypeOK`, `HubAgrees`, `NoLeak`, `PublishOrder`, `PublishCompletes`, `DisconnectedLeaves` | overlapping subscribe, publish, unsubscribe, `EXEC`, disconnect over two channels; inboxes that fill up; publishers are never blocked; broken connections leave |
| `persist_private` | `TypeOK`, `ReplayReconstructs`, `LoggedBeforeReply`, `ExecAllOrNothing` | commands that fail, transactions, two kills or power failures anywhere, failing flushes, replay |
| `persist_live` | `SyncedEventually`, `ReplayTerminates` | every fault enabled |
| `server_shutdown` | `TypeOK`, `AtMostOneOutlives`, `ShutdownEnds`, `DeadAreForgotten` | clients connect, write, stay and leave while the context is cancelled |
| `server_drain` | `AcknowledgedIsLogged`, violated | a connection is accepted while the server shuts down |
| `wire` | `InStep`, `NothingFromFragment`, `SetOptionsAsWritten`, `ExpiryAsAsked` | frames of all shapes, cut at any byte, with more appended; `SET` with options in any order |
| `persist_order` | `ReplayReconstructs`, violated | two clients write one key |
| `persist_ttl` | `ReplayReconstructs`, violated | durations start anew at replay |
| `persist_torn_loss` | `ReplayReconstructs`, violated | a cut frame swallows later writes |
| `persist_exec` | `ExecIsolated`, violated | another client writes inside a batch |

The violated runs check sentences of the repository; `findings` in `PROJECT.json`
quotes each with its line:

* `store_ranges`: `clampIndex` raises a stop before the first element to 0, as it does a
  start, so that `LRANGE k 0 -2` of a list of one shows its element. The comments of
  `LRange` and `ZRange` promise the clamping of Redis, which shows nothing.
  `ListRanges` says what holds of all other positions.
* `server_drain`: the connection that `Accept` had returned when the listener was closed
  may be started after `wg.Wait` has returned. `Run`, which "drains active
  connections", closes the file and returns while the connection is served; its write
  is applied, `Append` fails, which is only logged, and the client is told OK.
  `AtMostOneOutlives` says that this cannot happen to a second connection.
* `persist_order`: the handler releases `Store.mu` before `AOF.Append` takes its
  own lock. Client 1 sets, client 2 sets, client 2 logs, client 1 logs: the restart
  brings back the value of client 1.
* `persist_ttl`: `EXPIRE` is logged and replayed as a duration, so that a key that
  had expired before the restart exists again after it.
* `persist_torn_loss`: after a power failure the last frame may be
  cut. Cut inside a bulk string it makes `New` fail; cut at a place where the
  reader returns a plain `io.EOF` it is taken for the end, the server appends
  after the fragment, and the replay after that reads the next frames as its rest.
* `persist_exec`: `exec` calls `Dispatch` for each queued command and holds no lock
  across the batch.

Consequences of the code that the models show and no property forbids:

* `OnWrite` only logs the error of `Append`, so `LoggedBeforeReply` holds exactly
  while no append fails (`persist_private` leaves `"append"` out of `Faults`).
* `syncLoop` drops the error of `fsync`, and `AOF.Close` does not sync. What has not
  reached the disk is lost with the power, also after a clean shutdown, although
  `server_test.go:171` says that shutdown flushes it. `ReplayReconstructs` and
  `LoggedBeforeReply` take `states` and `written` back to the frames that survive: they
  say that those are replayed right, not that no write is missing.
* A `MULTI`, `EXEC` or `DISCARD` with arguments inside a transaction is refused and
  aborts nothing: the next `EXEC` runs the batch. The comment of `queueCommand`
  (`context.go:67-70`) speaks of the commands it is given, and so does
  `ExecAllOrNothing`.
* `Unsubscribe` does not empty the inbox, and the forwarder may hold a message: a
  client that is back in normal mode may get a push between two replies.
* If the `wg.Add` of the late connection of `server_drain` falls between the last
  `Done` and the return of `Wait`, the wait group panics; `ShutdownEnds` accepts this
  as an end.
* When that connection is tracked only after the force close, which needs the accept
  loop to be stopped for the whole grace period, shutdown waits for its client for
  ever. The run excludes it (`PromptAccept`), the proofs do not.
* An `Accept` error makes `Run` return without `shutdown`: nothing is drained.
* `SET` accepts `EX` with `PX` (the last one counts) and `NX` with `XX` (nothing is
  ever set), which `strings.go:30` documents as alternatives. `SetOptionsAsWritten`
  is about the documented combinations.
* `PTTL` truncates where `TTL` rounds up, so that it shows 0 for a key that has less
  than a millisecond left; `store.go:201` calls it `TTLSeconds` at another resolution.
  `ExpiryAsAsked` says of `PTTL` only that it shows at once what was asked for.
* `HINCRBY` wraps around silently. `DECRBY` of the smallest int64 adds it instead. `EX`
  and `EXPIRE` wrap beyond 2^63 nanoseconds, and within a second of that `TTL` wraps to a
  negative number.

### Bounds

* Integers: `MaxInt = 1`, so int64 is -2 .. 1 and every increment is near an
  overflow. Strings: the decimal forms of these, `"01"` (a number in a form that
  `FormatInt` never prints), one string that is no number, one for what `APPEND`
  makes. Methods look at nothing of a string but its number, length and order.
* Two keys: no method relates three. While both are in the map they hold strings
  (`Beside` names which), which is what commands over several keys look at beyond kind
  and deadline; a key that is alone holds anything. Lists have at most two elements
  (`MaxLen`), which gives empty, single and longer ones. The clock makes two steps
  after the epoch: a deadline can lie ahead, be reached and be passed, a tick can be
  stale by one or two, and a command takes no time or one step (`Took`), so that a
  deadline falls between any two of its readings.
* Two connections: each property relates at most a publisher and a subscriber, or
  two writers. Three requests over two channels: one to subscribe, one to publish twice
  (or to do both in an `EXEC`), one to leave. With an inbox of one, the second
  message queues up behind the one the forwarder holds, or is dropped. No symmetry is
  used.
* Persistence: five requests in all, which is a transaction of two commands with a
  request of the other client, or two transactions in a row; two crashes, so that a
  replay can be interrupted and a restarted server can crash; with cut frames the
  damage shows at the second restart.
* Server: three connections: one being served, one in the accept loop's hands and one
  in the backlog when the listener closes.
* Wire: two frames before the cut (a bundle of two counts as two), one after it, 53
  bytes in all, which is a `SET` with four option words; a frame is written after the
  cut while the stream stays within `MaxTail`. int64 is -16 .. 15 and a second has four
  nanoseconds, a millisecond two, so that `EX 3` can just be expressed and `EX 4` wraps. The replies hold
  every type, both nulls, empties, nesting, a payload that reads like a frame, and
  bundles at the top and nested. `SET` has every combination of two of eight words, of
  three of the words that interact, and two expiries in a row.
* Positions run from two before a list's beginning to two after its end, from either
  side.

`CHECK_DEADLOCK FALSE` is set everywhere: clients may send no more requests, which
ends every bounded run, and a closed connection does nothing.

### Fairness

* `Store`: weak fairness of the ticker and of the sweeper's steps. The runtime
  delivers ticks, and a waiting writer of `sync.RWMutex` blocks new readers, so
  that the sweeper gets its lock. Nothing is assumed of commands or of the clock.
* `PubSub`: weak fairness of each request loop's own steps, except that a reply
  to a connected client may block for ever. Nothing is assumed of clients, nor of
  forwarders: `PublishCompletes` holds although no inbox is ever emptied.
* `Persistence`: weak fairness of dispatch, of the sync loop and of replay. Flushing may
  fail, but not for ever: a turn of the sync loop that changes nothing is no step.
  Nobody is assumed to restart a process or to send a request.
* `Server`: weak fairness of `Run` (and its timer), of the waiting goroutine, of the
  accept loop between `Accept` and the next one, and of each connection's goroutine.
  Reading a request and writing a reply to a connected client are not fair: the
  client may never send, and never read. `PromptAccept` is a timing assumption: the
  few instructions from `Accept` to `wg.Add` take less than the five seconds of the
  grace period.
* `Wire` has no liveness property.

### Mutants

Each property of each passing run has a mutant or two: a variant of one definition with a
plausible slip (marked `Mutant:` where it is defined; nothing else uses it) under
which TLC finds the property violated.

## 4. Proofs

All theorems hold for every value of the constants: any sets of keys, strings,
options, connections and channels, any integer width, inbox size and bounds. The
assumptions are those named in the modules: `KeyspaceAssumption` and
`StringAssumption` (the conversions return what their Go types say),
`OrderAssumption` (strings are totally ordered, as Go's `<` orders them),
`CommandsAssumption`, `StoreAssumption` (no deadline is the zero time),
`PubSubAssumption` (`SUBSCRIBE` names a channel, which its arity enforces),
`PersistenceAssumption` (requests are commands or control commands),
`ServerAssumption` (finitely many connections), `NumeralAssumption` (different numbers
print differently, and none prints with a line end), `ValueAssumption` (values are
finite trees, lengths can be printed, and simple strings and errors are one line, which
is true of every reply but that of `unknownCommand` to a word with a line end),
`ArgumentsAssumption` (a second is at least a millisecond, which is not zero) and
`ValuesAssumption` (what is written is a value).

**Store.** `KeyspaceProofs` shows one lemma per method (`HSetSound`, ...): run on
two keyspaces that agree on their live entries, it gives the same reply and
keyspaces that agree again; it preserves types and non-emptiness; and when it
replies with an error it changes nothing. `ApplySound` collects them. The inductive
invariant `StoreInv` adds to `TypeOK` and `NoEmptyContainers` that neither the
pending tick nor the sweeper's time is ahead of the clock: without it a sweep
could remove a live entry.

* `StoreTyped`, `StoreNonEmpty`: `TypeOK` and `NoEmptyContainers`.
* `UnloggedTheorem`: what is not logged leaves no trace in the map.
* `StoreRefinesLive`: `Store` implements `LiveKeyspace`; commands map to commands,
  and ticks and sweeps to stuttering steps, because a sweep removes only what was
  already dead. `last` ties each command of `Store` to the same command, with the
  same reply, of `LiveKeyspace`, so neither replies nor effects depend on leftovers.
  Commands that read the clock for each key are included, with any readings: what is
  ruled out is not that a reply mixes instants but that it shows, at any of them,
  what had expired.

* `CounterTheorem`: `CounterExact`, for every integer width. The argument is arithmetic
  (`OverflowExact`): the wrapped sum is on the wrong side of the old value exactly when
  the true sum is out of range.
* `ListRangesTheorem`: `ListRanges`, for lists and sorted sets of every length and every
  stop that is not before the first element (`SliceIs`: what the
  clamping and the slice expression give, element by element).
* `RanksTheorem`: `RanksAgree`, for sorted sets of every size. `sorted` puts a member
  where as many members precede it as its place says. These numbers grow strictly
  along the order (`BeforeGrows`), so no two members share one; as many places as
  members then leave none empty (`PlacesTaken`), which is an argument about finite
  sets and needs no induction over sequences.

**Pub/sub.** `HubInv` adds to `TypeOK` and `HubAgrees`: `ControlOK` (a loop between
two critical sections still has the channel it is at), `HalfwayOK` (what the hub
says of that channel meanwhile) and `TeardownOK` (the teardown's list covers every
channel that is left). `OrderInv` adds to `PublishOrder` that a subscriber a
`Publish` has yet to reach holds nothing as new from that publisher (`Fresh`).

* `HubTyped`, `HubCorrect`, `NoLeakTheorem`: `TypeOK`, `HubAgrees` and `NoLeak`.
* `DeliveryInOrder`: `PublishOrder`.

**Persistence.** The invariant has four parts. `StoreOK`: the keyspace and every
keyspace of the history are well formed (which needs `ApplySound`, and non-empty
containers with it), and the log, its history, `synced` and `pos` fit together.
`LoopOK`: contexts and loops are well typed and the loop is inside its batch. `TxOK`:
inside a transaction the loop only reads, and unless it is marked the queue is what
`queueCommand` was given, none of it refused. `LogOK`: a write that succeeded is in the log, or its
loop is just about to append it.

* `PersistTypes`: `TypeOK`.
* `ExecTheorem`: `ExecAllOrNothing`, with all faults and any number of crashes.
* `LoggedTheorem`: `LoggedBeforeReply`, assuming that no append fails.

**Replay.** `ReplayReconstructs` does not hold of every set of clients, as three of the
violated runs show. `ReplayTheorem` proves it under hypotheses that exclude just
these: the file loses whole frames only (`Faults \subseteq {"power", "sync"}`; compare
`persist_torn_loss`), nobody asks for a deadline (`NoDurations`; `persist_ttl`), and
writes of different connections can be exchanged (`WritesCommute`; `persist_order`).
`ReplayUnshared` derives the last one from `KeysNotShared`: no two clients write the
same key, except to add to the same set. The clients of `persist_private` satisfy it.

Between `Handler` and `Log` the keyspace is ahead of the log, by any number of
connections at once, and the log may take their commands in another order than the
store. The inductive invariant says by how much. `ChainOK`: the keyspace is what the
pending commands make, one after the other in some order, of the last state of the
log. A handler adds its command at the end of that chain (`LeadsGrow`); an append
moves one to the front, past those that ran before it, and takes it out
(`LeadsPull`). `HistoryOK`: the history is the replay of the log, and a server that is
replaying has got as far in it as it has read. `OwnOK`: a connection runs what its
client sent. TLC has checked the three on the instance of `persist_private`.

What commands do is in the second part of `KeyspaceProofs`: in a keyspace without deadlines, a command that
sets none leaves none, and does the same whenever it runs (`TimelessEffect`), so that
replay at a later time is no different; it reads and changes only the keys it names
(one `...Local` lemma per method, collected in `ApplyLocal`), so that commands on
different keys, and additions to one set, can be exchanged (`DisjointCommute`,
`SAddCommute`).

**Server.** `ServerInv` adds to `TypeOK` and `AtMostOneOutlives`: `WgCounts` (the wait
group counts exactly the goroutines that run, so that zero means none), `InHandOK`
(the accept loop holds at most one connection, which has no goroutine yet),
`PhasesOK` (nothing is accepted once somebody waits; `closing` comes before the
listener's end) and `LogOK` (the file is closed after the wait).

* `ServerTyped`: `TypeOK`; the wait group's counter never goes negative.
* `OutliveTheorem`: `AtMostOneOutlives`, with or without `PromptAccept`.

**Codec and wire.** The functions of `Resp` are recursive. The library's theorems on
recursion and induction have an operator as a parameter, which the provers cannot
instantiate; so `Recursion` proves, once and with its body and rank as constants, that
a recursive function satisfies its equation if it descends (from the least element of a
set, by well-foundedness), and is instantiated for `Marshal`, `Frames`, `Unmarked`,
`readElems` and the loop of `set`. Inductions are about sets of numbers
(`SetInduction`). `FlattenSeq` is the one of the community modules; `FlattenType`,
`FlattenAppend` and `FlattenConcat` are what is used of it.

* `ReadMarshal`: `Read(Marshal[v] \o rest)` is `v` (bundles in it as arrays) and
  `rest`, for every value and whatever follows. What is written is taken apart by the depth of `v`, what is read by
  the number of bytes (`ElemsRead`): a reader that handles frames of fewer bytes handles
  the elements of an array (`ReadsNext`, `StopsNext`).
* `ReadTorn`: of a proper beginning of a frame, `Read` makes the end of the stream. A
  cut is in the first or in the second part of a concatenation (`TornConcat`): in the
  length, in the payload, or in one of the elements, before which all were read.
* `InStepTheorem`, `FragmentTheorem`: `InStep` and `NothingFromFragment`. `WireInv` adds
  to them `Layout` (the stream is the whole frames and then nothing, a torn frame, or a
  torn frame and what was written after it), `Position` (while it is among whole
  frames, the reader stands at the beginning of one), `Stopped` (it reported the end
  only where there was one), types, and `ReadOK` (`ReadType`: whatever the bytes are,
  what `Read` returns consists of sequences of bytes). Without `Layout` and `Position`
  nothing says which bytes the next `Read` sees. The bounds of the model play no part.
* `SetOptionsTheorem`: `SetOptionsAsWritten`, for any number of options in documented
  combinations, from
  `SetTheorem`: the loop computes the word-by-word meaning of every list of words. A
  word is an argument exactly when the one before it is `EX` or `PX` and not itself an
  argument (`ArgumentNext`); the induction (`Continues`) goes over the words that are
  left and says what the options read so far are. Documented combinations have at most one
  clock (`OneClock`), so the last one is the one.
* `ExpiryTheorem`: `ExpiryAsAsked`, for every int64 and all units: the duration does
  not wrap (`WrapSmall`), and adding a second less one before the division rounds up
  (`RoundsUp`). Of `PTTL` it says what it shows at once; later `PTTL` truncates.

**Model-checked only.** The liveness properties (`SweptEventually`,
`PublishCompletes`, `DisconnectedLeaves`, `SyncedEventually`, `ReplayTerminates`,
`ShutdownEnds`, `DeadAreForgotten`): fairness is out of the prover's reach. All other
properties of the passing runs are theorems, `ReplayReconstructs` under the hypotheses
without which it is false.

## 5. What is not modelled

* `cmd/goredis`: flags, signals and logging.
* Glob matching (`path.Match`): a pattern is the set of names it matches.
* NaN scores, which `ZADD` accepts and which make the order of `sorted` inconsistent:
  what `sort.Slice` does then is unspecified.
* The pairing and counting of arguments, and the text and layout of replies. An error
  line that quotes a client's word with a line end in it breaks its own framing.
* Memory: the reader allocates what a length announces.
* I/O errors other than a failing append or flush: they are logged, or end the start.
* Malformed requests: answered with an error, or the connection ends; no state.

## 6. Plan

Done, in this order: `Keyspace` and `Commands`; `Store` and its refinement of
`LiveKeyspace`; `PubSub`; `Persistence`; the reading methods; `Server`; `Resp`,
`Arguments` and `Wire`; the proofs of section 4. Next:

1. A composition of `Server` and `Persistence`: what a write acknowledged during
   shutdown leaves behind after the next start.
