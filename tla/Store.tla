------------------------------- MODULE Store --------------------------------
(***************************************************************************)
(* store.Store at run time: the keyspace map, the clock, and the sweeper   *)
(* goroutine that New starts and Close stops.                              *)
(*                                                                         *)
(* Every method holds Store.mu from its first statement to its last (the   *)
(* readers share it, which changes nothing they can see), so a command is  *)
(* one step.  The sweeper is not: it receives the time of a tick from the  *)
(* ticker's one-slot channel, then waits for the lock, and the time it     *)
(* compares deadlines with is as old as that wait.                         *)
(***************************************************************************)
EXTENDS Commands

CONSTANTS
    Epoch,     \* the clock when New returns
    MaxTime,   \* bound: the clock stops there
    MaxLen,    \* bound: the longest list
    Beside     \* bound: what keys hold while there are several

ASSUME StoreAssumption ==
    /\ Epoch \in Nat \ {0} /\ MaxTime \in Nat /\ MaxLen \in Nat
    \* No deadline is the zero time.Time: a Duration spans 292 years, the
    \* zero time is in the year 1.
    /\ \A t \in TTL : Epoch + t > 0
    /\ \A o \in Options : Epoch + o.TTL > 0

VARIABLES
    data,      \* Store.data
    now,       \* the clock
    tick,      \* the ticker's channel: the time of the pending tick, 0 if none
    sweeper,   \* the sweeper goroutine: "select", "sweep" (lock pending) or "done"
    sweepTime, \* the tick time the sweeper received last, 0 before the first
    closed,    \* stopSweep has been closed
    \* History, which the code does not keep:
    last       \* the command that ran last, and its reply

vars == <<data, now, tick, sweeper, sweepTime, closed, last>>

\* last before the first command.
Nothing == [cmd |-> [op |-> "none"], reply |-> <<"none">>]

TypeOK ==
    /\ IsKeyspace(data)
    /\ now \in Nat /\ now >= Epoch
    /\ tick \in Nat /\ sweepTime \in Nat
    /\ sweeper \in {"select", "sweep", "done"}
    /\ closed \in BOOLEAN

Init ==
    /\ data = EmptyMap
    /\ now = Epoch
    /\ tick = 0
    /\ sweeper = "select" /\ sweepTime = 0
    /\ closed = FALSE
    /\ last = Nothing

-----------------------------------------------------------------------------

\* Bounds: lists stay short, and several keys at a time hold plain strings.
Fits(d) ==
    /\ \A k \in DOMAIN d : d[k].kind = KindList => Len(d[k].val) <= MaxLen
    /\ Cardinality(DOMAIN d) > 1 =>
        \A k \in DOMAIN d : d[k].kind = KindString /\ d[k].val \in Beside

Execute(c) ==
    /\ Fits(Apply(data, now, c).data)
    /\ data' = Apply(data, now, c).data
    /\ last' = [cmd |-> c, reply |-> Apply(data, now, c).reply]
    /\ now' = now + Elapsed(c) /\ now' <= MaxTime
    /\ UNCHANGED <<tick, sweeper, sweepTime, closed>>

TimePasses ==
    /\ now < MaxTime
    /\ now' = now + 1
    /\ UNCHANGED <<data, tick, sweeper, sweepTime, closed, last>>

\* The runtime drops a tick that finds the channel's slot taken.
TickerFires ==
    /\ tick = 0 /\ sweeper # "done"
    /\ tick' = now
    /\ UNCHANGED <<data, now, sweeper, sweepTime, closed, last>>

ReceiveTick ==
    /\ sweeper = "select" /\ tick # 0
    /\ sweeper' = "sweep" /\ sweepTime' = tick /\ tick' = 0
    /\ UNCHANGED <<data, now, closed, last>>

\* Mutant: the sweep rounds its clock up.
SweepEarly ==
    /\ sweeper = "sweep"
    /\ data' = Delete(data, {k \in DOMAIN data : expired(data[k], sweepTime + 1)})
    /\ sweeper' = "select"
    /\ UNCHANGED <<now, tick, sweepTime, closed, last>>

\* Mutant: the goroutine returns after its first sweep.
SweepOnce ==
    /\ sweeper = "sweep"
    /\ data' = Delete(data, {k \in DOMAIN data : expired(data[k], sweepTime)})
    /\ sweeper' = "done"
    /\ UNCHANGED <<now, tick, sweepTime, closed, last>>

Sweep ==
    /\ sweeper = "sweep"
    /\ data' = Delete(data, {k \in DOMAIN data : expired(data[k], sweepTime)})
    /\ sweeper' = "select"
    /\ UNCHANGED <<now, tick, sweepTime, closed, last>>

Close ==
    /\ closed' = TRUE
    /\ UNCHANGED <<data, now, tick, sweeper, sweepTime, last>>

\* select picks either ready case: a pending tick may still be served first.
StopSweeping ==
    /\ sweeper = "select" /\ closed
    /\ sweeper' = "done"
    /\ UNCHANGED <<data, now, tick, sweepTime, closed, last>>

Next ==
    \/ \E c \in genericCommands : Execute(c)
    \/ \E c \in stringCommands : Execute(c)
    \/ \E c \in hashCommands : Execute(c)
    \/ \E c \in listCommands : Execute(c)
    \/ \E c \in setCommands : Execute(c)
    \/ \E c \in zsetCommands : Execute(c)
    \/ \E c \in serverCommands : Execute(c)
    \/ TimePasses
    \/ TickerFires \/ ReceiveTick \/ Sweep
    \/ Close \/ StopSweeping

Spec == Init /\ [][Next]_vars

\* The runtime delivers ticks, and the sweeper goroutine is scheduled and, since
\* a waiting writer of sync.RWMutex holds back new readers, gets its lock.
FairSpec == Spec /\ WF_vars(TickerFires) /\ WF_vars(ReceiveTick) /\ WF_vars(Sweep)

-----------------------------------------------------------------------------
(* Properties.                                                             *)

\* "No empty containers" (hash.go, HDel): a key of a container kind holds at
\* least one element, whatever was pushed, popped, added, removed, renamed,
\* expired and recreated before.
NoEmptyContainers ==
    \A k \in DOMAIN data :
        /\ data[k].kind \in {KindHash, KindZSet} => DOMAIN data[k].val # {}
        /\ data[k].kind = KindList => data[k].val # <<>>
        /\ data[k].kind = KindSet => data[k].val # {}

\* The entries whose deadline, if any, lies ahead.
Alive(d, t) == [k \in {x \in DOMAIN d : d[x].expireAt = 0 \/ t < d[x].expireAt} |-> d[k]]

\* Dispatch appends to the AOF the commands that carry the Write flag and do not
\* reply with an error.  So that replay sees every change, a command that is
\* not appended leaves the map exactly as it found it.
UnloggedLeaveNoTrace ==
    \A c \in Command :
        LET res == Apply(data, now, c)
        IN  c.op \notin Write \/ IsError(res.reply) => res.data = data

\* Positions on both sides of both ends of every list, counted from either end.
Position == -(MaxLen + 2) .. MaxLen + 2

\* Position i of a list of n, counted from its head; -1 is the last one.
FromHead(i, n) == IF i < 0 THEN i + n ELSE i

\* The elements of s from position start to position stop: those that there are.
Shown(s, start, stop) ==
    LET n     == Len(s)
        first == IF FromHead(start, n) < 0 THEN 0 ELSE FromHead(start, n)
        end   == IF FromHead(stop, n) > n - 1 THEN n - 1 ELSE FromHead(stop, n)
    IN  [i \in 1 .. end - first + 1 |-> s[first + i]]

\* The live keys that LRANGE, and that ZRANGE, can be asked about.
Lists == {k \in DOMAIN data : getLocked(data, now, k) /\ data[k].kind = KindList}
ZSets == {k \in DOMAIN data : getLocked(data, now, k) /\ data[k].kind = KindZSet}

\* Members ms of the sorted set z, each with its score.
Scored(z, ms) == [i \in DOMAIN ms |-> <<ms[i], z[ms[i]]>>]

\* LRANGE and ZRANGE from start to stop show what there is from start to stop.
ListShows(k, start, stop) ==
    LRange(data, now, k, start, stop) = List(Shown(data[k].val, start, stop))
ZSetShows(k, start, stop) ==
    ZRange(data, now, k, start, stop) = List(Shown(Scored(data[k].val, sorted(data[k].val)), start, stop))

\* Ranges and positions counted from either end, one-sided ones and those beyond the
\* ends included (clampIndex, LRange, LIndex, ZRange): LRANGE and ZRANGE reply with
\* exactly the elements at the positions asked for, in order, and LINDEX with the one
\* that LRANGE shows.  A stop before the first element is excepted, see RedisRanges.
ListRanges ==
    /\ \A k \in Lists, start, stop \in Position :
        stop >= -Len(data[k].val) => ListShows(k, start, stop)
    /\ \A k \in ZSets, start, stop \in Position :
        stop >= -Cardinality(DOMAIN data[k].val) => ZSetShows(k, start, stop)
    /\ \A k \in Lists, i \in Position :
        LET shown == Shown(data[k].val, i, i)
        IN  LIndex(data, now, k, i) = IF shown = <<>> THEN Null ELSE Bulk(shown[1])

\* "With Redis's negative-index (from the tail) and out-of-range clamping semantics"
\* (list.go, LRange; zset.go, ZRange): start is moved up to the first element and stop
\* down to the last, so of a range that ends before the first element nothing is
\* shown.  clampIndex moves such a stop up as well, and the first element is shown.
RedisRanges ==
    /\ \A k \in Lists, start, stop \in Position : ListShows(k, start, stop)
    /\ \A k \in ZSets, start, stop \in Position : ZSetShows(k, start, stop)

\* ZRank and ZRange sort anew on every call: they agree on one strict order of the
\* members, ascending by score, ties by name, and every rank is taken.
RanksAgree ==
    \A k \in DOMAIN data : getLocked(data, now, k) /\ data[k].kind = KindZSet =>
        LET z       == data[k].val
            rank(m) == ZRank(data, now, k, m)[2]
        IN  /\ \A r \in 0 .. Cardinality(DOMAIN z) - 1 : \E m \in DOMAIN z :
                rank(m) = r /\ ZRange(data, now, k, r, r) = List(<< <<m, z[m]>> >>)
            /\ \A m, o \in DOMAIN z :
                z[m] < z[o] \/ (z[m] = z[o] /\ Precedes(m, o)) => rank(m) < rank(o)

\* INCRBY and DECRBY detect overflow on the sum that has wrapped around (string.go,
\* IncrBy): they reply with the exact sum, and with the overflow error, changing
\* nothing, exactly when it is no int64.  DECRBY of the smallest int64, which
\* negation leaves as it is, is excepted.
CounterExact ==
    \A k \in Key, delta \in Int64 :
        LET cur == IF getLocked(data, now, k) THEN ParseInt(data[k].val) ELSE 0
            Exact(n, res) == IF n \in Int64 THEN res.reply = Number(n)
                             ELSE res = Result(data, Overflow)
            Decr == Apply(data, now, [op |-> "DECRBY", key |-> k, delta |-> delta])
        IN  ~OrWrongType(data, now, k, KindString) /\ cur # NotAnInteger =>
                /\ Exact(cur + delta, IncrBy(data, now, k, delta))
                /\ delta # MinInt => Exact(cur - delta, Decr)

Live == INSTANCE LiveKeyspace WITH live <- Alive(data, now)

\* Lazy expiry (getLocked) and a sweeper with a stale clock (sweepExpired) implement
\* instantaneous expiry: every command replies, and changes the live entries, as if
\* the expired ones that are still in the map were absent, and nothing but a
\* command or a deadline changes them.
ExpiryIsInstantaneous == Live!LiveSpec

\* "Idle keys don't survive forever just because nothing ever reads them again"
\* (store.go, sweepExpired): until Close, an expired entry leaves the map.
SweptEventually ==
    \A k \in Key :
        (k \in DOMAIN data /\ expired(data[k], now))
            ~> (closed \/ k \notin DOMAIN data \/ ~expired(data[k], now))
=============================================================================
