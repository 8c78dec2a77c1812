------------------------------ MODULE Commands ------------------------------
(***************************************************************************)
(* The command registry of internal/command over the engine of Keyspace:   *)
(* a command is a record, Apply runs its handler, Write is the flag that   *)
(* its Spec carries.  The commands below are the ones a client can send;   *)
(* the constants bound the arguments it picks.                             *)
(***************************************************************************)
EXTENDS Keyspace

CONSTANTS
    Value, Field, Member,   \* strings used as values, as fields, as members and elements
    Options,                \* option records of SET
    TTL,                    \* durations asked for, in clock ticks
    Delta,                  \* increments asked for
    Index,                  \* positions asked for
    Took                    \* how long a method that reads the clock repeatedly runs

ASSUME CommandsAssumption ==
    /\ Value \subseteq Str /\ Field \subseteq Str /\ Member \subseteq Str
    /\ Options \subseteq SetOptions
    /\ TTL \subseteq Int
    /\ Delta \subseteq Int64
    /\ Index \subseteq Int
    /\ Took \subseteq Nat

\* A command names finitely many keys, fields or members, and at least one.
NonEmpty(S) == {s \in SUBSET S : s # {} /\ IsFiniteSet(s)}
NonEmptyMap(S, T) == UNION { [D -> T] : D \in NonEmpty(S) }
UpTo2(S) == {<<x>> : x \in S} \cup {<<x, y>> : x \in S, y \in S}

\* n readings of the clock, one after the other, within t.
Readings(n, t) == {r \in [1 .. n -> 0 .. t] : \A i, j \in 1 .. n : i <= j => r[i] <= r[j]}

-----------------------------------------------------------------------------
(* The tables of specs with their handlers, one per file of                *)
(* internal/command.  A handler that refuses its arguments replies with an *)
(* error before it calls the store, and is left out.  INCR and DECR are    *)
(* INCRBY, SETNX and SETEX are SET, PEXPIRE is EXPIRE, PTTL is TTL.        *)

\* DEL of the keys ks, EXISTS and MGET of the arguments a: the clock is read for
\* each key, and is took further on at the end.
DelOf(ks) == UNION {[op : {"DEL"}, keys : {ks}, took : {t}, late : [ks -> 0 .. t]] : t \in Took}

ReadOf(op, a) ==
    UNION {[op : {op}, args : {a}, took : {t}, late : Readings(Len(a), t)] : t \in Took}

genericCommands ==
    (UNION {DelOf(ks) : ks \in NonEmpty(Key)})
    \cup (UNION {ReadOf("EXISTS", a) : a \in UpTo2(Key)})
    \cup [op : {"EXPIRE"}, key : Key, ttl : TTL]
    \cup [op : {"TTL"}, key : Key, took : Took]
    \cup [op : {"PERSIST", "TYPE"}, key : Key]
    \cup [op : {"KEYS"}, matching : SUBSET Key]
    \cup [op : {"RENAME"}, key : Key, dst : Key]

stringCommands ==
    [op : {"SET"}, key : Key, val : Value, opts : Options]
    \cup [op : {"GETSET", "APPEND"}, key : Key, val : Value]
    \cup [op : {"MSET"}, pairs : NonEmptyMap(Key, Value)]
    \cup (UNION {ReadOf("MGET", a) : a \in UpTo2(Key)})
    \cup [op : {"INCRBY", "DECRBY"}, key : Key, delta : Delta]
    \cup [op : {"GET", "STRLEN"}, key : Key]

hashCommands ==
    [op : {"HSET"}, key : Key, fields : NonEmptyMap(Field, Value)]
    \cup [op : {"HDEL"}, key : Key, names : NonEmpty(Field)]
    \cup [op : {"HINCRBY"}, key : Key, field : Field, delta : Delta]
    \cup [op : {"HGETALL", "HLEN", "HKEYS", "HVALS"}, key : Key]
    \cup [op : {"HGET", "HEXISTS"}, key : Key, field : Field]
    \cup [op : {"HMGET"}, key : Key, args : UpTo2(Field)]

listCommands ==
    [op : {"LPUSH", "RPUSH"}, key : Key, elems : UpTo2(Member)]
    \cup [op : {"LPOP", "RPOP", "LLEN"}, key : Key]
    \cup [op : {"LINDEX"}, key : Key, idx : Index]
    \cup [op : {"LRANGE"}, key : Key, start : Index, stop : Index]

setCommands ==
    [op : {"SADD", "SREM"}, key : Key, members : NonEmpty(Member)]
    \cup [op : {"SMEMBERS", "SCARD"}, key : Key]
    \cup [op : {"SISMEMBER"}, key : Key, member : Member]

zsetCommands ==
    [op : {"ZADD"}, key : Key, scores : NonEmptyMap(Member, Score)]
    \cup [op : {"ZREM"}, key : Key, members : NonEmpty(Member)]
    \cup [op : {"ZCARD"}, key : Key]
    \cup [op : {"ZSCORE", "ZRANK"}, key : Key, member : Member]
    \cup [op : {"ZRANGE"}, key : Key, start : Index, stop : Index]

serverCommands == [op : {"FLUSHALL", "DBSIZE"}]

Command ==
    genericCommands \cup stringCommands \cup hashCommands \cup listCommands
    \cup setCommands \cup zsetCommands \cup serverCommands

\* Spec.Write.
Write == {"DEL", "EXPIRE", "PERSIST", "RENAME", "SET", "GETSET", "APPEND", "MSET",
          "INCRBY", "DECRBY", "HSET", "HDEL", "HINCRBY", "LPUSH", "RPUSH", "LPOP", "RPOP",
          "SADD", "SREM", "ZADD", "ZREM", "FLUSHALL"}

\* The handler of command c, run on the keyspace d from when the clock shows now.
Apply(d, now, c) ==
    CASE c.op = "DEL"      -> Del(d, now, c.keys, c.late)
      [] c.op = "EXISTS"   -> Result(d, Exists(d, now, c.args, c.late))
      [] c.op = "EXPIRE"   -> Expire(d, now, c.key, c.ttl)
      [] c.op = "TTL"      -> Result(d, ttl(d, now, now + c.took, c.key))
      [] c.op = "PERSIST"  -> Persist(d, now, c.key)
      [] c.op = "TYPE"     -> Result(d, Type(d, now, c.key))
      [] c.op = "KEYS"     -> Result(d, Keys(d, now, c.matching))
      [] c.op = "RENAME"   -> Rename(d, now, c.key, c.dst)
      [] c.op = "SET"      -> Set(d, now, c.key, c.val, c.opts)
      [] c.op = "GETSET"   -> GetSet(d, now, c.key, c.val)
      [] c.op = "APPEND"   -> StrAppend(d, now, c.key, c.val)
      [] c.op = "MSET"     -> MSet(d, now, c.pairs)
      [] c.op = "MGET"     -> Result(d, MGet(d, now, c.args, c.late))
      [] c.op = "INCRBY"   -> IncrBy(d, now, c.key, c.delta)
      [] c.op = "DECRBY"   -> IncrBy(d, now, c.key, Neg64(c.delta))
      [] c.op = "GET"      -> Result(d, Get(d, now, c.key))
      [] c.op = "STRLEN"   -> Result(d, StrLen(d, now, c.key))
      [] c.op = "HSET"     -> HSet(d, now, c.key, c.fields)
      [] c.op = "HDEL"     -> HDel(d, now, c.key, c.names)
      [] c.op = "HINCRBY"  -> HIncrBy(d, now, c.key, c.field, c.delta)
      [] c.op = "HGET"     -> Result(d, HGet(d, now, c.key, c.field))
      [] c.op = "HMGET"    -> Result(d, HMGet(d, now, c.key, c.args))
      [] c.op = "HGETALL"  -> Result(d, HGetAll(d, now, c.key))
      [] c.op = "HEXISTS"  -> Result(d, HExists(d, now, c.key, c.field))
      [] c.op = "HLEN"     -> Result(d, HLen(d, now, c.key))
      [] c.op = "HKEYS"    -> Result(d, HKeys(d, now, c.key))
      [] c.op = "HVALS"    -> Result(d, HVals(d, now, c.key))
      [] c.op = "LPUSH"    -> LPush(d, now, c.key, c.elems)
      [] c.op = "RPUSH"    -> RPush(d, now, c.key, c.elems)
      [] c.op = "LPOP"     -> LPop(d, now, c.key)
      [] c.op = "RPOP"     -> RPop(d, now, c.key)
      [] c.op = "LLEN"     -> Result(d, LLen(d, now, c.key))
      [] c.op = "LINDEX"   -> Result(d, LIndex(d, now, c.key, c.idx))
      [] c.op = "LRANGE"   -> Result(d, LRange(d, now, c.key, c.start, c.stop))
      [] c.op = "SADD"     -> SAdd(d, now, c.key, c.members)
      [] c.op = "SREM"     -> SRem(d, now, c.key, c.members)
      [] c.op = "SMEMBERS" -> Result(d, SMembers(d, now, c.key))
      [] c.op = "SISMEMBER" -> Result(d, SIsMember(d, now, c.key, c.member))
      [] c.op = "SCARD"    -> Result(d, SCard(d, now, c.key))
      [] c.op = "ZADD"     -> ZAdd(d, now, c.key, c.scores)
      [] c.op = "ZREM"     -> ZRem(d, now, c.key, c.members)
      [] c.op = "ZSCORE"   -> Result(d, ZScore(d, now, c.key, c.member))
      [] c.op = "ZCARD"    -> Result(d, ZCard(d, now, c.key))
      [] c.op = "ZRANK"    -> Result(d, ZRank(d, now, c.key, c.member))
      [] c.op = "ZRANGE"   -> Result(d, ZRange(d, now, c.key, c.start, c.stop))
      [] c.op = "FLUSHALL" -> FlushAll(d, now)
      [] c.op = "DBSIZE"   -> Result(d, DBSize(d, now))

\* How much later it is when the handler of c is done.
Elapsed(c) == IF c.op \in {"DEL", "EXISTS", "TTL", "MGET"} THEN c.took ELSE 0

\* c, as it runs again when it is read from the log: on new readings of the clock.
Again(c) == IF c.op = "DEL" THEN DelOf(c.keys) ELSE {c}

IsError(reply) == reply[1] = "error"
=============================================================================
