------------------------------ MODULE Keyspace ------------------------------
(***************************************************************************)
(* The data engine of internal/store, as pure operators.                   *)
(*                                                                         *)
(* A keyspace d is the map Store.data: a function from the keys present to *)
(* their entries.  Every method of Store that writes takes Store.mu for    *)
(* its whole body, so a method is one operator                             *)
(*         Method(d, now, arguments) = [data |-> ..., reply |-> ...]       *)
(* giving the map it leaves behind and what it returns.  now is the clock  *)
(* when the method takes the lock.  Where it reads the clock several times *)
(* and a reply can tell, an argument says how much later each reading is.  *)
(* A method that only reads is an operator giving its reply.               *)
(***************************************************************************)
EXTENDS Integers, Sequences, FiniteSets, Functions

CONSTANTS
    Key,             \* key names
    Str,             \* strings: values, list elements, fields and members
    Score,           \* the scores of sorted sets (a float64, of which only the order counts)
    MaxInt,          \* the largest int64
    NotAnInteger,    \* strconv.ParseInt's error
    ParseInt(_),     \* strconv.ParseInt(s, 10, 64)
    FormatInt(_),    \* strconv.FormatInt(n, 10)
    Concat(_, _),    \* string concatenation
    Length(_),       \* the length of a string
    Precedes(_, _)   \* the order of strings

MinInt == -MaxInt - 1
Int64  == MinInt .. MaxInt

ASSUME KeyspaceAssumption ==
    /\ MaxInt \in Nat \ {0}
    /\ NotAnInteger \notin Int64
    /\ Score \subseteq Int

ASSUME StringAssumption ==
    /\ \A s \in Str : ParseInt(s) \in Int64 \cup {NotAnInteger}
    /\ \A n \in Int64 : FormatInt(n) \in Str
    /\ \A s, u \in Str : Concat(s, u) \in Str

\* < on strings, which sort.Slice's less uses for ties, is a strict total order.
ASSUME OrderAssumption ==
    /\ \A s \in Str : ~Precedes(s, s)
    /\ \A s, u \in Str : s = u \/ Precedes(s, u) \/ Precedes(u, s)
    /\ \A s, u, w \in Str : Precedes(s, u) /\ Precedes(u, w) => Precedes(s, w)

-----------------------------------------------------------------------------
(* Entries.  Exactly one payload, selected by kind; expireAt = 0 is the    *)
(* zero time.Time, "never expires".                                        *)

KindString == "string"
KindHash   == "hash"
KindList   == "list"
KindSet    == "set"
KindZSet   == "zset"

\* f is a map from finitely many elements of S to elements of T (Go's map[S]T).
IsMap(f, S, T) == DOMAIN f \subseteq S /\ IsFiniteSet(DOMAIN f) /\ f \in [DOMAIN f -> T]

IsPayload(kind, v) ==
    \/ kind = KindString /\ v \in Str
    \/ kind = KindHash /\ IsMap(v, Str, Str)
    \/ kind = KindList /\ v \in Seq(Str)
    \/ kind = KindSet /\ v \subseteq Str /\ IsFiniteSet(v)
    \/ kind = KindZSet /\ IsMap(v, Str, Score)

IsEntry(e) ==
    /\ e = [kind |-> e.kind, val |-> e.val, expireAt |-> e.expireAt]
    /\ IsPayload(e.kind, e.val)
    /\ e.expireAt \in Int

\* d is a state of Store.data.
IsKeyspace(d) ==
    /\ DOMAIN d \subseteq Key
    /\ d = [k \in DOMAIN d |-> d[k]]
    /\ \A k \in DOMAIN d : IsEntry(d[k])

expired(e, now) == e.expireAt # 0 /\ now >= e.expireAt

\* getLocked(key) != nil: the key is in the map and has not expired.
getLocked(d, now, k) == k \in DOMAIN d /\ ~expired(d[k], now)

\* The error branch of stringOrWrongType, hashOrWrongType, listOrWrongType,
\* setOrWrongType and zsetOrWrongType.
OrWrongType(d, now, k, kind) == getLocked(d, now, k) /\ d[k].kind # kind

StringEntry(v) == [kind |-> KindString, val |-> v, expireAt |-> 0]

\* Mutant: an expired container is found again.
CreatedReuses(d, now, k, kind, empty) ==
    IF k \in DOMAIN d /\ d[k].kind = kind THEN d[k]
    ELSE [kind |-> kind, val |-> empty, expireAt |-> 0]

\* The entry a create=true lookup hands back: the live one, or an empty
\* container without expiry put in place of an absent or expired key.
Created(d, now, k, kind, empty) ==
    IF getLocked(d, now, k) THEN d[k]
    ELSE [kind |-> kind, val |-> empty, expireAt |-> 0]

EmptyMap == [x \in {} |-> x]

\* Writing the entries of p over the map; deleting the keys in ks.
Put(d, p) == [k \in DOMAIN d \cup DOMAIN p |-> IF k \in DOMAIN p THEN p[k] ELSE d[k]]
Put1(d, k, e) == Put(d, [x \in {k} |-> e])
Delete(d, ks) == Restrict(d, DOMAIN d \ ks)

Result(d, r) == [data |-> d, reply |-> r]
WrongType    == <<"error", "WRONGTYPE">>
NotInteger   == <<"error", "value is not an integer or out of range">>
Overflow     == <<"error", "increment or decrement would overflow">>
NoSuchKey    == <<"error", "no such key">>
Number(n)    == <<"int", n>>
Bulk(v)      == <<"bulk", v>>
Null         == <<"null">>
Flag(b)      == Number(IF b THEN 1 ELSE 0)
List(x)      == <<"array", x>>
OK           == <<"OK">>

-----------------------------------------------------------------------------
(* store.go: the methods that do not depend on the kind of the value.      *)

\* A key named twice in DEL is deleted, and counted, the first time only, so
\* the argument is a set.  Expired keys are neither counted nor removed.  The
\* clock is read for each key: for k it is late[k] after now.
Del(d, now, ks, late) ==
    LET found == {k \in ks : getLocked(d, now + late[k], k)}
    IN  Result(Delete(d, found), Number(Cardinality(found)))

\* Expire passes time.Now().Add(ttl), ExpireAt an absolute time.
ExpireAt(d, now, k, at) ==
    IF getLocked(d, now, k)
    THEN Result([d EXCEPT ![k].expireAt = at], Number(1))
    ELSE Result(d, Number(0))

Expire(d, now, k, ttl) == ExpireAt(d, now, k, now + ttl)

Persist(d, now, k) ==
    IF getLocked(d, now, k) /\ d[k].expireAt # 0
    THEN Result([d EXCEPT ![k].expireAt = 0], Number(1))
    ELSE Result(d, Number(0))

FlushAll(d, now) == Result(EmptyMap, OK)

Rename(d, now, src, dst) ==
    IF getLocked(d, now, src)
    THEN Result(Put1(Delete(d, {src}), dst, d[src]), OK)
    ELSE Result(d, NoSuchKey)

-----------------------------------------------------------------------------
(* string.go                                                               *)

SetOptions == [HasTTL : BOOLEAN, TTL : Int, OnlyIfNew : BOOLEAN, OnlyIfOld : BOOLEAN]

Set(d, now, k, v, opts) ==
    LET exists == getLocked(d, now, k)
        e      == [StringEntry(v) EXCEPT !.expireAt = IF opts.HasTTL THEN now + opts.TTL ELSE 0]
    IN  IF (opts.OnlyIfNew /\ exists) \/ (opts.OnlyIfOld /\ ~exists)
        THEN Result(d, Null)
        ELSE Result(Put1(d, k, e), OK)

\* Mutant: the value is stored before the kind is checked.
GetSetUnchecked(d, now, k, v) ==
    Result(Put1(d, k, StringEntry(v)),
           IF OrWrongType(d, now, k, KindString) THEN WrongType
           ELSE IF getLocked(d, now, k) THEN Bulk(d[k].val) ELSE Null)

GetSet(d, now, k, v) ==
    IF OrWrongType(d, now, k, KindString) THEN Result(d, WrongType)
    ELSE Result(Put1(d, k, StringEntry(v)),
                IF getLocked(d, now, k) THEN Bulk(d[k].val) ELSE Null)

\* pairs maps each key named by MSET to its (last) value.
MSet(d, now, pairs) == Result(Put(d, [k \in DOMAIN pairs |-> StringEntry(pairs[k])]), OK)

\* Mutant: arithmetic wider than the result.
AddUnbounded(a, b) == a + b

\* int64 addition: wraps around by 2^64 outside Int64.
Add64(a, b) ==
    IF a + b > MaxInt THEN a + b - 2 * (MaxInt + 1)
    ELSE IF a + b < MinInt THEN a + b + 2 * (MaxInt + 1)
    ELSE a + b

\* int64 negation: the smallest number is its own negative.
Neg64(n) == IF n = MinInt THEN n ELSE -n

\* Mutant: only increments can overflow.
OverflowsUpwards(cur, delta) == delta > 0 /\ Add64(cur, delta) < cur

\* IncrBy's guard, evaluated on the wrapped sum.
Overflows(cur, delta) ==
    LET next == Add64(cur, delta)
    IN  (delta > 0 /\ next < cur) \/ (delta < 0 /\ next > cur)

IncrBy(d, now, k, delta) ==
    LET found == getLocked(d, now, k)
        cur   == IF found THEN ParseInt(d[k].val) ELSE 0
        next  == Add64(cur, delta)
    IN  IF OrWrongType(d, now, k, KindString) THEN Result(d, WrongType)
        ELSE IF cur = NotAnInteger THEN Result(d, NotInteger)
        ELSE IF Overflows(cur, delta) THEN Result(d, Overflow)
        ELSE Result(IF found THEN [d EXCEPT ![k].val = FormatInt(next)]
                    ELSE Put1(d, k, StringEntry(FormatInt(next))),
                    Number(next))

Appended(d, now, k, v) == IF getLocked(d, now, k) THEN Concat(d[k].val, v) ELSE v

\* Store.Append
StrAppend(d, now, k, v) ==
    IF OrWrongType(d, now, k, KindString) THEN Result(d, WrongType)
    ELSE IF getLocked(d, now, k)
    THEN Result([d EXCEPT ![k].val = Appended(d, now, k, v)], Number(Length(Appended(d, now, k, v))))
    ELSE Result(Put1(d, k, StringEntry(v)), Number(Length(v)))

-----------------------------------------------------------------------------
(* hash.go.  fields maps the named fields to their (last) values.          *)

\* Mutant: an emptied container stays.
ShrunkKeeps(d, k, rest, empty) == [d EXCEPT ![k].val = rest]

\* The rest of a container after a removal: an emptied one leaves the map.
Shrunk(d, k, rest, empty) ==
    IF rest = empty THEN Delete(d, {k}) ELSE [d EXCEPT ![k].val = rest]

HSet(d, now, k, fields) ==
    LET e == Created(d, now, k, KindHash, EmptyMap)
    IN  IF OrWrongType(d, now, k, KindHash) THEN Result(d, WrongType)
        ELSE Result(Put1(d, k, [e EXCEPT !.val = Put(e.val, fields)]),
                    Number(Cardinality(DOMAIN fields \ DOMAIN e.val)))

HDel(d, now, k, fields) ==
    IF OrWrongType(d, now, k, KindHash) THEN Result(d, WrongType)
    ELSE IF ~getLocked(d, now, k) THEN Result(d, Number(0))
    ELSE Result(Shrunk(d, k, Delete(d[k].val, fields), EmptyMap),
                Number(Cardinality(fields \cap DOMAIN d[k].val)))

\* No overflow guard here: the sum wraps.
HIncrBy(d, now, k, f, delta) ==
    LET e    == Created(d, now, k, KindHash, EmptyMap)
        cur  == IF f \in DOMAIN e.val THEN ParseInt(e.val[f]) ELSE 0
        next == Add64(cur, delta)
    IN  IF OrWrongType(d, now, k, KindHash) THEN Result(d, WrongType)
        ELSE IF cur = NotAnInteger THEN Result(Put1(d, k, e), NotInteger)
        ELSE Result(Put1(d, k, [e EXCEPT !.val = Put1(e.val, f, FormatInt(next))]),
                    Number(next))

-----------------------------------------------------------------------------
(* list.go.  Values are pushed one at a time.                              *)

Reversed(s) == [i \in 1 .. Len(s) |-> s[Len(s) + 1 - i]]

LPush(d, now, k, values) ==
    LET e == Created(d, now, k, KindList, <<>>)
    IN  IF OrWrongType(d, now, k, KindList) THEN Result(d, WrongType)
        ELSE Result(Put1(d, k, [e EXCEPT !.val = Reversed(values) \o e.val]),
                    Number(Len(e.val) + Len(values)))

RPush(d, now, k, values) ==
    LET e == Created(d, now, k, KindList, <<>>)
    IN  IF OrWrongType(d, now, k, KindList) THEN Result(d, WrongType)
        ELSE Result(Put1(d, k, [e EXCEPT !.val = e.val \o values]),
                    Number(Len(e.val) + Len(values)))

LPop(d, now, k) ==
    IF OrWrongType(d, now, k, KindList) THEN Result(d, WrongType)
    ELSE IF ~getLocked(d, now, k) \/ d[k].val = <<>> THEN Result(d, Null)
    ELSE Result(Shrunk(d, k, Tail(d[k].val), <<>>), Bulk(Head(d[k].val)))

RPop(d, now, k) ==
    IF OrWrongType(d, now, k, KindList) THEN Result(d, WrongType)
    ELSE IF ~getLocked(d, now, k) \/ d[k].val = <<>> THEN Result(d, Null)
    ELSE LET n == Len(d[k].val)
         IN  Result(Shrunk(d, k, SubSeq(d[k].val, 1, n - 1), <<>>), Bulk(d[k].val[n]))

-----------------------------------------------------------------------------
(* set.go                                                                  *)

SAdd(d, now, k, members) ==
    LET e == Created(d, now, k, KindSet, {})
    IN  IF OrWrongType(d, now, k, KindSet) THEN Result(d, WrongType)
        ELSE Result(Put1(d, k, [e EXCEPT !.val = @ \cup members]),
                    Number(Cardinality(members \ e.val)))

SRem(d, now, k, members) ==
    IF OrWrongType(d, now, k, KindSet) THEN Result(d, WrongType)
    ELSE IF ~getLocked(d, now, k) THEN Result(d, Number(0))
    ELSE Result(Shrunk(d, k, d[k].val \ members, {}),
                Number(Cardinality(d[k].val \cap members)))

-----------------------------------------------------------------------------
(* zset.go.  scores maps the named members to their (last) scores.         *)

ZAdd(d, now, k, scores) ==
    LET e == Created(d, now, k, KindZSet, EmptyMap)
    IN  IF OrWrongType(d, now, k, KindZSet) THEN Result(d, WrongType)
        ELSE Result(Put1(d, k, [e EXCEPT !.val = Put(e.val, scores)]),
                    Number(Cardinality(DOMAIN scores \ DOMAIN e.val)))

ZRem(d, now, k, members) ==
    IF OrWrongType(d, now, k, KindZSet) THEN Result(d, WrongType)
    ELSE IF ~getLocked(d, now, k) THEN Result(d, Number(0))
    ELSE Result(Shrunk(d, k, Delete(d[k].val, members), EmptyMap),
                Number(Cardinality(members \cap DOMAIN d[k].val)))

-----------------------------------------------------------------------------
(* The methods that only read, under the read lock.                        *)

Type(d, now, k) == IF getLocked(d, now, k) THEN <<"kind", d[k].kind>> ELSE <<"none">>

\* keys is the argument list: a repeated key counts once per occurrence.  The
\* clock is read for each of them, late[i] after now for the i-th.
Exists(d, now, keys, late) ==
    Number(Cardinality({i \in DOMAIN keys : getLocked(d, now + late[i], keys[i])}))

\* ttl's two clock reads: getLocked at now, time.Until at later >= now.
ttl(d, now, later, k) ==
    IF ~getLocked(d, now, k) THEN Number(-2)
    ELSE IF d[k].expireAt = 0 THEN Number(-1)
    ELSE Number(IF d[k].expireAt > later THEN d[k].expireAt - later ELSE 0)

\* matching is the set of key names the glob pattern matches.
Keys(d, now, matching) == List({k \in DOMAIN d \cap matching : ~expired(d[k], now)})

DBSize(d, now) == Number(Cardinality({k \in DOMAIN d : ~expired(d[k], now)}))

\* What a reading method returns: an error for a key of another kind, absent if
\* there is no key, or something of the payload.
Reading(d, now, k, kind, absent, Of(_)) ==
    IF OrWrongType(d, now, k, kind) THEN WrongType
    ELSE IF getLocked(d, now, k) THEN Of(d[k].val) ELSE absent

Get(d, now, k) == Reading(d, now, k, KindString, Null, Bulk)

StrLen(d, now, k) == Reading(d, now, k, KindString, Number(0), LAMBDA v : Number(Length(v)))

\* MGET gives nothing, and no error, for a key of another kind.  The clock is
\* read for each key, as in Exists.
MGet(d, now, keys, late) ==
    List([i \in DOMAIN keys |->
              IF getLocked(d, now + late[i], keys[i]) /\ d[keys[i]].kind = KindString
              THEN Bulk(d[keys[i]].val) ELSE Null])

\* The value of a field, or of none.
FieldOf(h, f) == IF f \in DOMAIN h THEN Bulk(h[f]) ELSE Null

HGet(d, now, k, f) == Reading(d, now, k, KindHash, Null, LAMBDA h : FieldOf(h, f))

HMGet(d, now, k, fields) ==
    Reading(d, now, k, KindHash, List([i \in DOMAIN fields |-> Null]),
            LAMBDA h : List([i \in DOMAIN fields |-> FieldOf(h, fields[i])]))

\* Go's maps have no order: a reply that lists one is the map, or the set.
HGetAll(d, now, k) == Reading(d, now, k, KindHash, List(EmptyMap), List)

HExists(d, now, k, f) == Reading(d, now, k, KindHash, Flag(FALSE), LAMBDA h : Flag(f \in DOMAIN h))

HLen(d, now, k) == Reading(d, now, k, KindHash, Number(0), LAMBDA h : Number(Cardinality(DOMAIN h)))

HKeys(d, now, k) == Reading(d, now, k, KindHash, List({}), LAMBDA h : List(DOMAIN h))

\* How often each value occurs: once per field that has it.
Occurrences(h) == [v \in Range(h) |-> Cardinality({f \in DOMAIN h : h[f] = v})]

HVals(d, now, k) ==
    Reading(d, now, k, KindHash, List(EmptyMap), LAMBDA h : List(Occurrences(h)))

SMembers(d, now, k) == Reading(d, now, k, KindSet, List({}), List)

SIsMember(d, now, k, m) == Reading(d, now, k, KindSet, Flag(FALSE), LAMBDA s : Flag(m \in s))

SCard(d, now, k) == Reading(d, now, k, KindSet, Number(0), LAMBDA s : Number(Cardinality(s)))

-----------------------------------------------------------------------------
(* Reads by position.                                                      *)

\* Mutant: a negative index is the beginning.
clampToZero(idx, n) == IF idx < 0 THEN 0 ELSE idx

clampIndex(idx, n) ==
    IF idx >= 0 THEN idx
    ELSE IF idx + n < 0 THEN 0
    ELSE idx + n

\* The body of LRange and of ZRange.
Slice(s, start, stop) ==
    LET n  == Len(s)
        lo == clampIndex(start, n)
        hi == IF clampIndex(stop, n) >= n THEN n - 1 ELSE clampIndex(stop, n)
    IN  IF lo > hi \/ lo >= n \/ n = 0 THEN <<>> ELSE SubSeq(s, lo + 1, hi + 1)

LLen(d, now, k) == Reading(d, now, k, KindList, Number(0), LAMBDA s : Number(Len(s)))

LRange(d, now, k, start, stop) ==
    Reading(d, now, k, KindList, List(<<>>), LAMBDA s : List(Slice(s, start, stop)))

LIndex(d, now, k, idx) ==
    LET at(s) == IF idx < 0 THEN idx + Len(s) ELSE idx
    IN  Reading(d, now, k, KindList, Null,
                LAMBDA s : IF at(s) < 0 \/ at(s) >= Len(s) THEN Null ELSE Bulk(s[at(s) + 1]))

\* sort.Slice's less: by score, ties by name.
Less(z, m, o) == z[m] < z[o] \/ (z[m] = z[o] /\ Precedes(m, o))

\* The members of z in that order.
sorted(z) ==
    [i \in 1 .. Cardinality(DOMAIN z) |->
        CHOOSE m \in DOMAIN z : Cardinality({o \in DOMAIN z : Less(z, o, m)}) = i - 1]

ZScore(d, now, k, m) == Reading(d, now, k, KindZSet, Null, LAMBDA z : FieldOf(z, m))

ZCard(d, now, k) == Reading(d, now, k, KindZSet, Number(0), LAMBDA z : Number(Cardinality(DOMAIN z)))

\* Mutant: members with equal scores share a rank.
RankTies(z, m) == Cardinality({o \in DOMAIN z : z[o] < z[m]})

\* Where ZRank's loop over them finds m, counted from 0.
Rank(z, m) == (CHOOSE i \in DOMAIN sorted(z) : sorted(z)[i] = m) - 1

ZRank(d, now, k, m) ==
    Reading(d, now, k, KindZSet, Null,
            LAMBDA z : IF m \in DOMAIN z THEN Number(Rank(z, m)) ELSE Null)

\* Members with their scores, of which ZRANGE without WITHSCORES shows the members.
ZRange(d, now, k, start, stop) ==
    Reading(d, now, k, KindZSet, List(<<>>),
            LAMBDA z : LET ms == Slice(sorted(z), start, stop)
                       IN  List([i \in DOMAIN ms |-> <<ms[i], z[ms[i]]>>]))
=============================================================================
