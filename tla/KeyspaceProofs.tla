--------------------------- MODULE KeyspaceProofs ---------------------------
(***************************************************************************)
(* Lemmas about the operators of Keyspace and Commands, for any keyspace,  *)
(* any key names, strings and scores, and any width of the integers.       *)
(*                                                                         *)
(* A command is run here on two keyspaces at once, d and a, which Agree:   *)
(* they hold the same unexpired entries and differ at most in expired      *)
(* leftovers.  ApplySound says that the two runs cannot be told apart,     *)
(* that entries stay well formed, and that an error leaves no trace.       *)
(*                                                                         *)
(* The second part is what replay needs to know of a keyspace whose keys   *)
(* have no deadlines: the effect of a command that sets none does not      *)
(* depend on the clock, and the command reads and changes only the keys it *)
(* names.  So a log can be replayed at any later time, and commands on     *)
(* different keys can be replayed in either order.                         *)
(***************************************************************************)
EXTENDS Commands, SequenceTheorems, FiniteSetTheorems, TLAPS

\* A container entry holds at least one element.
NonEmptyEntry(e) ==
    /\ e.kind \in {KindHash, KindZSet} => DOMAIN e.val # {}
    /\ e.kind = KindList => e.val # <<>>
    /\ e.kind = KindSet => e.val # {}

\* An entry the store may hold.
IsGood(e) == IsEntry(e) /\ NonEmptyEntry(e)

\* A keyspace the store may hold: typed, and without empty containers.
WellFormed(d) == IsKeyspace(d) /\ \A k \in DOMAIN d : NonEmptyEntry(d[k])

\* d and a hold the same unexpired entries at time t.
Agree(d, a, t) ==
    \A k : /\ getLocked(d, t, k) <=> getLocked(a, t, k)
           /\ getLocked(d, t, k) => d[k] = a[k]

\* Storing good entries keeps a keyspace well formed.
LEMMA PutWF ==
    ASSUME NEW d, WellFormed(d), NEW p, DOMAIN p \subseteq Key,
           \A k \in DOMAIN p : IsGood(p[k])
    PROVE  WellFormed(Put(d, p))
  BY DEF WellFormed, IsKeyspace, Put, IsGood

\* The same for one entry.
LEMMA Put1WF ==
    ASSUME NEW d, WellFormed(d), NEW k \in Key, NEW e, IsGood(e)
    PROVE  WellFormed(Put1(d, k, e))
  BY PutWF DEF Put1

\* Deleting keys keeps a keyspace well formed.
LEMMA DeleteWF ==
    ASSUME NEW d, WellFormed(d), NEW ks
    PROVE  WellFormed(Delete(d, ks))
  BY DEF WellFormed, IsKeyspace, Delete, Restrict

\* Assigning to the payload of a present entry is storing an entry.
LEMMA ExceptVal ==
    ASSUME NEW d, WellFormed(d), NEW k \in DOMAIN d, NEW v,
           IsGood([kind |-> d[k].kind, val |-> v, expireAt |-> d[k].expireAt])
    PROVE  /\ WellFormed([d EXCEPT ![k].val = v])
           /\ [d EXCEPT ![k].val = v] = Put1(d, k, [kind |-> d[k].kind, val |-> v, expireAt |-> d[k].expireAt])
<1> DEFINE e == [kind |-> d[k].kind, val |-> v, expireAt |-> d[k].expireAt]
<1>1. [d[k] EXCEPT !.val = v] = e
  BY DEF WellFormed, IsKeyspace, IsEntry
<1>2. [d EXCEPT ![k].val = v] = [d EXCEPT ![k] = e]
  BY <1>1
<1>3. [d EXCEPT ![k] = e] = Put1(d, k, e)
  BY DEF WellFormed, IsKeyspace, Put1, Put
<1>4. k \in Key
  BY DEF WellFormed, IsKeyspace
<1> QED BY <1>2, <1>3, <1>4, Put1WF

\* Assigning to the deadline of a present entry is storing an entry.
LEMMA ExceptExpire ==
    ASSUME NEW d, WellFormed(d), NEW k \in DOMAIN d, NEW at \in Int
    PROVE  /\ WellFormed([d EXCEPT ![k].expireAt = at])
           /\ [d EXCEPT ![k].expireAt = at] = Put1(d, k, [kind |-> d[k].kind, val |-> d[k].val, expireAt |-> at])
<1> DEFINE e == [kind |-> d[k].kind, val |-> d[k].val, expireAt |-> at]
<1>1. [d[k] EXCEPT !.expireAt = at] = e /\ IsGood(e)
  BY DEF WellFormed, IsKeyspace, IsEntry, IsGood, NonEmptyEntry
<1>2. [d EXCEPT ![k].expireAt = at] = [d EXCEPT ![k] = e]
  BY <1>1
<1>3. [d EXCEPT ![k] = e] = Put1(d, k, e)
  BY DEF WellFormed, IsKeyspace, Put1, Put
<1>4. k \in Key
  BY DEF WellFormed, IsKeyspace
<1> QED BY <1>1, <1>2, <1>3, <1>4, Put1WF

\* Storing the same entries keeps agreement.
LEMMA PutAgree ==
    ASSUME NEW d, NEW a, NEW t, Agree(d, a, t), NEW p
    PROVE  Agree(Put(d, p), Put(a, p), t)
  BY DEF Agree, getLocked, Put

\* Deleting the same keys keeps agreement.
LEMMA DeleteAgree ==
    ASSUME NEW d, NEW a, NEW t, Agree(d, a, t), NEW ks
    PROVE  Agree(Delete(d, ks), Delete(a, ks), t)
  BY DEF Agree, getLocked, Delete, Restrict

\* Storing what is there already changes nothing.
LEMMA PutAlone == ASSUME NEW d, WellFormed(d), NEW k \in DOMAIN d PROVE Put1(d, k, d[k]) = d
  BY DEF Put1, Put, WellFormed, IsKeyspace

\* What getLocked finds is a good entry of a key.
LEMMA LiveIsGood ==
    ASSUME NEW d, WellFormed(d), NEW t, NEW k, getLocked(d, t, k)
    PROVE  k \in DOMAIN d /\ k \in Key /\ IsGood(d[k])
  BY DEF WellFormed, IsKeyspace, getLocked, IsGood

\* Result r, obtained from the keyspace d, is as result q, obtained from one that
\* agrees with d: well formed, without trace if an error, and the same to a client.
Sound(r, q, d, t) ==
    /\ WellFormed(r.data)
    /\ IsError(r.reply) => r.data = d
    /\ Agree(r.data, q.data, t)
    /\ r.reply = q.reply

\* Lookups in keyspaces that agree give the same.
LEMMA SameLookup ==
    ASSUME NEW d, NEW a, NEW t, Agree(d, a, t), NEW k, NEW kind, NEW empty
    PROVE  /\ getLocked(d, t, k) <=> getLocked(a, t, k)
           /\ getLocked(d, t, k) => d[k] = a[k]
           /\ OrWrongType(d, t, k, kind) <=> OrWrongType(a, t, k, kind)
           /\ Created(d, t, k, kind, empty) = Created(a, t, k, kind, empty)
  BY DEF Agree, OrWrongType, Created

\* Keyspaces that agree agree at every later time too.
LEMMA LaterLookup ==
    ASSUME NEW d, NEW a, WellFormed(d), WellFormed(a), NEW t \in Int, NEW n \in Nat, Agree(d, a, t), NEW k
    PROVE  /\ getLocked(d, t + n, k) <=> getLocked(a, t + n, k)
           /\ getLocked(d, t + n, k) => d[k] = a[k]
<1>1. ASSUME NEW x, WellFormed(x), getLocked(x, t + n, k) PROVE getLocked(x, t, k)
  BY <1>1 DEF getLocked, expired, WellFormed, IsKeyspace, IsEntry
<1>2. getLocked(d, t, k) <=> getLocked(a, t, k)
  BY DEF Agree
<1>3. getLocked(d, t, k) => d[k] = a[k]
  BY DEF Agree
<1> QED BY <1>1, <1>2, <1>3 DEF getLocked

\* A method that leaves the map alone is sound.
LEMMA Unchanged ==
    ASSUME NEW d, NEW a, WellFormed(d), NEW t, Agree(d, a, t), NEW x
    PROVE  Sound(Result(d, x), Result(a, x), d, t)
  BY DEF Sound, Result

\* A method that stores good entries and replies without error is sound.
LEMMA Stored ==
    ASSUME NEW d, NEW a, WellFormed(d), NEW t, Agree(d, a, t), NEW p, NEW x,
           DOMAIN p \subseteq Key, \A k \in DOMAIN p : IsGood(p[k]), ~IsError(x)
    PROVE  Sound(Result(Put(d, p), x), Result(Put(a, p), x), d, t)
  BY PutWF, PutAgree DEF Sound, Result

\* The same for one entry.
LEMMA Stored1 ==
    ASSUME NEW d, NEW a, WellFormed(d), NEW t, Agree(d, a, t), NEW k \in Key, NEW e, NEW x,
           IsGood(e), ~IsError(x)
    PROVE  Sound(Result(Put1(d, k, e), x), Result(Put1(a, k, e), x), d, t)
  BY Stored DEF Put1

\* A method that deletes keys and replies without error is sound.
LEMMA Deleted ==
    ASSUME NEW d, NEW a, WellFormed(d), NEW t, Agree(d, a, t), NEW ks, NEW x, ~IsError(x)
    PROVE  Sound(Result(Delete(d, ks), x), Result(Delete(a, ks), x), d, t)
  BY DeleteWF, DeleteAgree DEF Sound, Result

\* A method that assigns a good payload to a live entry is sound.
LEMMA Replaced ==
    ASSUME NEW d, NEW a, WellFormed(d), WellFormed(a), NEW t, Agree(d, a, t), NEW k,
           getLocked(d, t, k), NEW v, NEW x, ~IsError(x),
           IsGood([kind |-> d[k].kind, val |-> v, expireAt |-> d[k].expireAt])
    PROVE  Sound(Result([d EXCEPT ![k].val = v], x), Result([a EXCEPT ![k].val = v], x), d, t)
<1>1. /\ k \in DOMAIN d /\ k \in Key /\ k \in DOMAIN a /\ d[k] = a[k]
  BY LiveIsGood, SameLookup
<1> QED BY <1>1, ExceptVal, Stored1

\* A method that assigns a deadline to a live entry is sound.
LEMMA Redated ==
    ASSUME NEW d, NEW a, WellFormed(d), WellFormed(a), NEW t, Agree(d, a, t), NEW k,
           getLocked(d, t, k), NEW at \in Int, NEW x, ~IsError(x)
    PROVE  Sound(Result([d EXCEPT ![k].expireAt = at], x), Result([a EXCEPT ![k].expireAt = at], x), d, t)
<1>1. /\ k \in DOMAIN d /\ k \in Key /\ k \in DOMAIN a /\ d[k] = a[k] /\ IsGood(d[k])
  BY LiveIsGood, SameLookup
<1>2. IsGood([kind |-> d[k].kind, val |-> d[k].val, expireAt |-> at])
  BY <1>1 DEF IsGood, IsEntry, NonEmptyEntry
<1> DEFINE e == [kind |-> d[k].kind, val |-> d[k].val, expireAt |-> at]
<1>3. [d EXCEPT ![k].expireAt = at] = Put1(d, k, e)
  BY <1>1, ExceptExpire
<1>4. [a EXCEPT ![k].expireAt = at] = Put1(a, k, e)
  BY <1>1, ExceptExpire
<1> QED BY <1>1, <1>2, <1>3, <1>4, Stored1

\* The replies that are not errors.
LEMMA NotErrors ==
    ASSUME NEW n
    PROVE  /\ ~IsError(Number(n)) /\ ~IsError(Bulk(n))
           /\ ~IsError(Null) /\ ~IsError(OK)
  BY DEF IsError, Number, Bulk, Null, OK

\* Store.Del is sound.
LEMMA DelSound ==
    ASSUME NEW d, NEW a, WellFormed(d), WellFormed(a), NEW t \in Int, Agree(d, a, t), NEW ks,
           NEW late \in [ks -> Nat]
    PROVE  Sound(Del(d, t, ks, late), Del(a, t, ks, late), d, t)
<1>1. {k \in ks : getLocked(d, t + late[k], k)} = {k \in ks : getLocked(a, t + late[k], k)}
  BY LaterLookup
<1> QED BY <1>1, Deleted, NotErrors DEF Del

\* Store.ExpireAt, and so Store.Expire, is sound.
LEMMA ExpireAtSound ==
    ASSUME NEW d, NEW a, WellFormed(d), WellFormed(a), NEW t, Agree(d, a, t), NEW k, NEW at \in Int
    PROVE  Sound(ExpireAt(d, t, k, at), ExpireAt(a, t, k, at), d, t)
  BY SameLookup, Redated, Unchanged, NotErrors DEF ExpireAt

\* Store.Persist is sound.
LEMMA PersistSound ==
    ASSUME NEW d, NEW a, WellFormed(d), WellFormed(a), NEW t, Agree(d, a, t), NEW k
    PROVE  Sound(Persist(d, t, k), Persist(a, t, k), d, t)
<1> DEFINE has == getLocked(d, t, k) /\ d[k].expireAt # 0
<1>1. has <=> getLocked(a, t, k) /\ a[k].expireAt # 0
  BY SameLookup
<1>2. CASE has
  <2>1. /\ Persist(d, t, k) = Result([d EXCEPT ![k].expireAt = 0], Number(1))
        /\ Persist(a, t, k) = Result([a EXCEPT ![k].expireAt = 0], Number(1))
    BY <1>1, <1>2 DEF Persist
  <2>2. ~IsError(Number(1))
    BY NotErrors
  <2>3. Sound(Result([d EXCEPT ![k].expireAt = 0], Number(1)),
              Result([a EXCEPT ![k].expireAt = 0], Number(1)), d, t)
    BY <1>2, <2>2, Redated
  <2> QED BY <2>1, <2>3
<1>3. CASE ~has
  BY <1>1, <1>3, Unchanged DEF Persist
<1> QED BY <1>2, <1>3

\* Store.FlushAll is sound.
LEMMA FlushAllSound ==
    ASSUME NEW d, NEW a, NEW t
    PROVE  Sound(FlushAll(d, t), FlushAll(a, t), d, t)
  BY NotErrors DEF FlushAll, EmptyMap, Result, Sound, Agree, WellFormed, IsKeyspace

\* Store.Rename is sound, also onto its own key.
LEMMA RenameSound ==
    ASSUME NEW d, NEW a, WellFormed(d), WellFormed(a), NEW t, Agree(d, a, t), NEW src, NEW dst \in Key
    PROVE  Sound(Rename(d, t, src, dst), Rename(a, t, src, dst), d, t)
<1>1. CASE getLocked(d, t, src)
  <2>1. getLocked(a, t, src) /\ d[src] = a[src] /\ IsGood(d[src])
    BY <1>1, SameLookup, LiveIsGood
  <2>2. WellFormed(Delete(d, {src})) /\ Agree(Delete(d, {src}), Delete(a, {src}), t)
    BY DeleteWF, DeleteAgree
  <2>3. Sound(Result(Put1(Delete(d, {src}), dst, d[src]), OK),
              Result(Put1(Delete(a, {src}), dst, d[src]), OK), Delete(d, {src}), t)
    BY <2>1, <2>2, Stored1, NotErrors
  <2> QED BY <1>1, <2>1, <2>3, NotErrors DEF Rename, Sound, Result
<1>2. CASE ~getLocked(d, t, src)
  BY <1>2, SameLookup, Unchanged DEF Rename
<1> QED BY <1>1, <1>2

\* The payloads of each kind.
LEMMA PayloadByKind ==
    ASSUME NEW v
    PROVE  /\ IsPayload(KindString, v) <=> v \in Str
           /\ IsPayload(KindHash, v) <=> IsMap(v, Str, Str)
           /\ IsPayload(KindList, v) <=> v \in Seq(Str)
           /\ IsPayload(KindSet, v) <=> v \subseteq Str /\ IsFiniteSet(v)
           /\ IsPayload(KindZSet, v) <=> IsMap(v, Str, Score)
  BY DEF IsPayload, KindString, KindHash, KindZSet, KindList, KindSet

\* A live entry that passes the kind check has a payload of that kind.
LEMMA LiveKind ==
    ASSUME NEW d, WellFormed(d), NEW t, NEW k, NEW kind, getLocked(d, t, k),
           ~OrWrongType(d, t, k, kind)
    PROVE  d[k].kind = kind /\ IsPayload(kind, d[k].val)
  BY LiveIsGood DEF OrWrongType, IsGood, IsEntry

\* A string entry is good.
LEMMA StringGood ==
    ASSUME NEW v \in Str, NEW at \in Int
    PROVE  IsGood([kind |-> KindString, val |-> v, expireAt |-> at])
  BY DEF IsGood, IsEntry, IsPayload, NonEmptyEntry, KindString, KindHash, KindZSet, KindList, KindSet

\* Store.Set is sound under every combination of options.
LEMMA SetSound ==
    ASSUME NEW d, NEW a, WellFormed(d), NEW t \in Int, Agree(d, a, t),
           NEW k \in Key, NEW v \in Str, NEW opts \in SetOptions
    PROVE  Sound(Set(d, t, k, v, opts), Set(a, t, k, v, opts), d, t)
<1> DEFINE at == IF opts.HasTTL THEN t + opts.TTL ELSE 0
           e  == [kind |-> KindString, val |-> v, expireAt |-> at]
           refused == (opts.OnlyIfNew /\ getLocked(d, t, k)) \/ (opts.OnlyIfOld /\ ~getLocked(d, t, k))
<1>1. IsGood(e)
  <2>1. at \in Int
    BY DEF SetOptions
  <2> QED BY <2>1, StringGood
<1>2. /\ Set(d, t, k, v, opts) = IF refused THEN Result(d, Null) ELSE Result(Put1(d, k, e), OK)
      /\ Set(a, t, k, v, opts) = IF refused THEN Result(a, Null) ELSE Result(Put1(a, k, e), OK)
  <2>1. [StringEntry(v) EXCEPT !.expireAt = at] = e
    BY DEF StringEntry
  <2> QED BY <2>1, SameLookup DEF Set
<1> HIDE DEF e, refused
<1> QED BY <1>1, <1>2, Unchanged, Stored1, NotErrors

\* Store.GetSet is sound.
LEMMA GetSetSound ==
    ASSUME NEW d, NEW a, WellFormed(d), NEW t, Agree(d, a, t), NEW k \in Key, NEW v \in Str
    PROVE  Sound(GetSet(d, t, k, v), GetSet(a, t, k, v), d, t)
<1> DEFINE old == IF getLocked(d, t, k) THEN Bulk(d[k].val) ELSE Null
           bad == OrWrongType(d, t, k, KindString)
<1>1. /\ GetSet(d, t, k, v) = IF bad THEN Result(d, WrongType) ELSE Result(Put1(d, k, StringEntry(v)), old)
      /\ GetSet(a, t, k, v) = IF bad THEN Result(a, WrongType) ELSE Result(Put1(a, k, StringEntry(v)), old)
  BY SameLookup DEF GetSet
<1>2. ~IsError(old) /\ IsGood(StringEntry(v))
  BY NotErrors, StringGood DEF StringEntry
<1> HIDE DEF old, bad
<1> QED BY <1>1, <1>2, Unchanged, Stored1

\* Store.MSet is sound.
LEMMA MSetSound ==
    ASSUME NEW d, NEW a, WellFormed(d), NEW t, Agree(d, a, t),
           NEW pairs, DOMAIN pairs \subseteq Key, \A k \in DOMAIN pairs : pairs[k] \in Str
    PROVE  Sound(MSet(d, t, pairs), MSet(a, t, pairs), d, t)
<1> DEFINE p == [k \in DOMAIN pairs |-> StringEntry(pairs[k])]
<1>1. DOMAIN p \subseteq Key /\ \A k \in DOMAIN p : IsGood(p[k])
  BY StringGood DEF StringEntry
<1> QED BY <1>1, Stored, NotErrors DEF MSet

\* The wrapped sum is an int64.
LEMMA Add64Type ==
    ASSUME NEW x \in Int64, NEW y \in Int64
    PROVE  Add64(x, y) \in Int64
  BY KeyspaceAssumption DEF Add64, Int64, MinInt

\* So is the wrapped negative.
LEMMA Neg64Type ==
    ASSUME NEW x \in Int64
    PROVE  Neg64(x) \in Int64
  BY KeyspaceAssumption DEF Neg64, Int64, MinInt

\* IncrBy's guard, evaluated on the wrapped sum, tells exactly whether the sum wrapped.
LEMMA OverflowExact ==
    ASSUME NEW x \in Int64, NEW y \in Int64
    PROVE  /\ Overflows(x, y) <=> x + y \notin Int64
           /\ x + y \in Int64 => Add64(x, y) = x + y
<1>1. /\ MaxInt \in Nat /\ MaxInt > 0 /\ x \in Int /\ y \in Int
      /\ -MaxInt - 1 <= x /\ x <= MaxInt /\ -MaxInt - 1 <= y /\ y <= MaxInt
  BY KeyspaceAssumption DEF Int64, MinInt
<1>2. x + y \in Int64 <=> -MaxInt - 1 <= x + y /\ x + y <= MaxInt
  BY <1>1 DEF Int64, MinInt
<1>3. CASE x + y > MaxInt
  BY <1>1, <1>2, <1>3 DEF Overflows, Add64, MinInt
<1>4. CASE x + y < -MaxInt - 1
  BY <1>1, <1>2, <1>4 DEF Overflows, Add64, MinInt
<1>5. CASE -MaxInt - 1 <= x + y /\ x + y <= MaxInt
  BY <1>1, <1>2, <1>5 DEF Overflows, Add64, MinInt
<1> QED BY <1>1, <1>3, <1>4, <1>5

\* Store.IncrBy is exact, or an error that leaves the map alone.
LEMMA IncrByExact ==
    ASSUME NEW d, WellFormed(d), NEW t, NEW k, ~OrWrongType(d, t, k, KindString), NEW y \in Int64,
           NEW x, x = (IF getLocked(d, t, k) THEN ParseInt(d[k].val) ELSE 0), x # NotAnInteger
    PROVE  /\ x \in Int64
           /\ IF x + y \in Int64 THEN IncrBy(d, t, k, y).reply = Number(x + y)
              ELSE IncrBy(d, t, k, y) = Result(d, Overflow)
<1>1. x \in Int64
  <2>1. getLocked(d, t, k) => d[k].val \in Str
    BY LiveIsGood DEF IsGood, IsEntry, IsPayload, OrWrongType, KindString, KindHash, KindZSet, KindList, KindSet
  <2>2. 0 \in Int64
    BY KeyspaceAssumption DEF Int64, MinInt
  <2> QED BY <2>1, <2>2, StringAssumption
<1>2. CASE x + y \in Int64
  <2>1. ~Overflows(x, y) /\ Add64(x, y) = x + y
    BY <1>1, <1>2, OverflowExact
  <2> QED BY <1>1, <1>2, <2>1 DEF IncrBy, Result
<1>3. CASE x + y \notin Int64
  <2>1. Overflows(x, y)
    BY <1>1, <1>3, OverflowExact
  <2> QED BY <1>1, <1>3, <2>1 DEF IncrBy
<1> QED BY <1>1, <1>2, <1>3

\* Store.IncrBy is sound: what it writes back is a string.
LEMMA IncrBySound ==
    ASSUME NEW d, NEW a, WellFormed(d), WellFormed(a), NEW t, Agree(d, a, t), NEW k \in Key,
           NEW delta \in Int64
    PROVE  Sound(IncrBy(d, t, k, delta), IncrBy(a, t, k, delta), d, t)
<1> DEFINE found == getLocked(d, t, k)
           bad   == OrWrongType(d, t, k, KindString)
           cur   == IF found THEN ParseInt(d[k].val) ELSE 0
           next  == Add64(cur, delta)
           s     == FormatInt(next)
<1>0. /\ OrWrongType(a, t, k, KindString) <=> bad
      /\ getLocked(a, t, k) <=> found
      /\ cur = IF getLocked(a, t, k) THEN ParseInt(a[k].val) ELSE 0
  BY SameLookup
<1>1. CASE bad
  BY <1>0, <1>1, Unchanged DEF IncrBy
<1>2. CASE ~bad /\ cur = NotAnInteger
  BY <1>0, <1>2, Unchanged DEF IncrBy
<1>3. CASE ~bad /\ cur # NotAnInteger /\ Overflows(cur, delta)
  BY <1>0, <1>3, Unchanged DEF IncrBy
<1>4. CASE ~bad /\ cur # NotAnInteger /\ ~Overflows(cur, delta)
  <2>1. s \in Str
    <3>1. cur \in Int64
      <4>1. found => d[k].val \in Str
        BY <1>4, LiveIsGood DEF IsGood, IsEntry, IsPayload, OrWrongType, KindString, KindHash, KindZSet, KindList, KindSet
      <4>2. 0 \in Int64
        BY KeyspaceAssumption DEF Int64, MinInt
      <4> QED BY <1>4, <4>1, <4>2, StringAssumption
    <3> QED BY <3>1, Add64Type, StringAssumption
  <2>2. CASE found
    <3>1. IsGood([kind |-> d[k].kind, val |-> s, expireAt |-> d[k].expireAt])
      BY <1>4, <2>1, <2>2, LiveIsGood, StringGood DEF IsGood, IsEntry, OrWrongType
    <3>2. /\ IncrBy(d, t, k, delta) = Result([d EXCEPT ![k].val = s], Number(next))
          /\ IncrBy(a, t, k, delta) = Result([a EXCEPT ![k].val = s], Number(next))
      BY <1>0, <1>4, <2>2 DEF IncrBy
    <3> HIDE DEF s, next
    <3> QED BY <2>2, <3>1, <3>2, Replaced, NotErrors
  <2>3. CASE ~found
    <3>1. IsGood(StringEntry(s))
      BY <2>1, StringGood DEF StringEntry
    <3>2. /\ IncrBy(d, t, k, delta) = Result(Put1(d, k, StringEntry(s)), Number(next))
          /\ IncrBy(a, t, k, delta) = Result(Put1(a, k, StringEntry(s)), Number(next))
      BY <1>0, <1>4, <2>3 DEF IncrBy
    <3> HIDE DEF s, next
    <3> QED BY <3>1, <3>2, Stored1, NotErrors
  <2> QED BY <2>2, <2>3
<1> QED BY <1>1, <1>2, <1>3, <1>4

\* Store.Append is sound.
LEMMA StrAppendSound ==
    ASSUME NEW d, NEW a, WellFormed(d), WellFormed(a), NEW t, Agree(d, a, t), NEW k \in Key,
           NEW v \in Str
    PROVE  Sound(StrAppend(d, t, k, v), StrAppend(a, t, k, v), d, t)
<1> DEFINE s == Appended(d, t, k, v)
<1>0. /\ OrWrongType(a, t, k, KindString) <=> OrWrongType(d, t, k, KindString)
      /\ getLocked(a, t, k) <=> getLocked(d, t, k)
      /\ Appended(a, t, k, v) = s
  BY SameLookup DEF Appended
<1>1. CASE OrWrongType(d, t, k, KindString)
  BY <1>0, <1>1, Unchanged DEF StrAppend
<1>2. CASE ~OrWrongType(d, t, k, KindString) /\ getLocked(d, t, k)
  <2>0. d[k].kind = KindString /\ s \in Str
    BY <1>2, LiveKind, PayloadByKind, StringAssumption DEF Appended
  <2>1. IsGood([kind |-> d[k].kind, val |-> s, expireAt |-> d[k].expireAt])
    BY <1>2, <2>0, LiveIsGood, StringGood DEF IsGood, IsEntry
  <2> HIDE DEF s
  <2> QED BY <1>0, <1>2, <2>1, Replaced, NotErrors DEF StrAppend, s
<1>3. CASE ~getLocked(d, t, k)
  <2>1. IsGood(StringEntry(v))
    BY StringGood DEF StringEntry
  <2> QED BY <1>0, <1>3, <2>1, Stored1, NotErrors DEF StrAppend, OrWrongType
<1> QED BY <1>1, <1>2, <1>3

\* What a create=true lookup hands back has the kind that was asked for.
LEMMA CreatedGood ==
    ASSUME NEW d, WellFormed(d), NEW t, NEW k, NEW kind, NEW empty, IsPayload(kind, empty),
           ~OrWrongType(d, t, k, kind)
    PROVE  LET e == Created(d, t, k, kind, empty)
           IN  /\ e = [kind |-> kind, val |-> e.val, expireAt |-> e.expireAt]
               /\ IsPayload(kind, e.val)
               /\ e.expireAt \in Int
<1>1. CASE getLocked(d, t, k)
  BY <1>1, LiveIsGood DEF IsGood, IsEntry, OrWrongType, Created
<1>2. CASE ~getLocked(d, t, k)
  BY <1>2 DEF Created
<1> QED BY <1>1, <1>2

\* Adding elements to a live or freshly created container is sound.
LEMMA Grown ==
    ASSUME NEW d, NEW a, WellFormed(d), NEW t, Agree(d, a, t), NEW k \in Key, NEW kind, NEW empty,
           IsPayload(kind, empty), ~OrWrongType(d, t, k, kind), NEW v, NEW x, ~IsError(x),
           IsPayload(kind, v), NonEmptyEntry([kind |-> kind, val |-> v, expireAt |-> 0])
    PROVE  LET e == Created(d, t, k, kind, empty)
               f == Created(a, t, k, kind, empty)
           IN  Sound(Result(Put1(d, k, [e EXCEPT !.val = v]), x),
                     Result(Put1(a, k, [f EXCEPT !.val = v]), x), d, t)
<1> DEFINE e == Created(d, t, k, kind, empty)
           g == [kind |-> kind, val |-> v, expireAt |-> e.expireAt]
<1>1. Created(a, t, k, kind, empty) = e
  BY SameLookup
<1>2. /\ e = [kind |-> kind, val |-> e.val, expireAt |-> e.expireAt]
      /\ e.expireAt \in Int
  BY CreatedGood
<1>3. [e EXCEPT !.val = v] = g
  BY <1>2
<1>4. IsGood(g)
  BY <1>2 DEF IsGood, IsEntry, NonEmptyEntry
<1> QED BY <1>1, <1>3, <1>4, Stored1

\* Removing elements, and the container with its last one, is sound.
LEMMA ShrunkSound ==
    ASSUME NEW d, NEW a, WellFormed(d), WellFormed(a), NEW t, Agree(d, a, t), NEW k,
           getLocked(d, t, k), NEW rest, NEW empty, NEW x, ~IsError(x),
           IsPayload(d[k].kind, rest),
           rest # empty => NonEmptyEntry([kind |-> d[k].kind, val |-> rest, expireAt |-> 0])
    PROVE  Sound(Result(Shrunk(d, k, rest, empty), x), Result(Shrunk(a, k, rest, empty), x), d, t)
<1>1. CASE rest = empty
  BY <1>1, Deleted DEF Shrunk
<1>2. CASE rest # empty
  <2>1. IsGood([kind |-> d[k].kind, val |-> rest, expireAt |-> d[k].expireAt])
    BY <1>2, LiveIsGood DEF IsGood, IsEntry, NonEmptyEntry
  <2> QED BY <1>2, <2>1, Replaced DEF Shrunk
<1> QED BY <1>1, <1>2

\* Storing into a map.
LEMMA MapPut ==
    ASSUME NEW S, NEW T, NEW f, IsMap(f, S, T), NEW g, IsMap(g, S, T)
    PROVE  IsMap(Put(f, g), S, T) /\ DOMAIN Put(f, g) = DOMAIN f \cup DOMAIN g
<1>1. IsFiniteSet(DOMAIN f \cup DOMAIN g)
  BY FS_Union DEF IsMap
<1> QED BY <1>1 DEF IsMap, Put

\* Deleting from a map: it is empty only when it equals EmptyMap.
LEMMA MapDelete ==
    ASSUME NEW S, NEW T, NEW f, IsMap(f, S, T), NEW ks
    PROVE  IsMap(Delete(f, ks), S, T) /\ (Delete(f, ks) # EmptyMap => DOMAIN Delete(f, ks) # {})
<1>1. IsMap(Delete(f, ks), S, T)
  <2>1. IsFiniteSet(DOMAIN f \ ks)
    BY FS_Difference DEF IsMap
  <2> QED BY <2>1 DEF IsMap, Delete, Restrict
<1>2. ASSUME DOMAIN Delete(f, ks) = {} PROVE Delete(f, ks) = EmptyMap
  BY <1>2 DEF Delete, Restrict, EmptyMap
<1> QED BY <1>1, <1>2

\* Empty containers are payloads.
LEMMA EmptyPayloads ==
    /\ IsPayload(KindHash, EmptyMap) /\ IsPayload(KindZSet, EmptyMap)
    /\ IsPayload(KindList, <<>>) /\ IsPayload(KindSet, {})
<1>1. IsFiniteSet({}) /\ DOMAIN EmptyMap = {}
  BY FS_EmptySet DEF EmptyMap
<1> QED BY <1>1 DEF IsPayload, IsMap, EmptyMap

\* What non-emptiness means for each kind.
LEMMA NonEmptyByKind ==
    ASSUME NEW v
    PROVE  /\ NonEmptyEntry([kind |-> KindHash, val |-> v, expireAt |-> 0]) <=> DOMAIN v # {}
           /\ NonEmptyEntry([kind |-> KindZSet, val |-> v, expireAt |-> 0]) <=> DOMAIN v # {}
           /\ NonEmptyEntry([kind |-> KindList, val |-> v, expireAt |-> 0]) <=> v # <<>>
           /\ NonEmptyEntry([kind |-> KindSet, val |-> v, expireAt |-> 0]) <=> v # {}
  BY DEF NonEmptyEntry, KindString, KindHash, KindZSet, KindList, KindSet

\* Store.HSet is sound.
LEMMA HSetSound ==
    ASSUME NEW d, NEW a, WellFormed(d), NEW t, Agree(d, a, t), NEW k \in Key,
           NEW fields, IsMap(fields, Str, Str), DOMAIN fields # {}
    PROVE  Sound(HSet(d, t, k, fields), HSet(a, t, k, fields), d, t)
<1> DEFINE bad == OrWrongType(d, t, k, KindHash)
           e   == Created(d, t, k, KindHash, EmptyMap)
           v   == Put(e.val, fields)
<1>0. /\ OrWrongType(a, t, k, KindHash) <=> bad
      /\ Created(a, t, k, KindHash, EmptyMap) = e
  BY SameLookup
<1>1. CASE bad
  BY <1>0, <1>1, Unchanged DEF HSet
<1>2. CASE ~bad
  <2>0. IsMap(e.val, Str, Str)
    BY <1>2, CreatedGood, EmptyPayloads, PayloadByKind
  <2>1. IsPayload(KindHash, v) /\ DOMAIN v # {}
    <3>1. IsMap(v, Str, Str) /\ DOMAIN v = DOMAIN e.val \cup DOMAIN fields
      BY <2>0, MapPut
    <3> QED BY <3>1, PayloadByKind
  <2> HIDE DEF v
  <2> QED BY <1>0, <1>2, <2>1, Grown, EmptyPayloads, NonEmptyByKind, NotErrors DEF HSet, v
<1> QED BY <1>1, <1>2

\* Store.HDel is sound: the last field takes the key with it.
LEMMA HDelSound ==
    ASSUME NEW d, NEW a, WellFormed(d), WellFormed(a), NEW t, Agree(d, a, t), NEW k, NEW fields
    PROVE  Sound(HDel(d, t, k, fields), HDel(a, t, k, fields), d, t)
<1> DEFINE bad == OrWrongType(d, t, k, KindHash)
           v   == Delete(d[k].val, fields)
<1>0. /\ OrWrongType(a, t, k, KindHash) <=> bad
      /\ getLocked(a, t, k) <=> getLocked(d, t, k)
      /\ getLocked(d, t, k) => d[k] = a[k]
  BY SameLookup
<1>1. CASE bad \/ ~getLocked(d, t, k)
  BY <1>0, <1>1, Unchanged DEF HDel
<1>2. CASE ~bad /\ getLocked(d, t, k)
  <2>0. d[k].kind = KindHash /\ IsMap(d[k].val, Str, Str)
    BY <1>2, LiveKind, PayloadByKind
  <2>1. /\ IsPayload(KindHash, v)
        /\ v # EmptyMap => NonEmptyEntry([kind |-> KindHash, val |-> v, expireAt |-> 0])
    <3>1. IsMap(v, Str, Str) /\ (v # EmptyMap => DOMAIN v # {})
      BY <2>0, MapDelete
    <3> QED BY <3>1, PayloadByKind, NonEmptyByKind
  <2> HIDE DEF v
  <2> QED BY <1>0, <1>2, <2>0, <2>1, ShrunkSound, NotErrors DEF HDel, v
<1> QED BY <1>1, <1>2

\* Store.HIncrBy is sound, also where it creates the hash before parsing the field.
LEMMA HIncrBySound ==
    ASSUME NEW d, NEW a, WellFormed(d), WellFormed(a), NEW t, Agree(d, a, t), NEW k \in Key,
           NEW f \in Str, NEW delta \in Int64
    PROVE  Sound(HIncrBy(d, t, k, f, delta), HIncrBy(a, t, k, f, delta), d, t)
<1> DEFINE bad  == OrWrongType(d, t, k, KindHash)
           e    == Created(d, t, k, KindHash, EmptyMap)
           cur  == IF f \in DOMAIN e.val THEN ParseInt(e.val[f]) ELSE 0
           next == Add64(cur, delta)
           v    == Put1(e.val, f, FormatInt(next))
<1>0. /\ OrWrongType(a, t, k, KindHash) <=> bad
      /\ Created(a, t, k, KindHash, EmptyMap) = e
  BY SameLookup
<1>1. CASE bad
  BY <1>0, <1>1, Unchanged DEF HIncrBy
<1>2. CASE ~bad /\ cur = NotAnInteger
  <2>1. getLocked(d, t, k) /\ getLocked(a, t, k)
    <3>1. 0 # NotAnInteger
      BY KeyspaceAssumption DEF Int64, MinInt
    <3> QED BY <3>1, <1>2, SameLookup DEF Created, EmptyMap
  <2>2. Put1(d, k, e) = d /\ Put1(a, k, e) = a
    BY <2>1, <1>0, LiveIsGood, PutAlone DEF Created
  <2> HIDE DEF cur
  <2> QED BY <1>0, <1>2, <2>2, Unchanged DEF HIncrBy, cur
<1>3. CASE ~bad /\ cur # NotAnInteger
  <2>1. IsMap(e.val, Str, Str)
    BY <1>3, CreatedGood, EmptyPayloads, PayloadByKind
  <2>2. FormatInt(next) \in Str
    <3>1. cur \in Int64
      <4>1. 0 \in Int64
        BY KeyspaceAssumption DEF Int64, MinInt
      <4> QED BY <1>3, <2>1, <4>1, StringAssumption DEF IsMap
    <3> QED BY <3>1, Add64Type, StringAssumption
  <2> DEFINE p == [x \in {f} |-> FormatInt(next)]
  <2>3. IsMap(p, Str, Str) /\ DOMAIN p = {f}
    <3>1. IsFiniteSet({f})
      BY FS_Singleton
    <3> QED BY <2>2, <3>1 DEF IsMap
  <2>4. IsPayload(KindHash, v) /\ DOMAIN v # {}
    <3>1. IsMap(v, Str, Str) /\ DOMAIN v = DOMAIN e.val \cup {f}
      <4>1. v = Put(e.val, p)
        BY DEF Put1
      <4> HIDE DEF p, e, v
      <4>2. /\ IsMap(Put(e.val, p), Str, Str)
            /\ DOMAIN Put(e.val, p) = DOMAIN e.val \cup DOMAIN p
        BY <2>1, <2>3, MapPut
      <4> QED BY <2>3, <4>1, <4>2
    <3> QED BY <3>1, PayloadByKind
  <2> HIDE DEF v, next
  <2> QED BY <1>0, <1>3, <2>4, Grown, EmptyPayloads, NonEmptyByKind, NotErrors DEF HIncrBy, v, next
<1> QED BY <1>1, <1>2, <1>3

\* Reversing keeps elements and length.
LEMMA ReversedType ==
    ASSUME NEW s \in Seq(Str)
    PROVE  Reversed(s) \in Seq(Str) /\ Len(Reversed(s)) = Len(s)
  BY DEF Reversed

\* Store.LPush is sound.
LEMMA LPushSound ==
    ASSUME NEW d, NEW a, WellFormed(d), NEW t, Agree(d, a, t), NEW k \in Key,
           NEW values \in Seq(Str), values # <<>>
    PROVE  Sound(LPush(d, t, k, values), LPush(a, t, k, values), d, t)
<1> DEFINE bad == OrWrongType(d, t, k, KindList)
           e   == Created(d, t, k, KindList, <<>>)
           v   == Reversed(values) \o e.val
<1>0. /\ OrWrongType(a, t, k, KindList) <=> bad
      /\ Created(a, t, k, KindList, <<>>) = e
  BY SameLookup
<1>1. CASE bad
  BY <1>0, <1>1, Unchanged DEF LPush
<1>2. CASE ~bad
  <2>1. e.val \in Seq(Str)
    BY <1>2, CreatedGood, EmptyPayloads, PayloadByKind
  <2>2. v \in Seq(Str) /\ v # <<>>
    BY <2>1, ReversedType
  <2>3. IsPayload(KindList, v) /\ v # <<>>
    BY <2>2, PayloadByKind
  <2> HIDE DEF v
  <2> QED BY <1>0, <1>2, <2>3, Grown, EmptyPayloads, NonEmptyByKind, NotErrors DEF LPush, v
<1> QED BY <1>1, <1>2

\* Store.RPush is sound.
LEMMA RPushSound ==
    ASSUME NEW d, NEW a, WellFormed(d), NEW t, Agree(d, a, t), NEW k \in Key,
           NEW values \in Seq(Str), values # <<>>
    PROVE  Sound(RPush(d, t, k, values), RPush(a, t, k, values), d, t)
<1> DEFINE bad == OrWrongType(d, t, k, KindList)
           e   == Created(d, t, k, KindList, <<>>)
           v   == e.val \o values
<1>0. /\ OrWrongType(a, t, k, KindList) <=> bad
      /\ Created(a, t, k, KindList, <<>>) = e
  BY SameLookup
<1>1. CASE bad
  BY <1>0, <1>1, Unchanged DEF RPush
<1>2. CASE ~bad
  <2>1. e.val \in Seq(Str)
    BY <1>2, CreatedGood, EmptyPayloads, PayloadByKind
  <2>2. v \in Seq(Str) /\ v # <<>>
    BY <2>1
  <2>3. IsPayload(KindList, v) /\ v # <<>>
    BY <2>2, PayloadByKind
  <2> HIDE DEF v
  <2> QED BY <1>0, <1>2, <2>3, Grown, EmptyPayloads, NonEmptyByKind, NotErrors DEF RPush, v
<1> QED BY <1>1, <1>2

\* Store.LPop is sound: the last element takes the key with it.
LEMMA LPopSound ==
    ASSUME NEW d, NEW a, WellFormed(d), WellFormed(a), NEW t, Agree(d, a, t), NEW k
    PROVE  Sound(LPop(d, t, k), LPop(a, t, k), d, t)
<1> DEFINE bad == OrWrongType(d, t, k, KindList)
           v   == Tail(d[k].val)
<1>0. /\ OrWrongType(a, t, k, KindList) <=> bad
      /\ getLocked(a, t, k) <=> getLocked(d, t, k)
      /\ getLocked(d, t, k) => d[k] = a[k]
  BY SameLookup
<1>1. CASE bad \/ ~getLocked(d, t, k) \/ d[k].val = <<>>
  BY <1>0, <1>1, Unchanged DEF LPop
<1>2. CASE ~bad /\ getLocked(d, t, k) /\ d[k].val # <<>>
  <2>1. d[k].kind = KindList /\ d[k].val \in Seq(Str)
    BY <1>2, LiveKind, PayloadByKind
  <2>2. v \in Seq(Str)
    BY <1>2, <2>1
  <2>3. /\ IsPayload(KindList, v)
        /\ v # <<>> => NonEmptyEntry([kind |-> KindList, val |-> v, expireAt |-> 0])
    BY <2>2, PayloadByKind, NonEmptyByKind
  <2> HIDE DEF v
  <2> QED BY <1>0, <1>2, <2>1, <2>3, ShrunkSound, NotErrors DEF LPop, v
<1> QED BY <1>1, <1>2

\* Store.RPop is sound: the last element takes the key with it.
LEMMA RPopSound ==
    ASSUME NEW d, NEW a, WellFormed(d), WellFormed(a), NEW t, Agree(d, a, t), NEW k
    PROVE  Sound(RPop(d, t, k), RPop(a, t, k), d, t)
<1> DEFINE bad == OrWrongType(d, t, k, KindList)
           n   == Len(d[k].val)
           v   == SubSeq(d[k].val, 1, n - 1)
<1>0. /\ OrWrongType(a, t, k, KindList) <=> bad
      /\ getLocked(a, t, k) <=> getLocked(d, t, k)
      /\ getLocked(d, t, k) => d[k] = a[k]
  BY SameLookup
<1>1. CASE bad \/ ~getLocked(d, t, k) \/ d[k].val = <<>>
  BY <1>0, <1>1, Unchanged DEF RPop
<1>2. CASE ~bad /\ getLocked(d, t, k) /\ d[k].val # <<>>
  <2>1. d[k].kind = KindList /\ d[k].val \in Seq(Str)
    BY <1>2, LiveKind, PayloadByKind
  <2>2. v \in Seq(Str)
    BY <1>2, <2>1
  <2>3. /\ IsPayload(KindList, v)
        /\ v # <<>> => NonEmptyEntry([kind |-> KindList, val |-> v, expireAt |-> 0])
    BY <2>2, PayloadByKind, NonEmptyByKind
  <2> HIDE DEF v
  <2> QED BY <1>0, <1>2, <2>1, <2>3, ShrunkSound, NotErrors DEF RPop, v
<1> QED BY <1>1, <1>2

\* Store.SAdd is sound.
LEMMA SAddSound ==
    ASSUME NEW d, NEW a, WellFormed(d), NEW t, Agree(d, a, t), NEW k \in Key,
           NEW members \in SUBSET Str, members # {}, IsFiniteSet(members)
    PROVE  Sound(SAdd(d, t, k, members), SAdd(a, t, k, members), d, t)
<1> DEFINE bad == OrWrongType(d, t, k, KindSet)
           e   == Created(d, t, k, KindSet, {})
           v   == e.val \cup members
<1>0. /\ OrWrongType(a, t, k, KindSet) <=> bad
      /\ Created(a, t, k, KindSet, {}) = e
  BY SameLookup
<1>1. CASE bad
  BY <1>0, <1>1, Unchanged DEF SAdd
<1>2. CASE ~bad
  <2>1. /\ e.val \subseteq Str /\ IsFiniteSet(e.val)
        /\ e = [kind |-> KindSet, val |-> e.val, expireAt |-> e.expireAt]
    BY <1>2, CreatedGood, EmptyPayloads, PayloadByKind
  <2>2. IsPayload(KindSet, v) /\ v # {}
    BY <2>1, PayloadByKind, FS_Union
  <2> HIDE DEF v
  <2> QED BY <1>0, <1>2, <2>1, <2>2, Grown, EmptyPayloads, NonEmptyByKind, NotErrors DEF SAdd, v
<1> QED BY <1>1, <1>2

\* Store.SRem is sound: the last member takes the key with it.
LEMMA SRemSound ==
    ASSUME NEW d, NEW a, WellFormed(d), WellFormed(a), NEW t, Agree(d, a, t), NEW k, NEW members
    PROVE  Sound(SRem(d, t, k, members), SRem(a, t, k, members), d, t)
<1> DEFINE bad == OrWrongType(d, t, k, KindSet)
           v   == d[k].val \ members
<1>0. /\ OrWrongType(a, t, k, KindSet) <=> bad
      /\ getLocked(a, t, k) <=> getLocked(d, t, k)
      /\ getLocked(d, t, k) => d[k] = a[k]
  BY SameLookup
<1>1. CASE bad \/ ~getLocked(d, t, k)
  BY <1>0, <1>1, Unchanged DEF SRem
<1>2. CASE ~bad /\ getLocked(d, t, k)
  <2>1. d[k].kind = KindSet /\ d[k].val \subseteq Str /\ IsFiniteSet(d[k].val)
    BY <1>2, LiveKind, PayloadByKind
  <2>2. /\ IsPayload(KindSet, v)
        /\ v # {} => NonEmptyEntry([kind |-> KindSet, val |-> v, expireAt |-> 0])
    BY <2>1, PayloadByKind, NonEmptyByKind, FS_Difference
  <2> HIDE DEF v
  <2> QED BY <1>0, <1>2, <2>1, <2>2, ShrunkSound, NotErrors DEF SRem, v
<1> QED BY <1>1, <1>2

\* Store.ZAdd is sound.
LEMMA ZAddSound ==
    ASSUME NEW d, NEW a, WellFormed(d), NEW t, Agree(d, a, t), NEW k \in Key,
           NEW scores, IsMap(scores, Str, Score), DOMAIN scores # {}
    PROVE  Sound(ZAdd(d, t, k, scores), ZAdd(a, t, k, scores), d, t)
<1> DEFINE bad == OrWrongType(d, t, k, KindZSet)
           e   == Created(d, t, k, KindZSet, EmptyMap)
           v   == Put(e.val, scores)
<1>0. /\ OrWrongType(a, t, k, KindZSet) <=> bad
      /\ Created(a, t, k, KindZSet, EmptyMap) = e
  BY SameLookup
<1>1. CASE bad
  BY <1>0, <1>1, Unchanged DEF ZAdd
<1>2. CASE ~bad
  <2>1. IsMap(e.val, Str, Score)
    BY <1>2, CreatedGood, EmptyPayloads, PayloadByKind
  <2>2. IsPayload(KindZSet, v) /\ DOMAIN v # {}
    <3>1. IsMap(v, Str, Score) /\ DOMAIN v = DOMAIN e.val \cup DOMAIN scores
      BY <2>1, MapPut
    <3> QED BY <3>1, PayloadByKind
  <2> HIDE DEF v
  <2> QED BY <1>0, <1>2, <2>2, Grown, EmptyPayloads, NonEmptyByKind, NotErrors DEF ZAdd, v
<1> QED BY <1>1, <1>2

\* Store.ZRem is sound: the last member takes the key with it.
LEMMA ZRemSound ==
    ASSUME NEW d, NEW a, WellFormed(d), WellFormed(a), NEW t, Agree(d, a, t), NEW k, NEW members
    PROVE  Sound(ZRem(d, t, k, members), ZRem(a, t, k, members), d, t)
<1> DEFINE bad == OrWrongType(d, t, k, KindZSet)
           v   == Delete(d[k].val, members)
<1>0. /\ OrWrongType(a, t, k, KindZSet) <=> bad
      /\ getLocked(a, t, k) <=> getLocked(d, t, k)
      /\ getLocked(d, t, k) => d[k] = a[k]
  BY SameLookup
<1>1. CASE bad \/ ~getLocked(d, t, k)
  BY <1>0, <1>1, Unchanged DEF ZRem
<1>2. CASE ~bad /\ getLocked(d, t, k)
  <2>1. d[k].kind = KindZSet /\ IsMap(d[k].val, Str, Score)
    BY <1>2, LiveKind, PayloadByKind
  <2>2. /\ IsPayload(KindZSet, v)
        /\ v # EmptyMap => NonEmptyEntry([kind |-> KindZSet, val |-> v, expireAt |-> 0])
    <3>1. IsMap(v, Str, Score) /\ (v # EmptyMap => DOMAIN v # {})
      BY <2>1, MapDelete
    <3> QED BY <3>1, PayloadByKind, NonEmptyByKind
  <2> HIDE DEF v
  <2> QED BY <1>0, <1>2, <2>1, <2>2, ShrunkSound, NotErrors DEF ZRem, v
<1> QED BY <1>1, <1>2

\* The methods that look at several keys, or at deadlines, are sound: they reply the same
\* on keyspaces that agree.
LEMMA ReadsSound ==
    ASSUME NEW d, NEW a, WellFormed(d), NEW t, Agree(d, a, t),
           NEW k, NEW later, NEW matching
    PROVE  /\ Sound(Result(d, ttl(d, t, later, k)), Result(a, ttl(a, t, later, k)), d, t)
           /\ Sound(Result(d, Type(d, t, k)), Result(a, Type(a, t, k)), d, t)
           /\ Sound(Result(d, Keys(d, t, matching)), Result(a, Keys(a, t, matching)), d, t)
           /\ Sound(Result(d, DBSize(d, t)), Result(a, DBSize(a, t)), d, t)
<1>2. ttl(d, t, later, k) = ttl(a, t, later, k)
  BY SameLookup DEF ttl
<1>3. Type(d, t, k) = Type(a, t, k)
  BY SameLookup DEF Type
<1>4. Keys(d, t, matching) = Keys(a, t, matching)
  <2>1. {x \in DOMAIN d \cap matching : ~expired(d[x], t)} = {x \in DOMAIN a \cap matching : ~expired(a[x], t)}
    BY DEF Agree, getLocked
  <2> QED BY <2>1 DEF Keys
<1>6. DBSize(d, t) = DBSize(a, t)
  <2>1. {x \in DOMAIN d : ~expired(d[x], t)} = {x \in DOMAIN a : ~expired(a[x], t)}
    BY DEF Agree, getLocked
  <2> QED BY <2>1 DEF DBSize
<1> QED BY <1>2, <1>3, <1>4, <1>6, Unchanged

\* So are the two that read the clock for each of their keys.
LEMMA ReadsOfKeysSound ==
    ASSUME NEW d, NEW a, WellFormed(d), WellFormed(a), NEW t \in Int, Agree(d, a, t),
           NEW args, NEW late \in [DOMAIN args -> Nat]
    PROVE  /\ Sound(Result(d, Exists(d, t, args, late)), Result(a, Exists(a, t, args, late)), d, t)
           /\ Sound(Result(d, MGet(d, t, args, late)), Result(a, MGet(a, t, args, late)), d, t)
<1>1. ASSUME NEW i \in DOMAIN args
      PROVE  /\ getLocked(d, t + late[i], args[i]) <=> getLocked(a, t + late[i], args[i])
             /\ getLocked(d, t + late[i], args[i]) => d[args[i]] = a[args[i]]
  BY LaterLookup
<1>2. Exists(d, t, args, late) = Exists(a, t, args, late)
  <2>1. {i \in DOMAIN args : getLocked(d, t + late[i], args[i])}
            = {i \in DOMAIN args : getLocked(a, t + late[i], args[i])}
    BY <1>1
  <2> QED BY <2>1 DEF Exists
<1>3. MGet(d, t, args, late) = MGet(a, t, args, late)
  BY <1>1 DEF MGet
<1> QED BY <1>2, <1>3, Unchanged

\* The reading methods of string.go are sound.
LEMMA StringReadsSound ==
    ASSUME NEW d, NEW a, WellFormed(d), NEW t, Agree(d, a, t), NEW k
    PROVE  /\ Sound(Result(d, Get(d, t, k)), Result(a, Get(a, t, k)), d, t)
           /\ Sound(Result(d, StrLen(d, t, k)), Result(a, StrLen(a, t, k)), d, t)
<1>1. Get(d, t, k) = Get(a, t, k)
  BY SameLookup DEF Get, Reading
<1>2. StrLen(d, t, k) = StrLen(a, t, k)
  BY SameLookup DEF StrLen, Reading
<1> QED BY <1>1, <1>2, Unchanged

\* The reading methods of hash.go are sound.
LEMMA HashReadsSound ==
    ASSUME NEW d, NEW a, WellFormed(d), NEW t, Agree(d, a, t), NEW k, NEW f, NEW args
    PROVE  /\ Sound(Result(d, HGet(d, t, k, f)), Result(a, HGet(a, t, k, f)), d, t)
           /\ Sound(Result(d, HMGet(d, t, k, args)), Result(a, HMGet(a, t, k, args)), d, t)
           /\ Sound(Result(d, HGetAll(d, t, k)), Result(a, HGetAll(a, t, k)), d, t)
           /\ Sound(Result(d, HExists(d, t, k, f)), Result(a, HExists(a, t, k, f)), d, t)
           /\ Sound(Result(d, HLen(d, t, k)), Result(a, HLen(a, t, k)), d, t)
           /\ Sound(Result(d, HKeys(d, t, k)), Result(a, HKeys(a, t, k)), d, t)
           /\ Sound(Result(d, HVals(d, t, k)), Result(a, HVals(a, t, k)), d, t)
<1>1. HGet(d, t, k, f) = HGet(a, t, k, f)
  BY SameLookup DEF HGet, Reading
<1>2. HMGet(d, t, k, args) = HMGet(a, t, k, args)
  BY SameLookup DEF HMGet, Reading
<1>3. HGetAll(d, t, k) = HGetAll(a, t, k)
  BY SameLookup DEF HGetAll, Reading
<1>4. HExists(d, t, k, f) = HExists(a, t, k, f)
  BY SameLookup DEF HExists, Reading
<1>5. HLen(d, t, k) = HLen(a, t, k)
  BY SameLookup DEF HLen, Reading
<1>6. HKeys(d, t, k) = HKeys(a, t, k)
  BY SameLookup DEF HKeys, Reading
<1>7. HVals(d, t, k) = HVals(a, t, k)
  BY SameLookup DEF HVals, Reading
<1> QED BY <1>1, <1>2, <1>3, <1>4, <1>5, <1>6, <1>7, Unchanged

\* The reading methods of list.go are sound.
LEMMA ListReadsSound ==
    ASSUME NEW d, NEW a, WellFormed(d), NEW t, Agree(d, a, t), NEW k, NEW i, NEW j
    PROVE  /\ Sound(Result(d, LLen(d, t, k)), Result(a, LLen(a, t, k)), d, t)
           /\ Sound(Result(d, LIndex(d, t, k, i)), Result(a, LIndex(a, t, k, i)), d, t)
           /\ Sound(Result(d, LRange(d, t, k, i, j)), Result(a, LRange(a, t, k, i, j)), d, t)
<1>1. LLen(d, t, k) = LLen(a, t, k)
  BY SameLookup DEF LLen, Reading
<1>2. LIndex(d, t, k, i) = LIndex(a, t, k, i)
  BY SameLookup DEF LIndex, Reading
<1>3. LRange(d, t, k, i, j) = LRange(a, t, k, i, j)
  BY SameLookup DEF LRange, Reading
<1> QED BY <1>1, <1>2, <1>3, Unchanged

\* The reading methods of set.go are sound.
LEMMA SetReadsSound ==
    ASSUME NEW d, NEW a, WellFormed(d), NEW t, Agree(d, a, t), NEW k, NEW m
    PROVE  /\ Sound(Result(d, SMembers(d, t, k)), Result(a, SMembers(a, t, k)), d, t)
           /\ Sound(Result(d, SIsMember(d, t, k, m)), Result(a, SIsMember(a, t, k, m)), d, t)
           /\ Sound(Result(d, SCard(d, t, k)), Result(a, SCard(a, t, k)), d, t)
<1>1. SMembers(d, t, k) = SMembers(a, t, k)
  BY SameLookup DEF SMembers, Reading
<1>2. SIsMember(d, t, k, m) = SIsMember(a, t, k, m)
  BY SameLookup DEF SIsMember, Reading
<1>3. SCard(d, t, k) = SCard(a, t, k)
  BY SameLookup DEF SCard, Reading
<1> QED BY <1>1, <1>2, <1>3, Unchanged

\* The reading methods of zset.go are sound.
LEMMA ZSetReadsSound ==
    ASSUME NEW d, NEW a, WellFormed(d), NEW t, Agree(d, a, t), NEW k, NEW m, NEW i, NEW j
    PROVE  /\ Sound(Result(d, ZScore(d, t, k, m)), Result(a, ZScore(a, t, k, m)), d, t)
           /\ Sound(Result(d, ZCard(d, t, k)), Result(a, ZCard(a, t, k)), d, t)
           /\ Sound(Result(d, ZRank(d, t, k, m)), Result(a, ZRank(a, t, k, m)), d, t)
           /\ Sound(Result(d, ZRange(d, t, k, i, j)), Result(a, ZRange(a, t, k, i, j)), d, t)
<1>1. ZScore(d, t, k, m) = ZScore(a, t, k, m)
  BY SameLookup DEF ZScore, Reading
<1>2. ZCard(d, t, k) = ZCard(a, t, k)
  BY SameLookup DEF ZCard, Reading
<1>3. ZRank(d, t, k, m) = ZRank(a, t, k, m)
  BY SameLookup DEF ZRank, Reading
<1>4. ZRange(d, t, k, i, j) = ZRange(a, t, k, i, j)
  BY SameLookup DEF ZRange, Reading
<1> QED BY <1>1, <1>2, <1>3, <1>4, Unchanged

\* The positions from lo to hi of a sequence, counted from 0, as the sequence of their elements.
Between(s, lo, hi) == [x \in 1 .. hi - lo + 1 |-> s[lo + x]]

\* An empty range has no elements.
LEMMA EmptyBetween ==
    ASSUME NEW s, NEW lo \in Int, NEW hi \in Int, lo > hi
    PROVE  Between(s, lo, hi) = <<>>
<1>1. 1 .. hi - lo + 1 = {}
  OBVIOUS
<1> QED BY <1>1 DEF Between

\* The same index, counted from 1.
LEMMA ShiftedIndex ==
    ASSUME NEW lo \in Int, NEW hi \in Int, NEW x \in 1 .. hi - lo + 1
    PROVE  x \in 1 .. (hi + 1) - (lo + 1) + 1 /\ (lo + 1) + x - 1 = lo + x
  OBVIOUS

\* The body of LRange and ZRange: the elements between the two clamped ends, up to
\* the last one.
LEMMA SliceIs ==
    ASSUME NEW S, NEW s \in Seq(S), NEW i \in Int, NEW j \in Int,
           NEW lo, lo = clampIndex(i, Len(s)), NEW hi,
           hi = IF clampIndex(j, Len(s)) > Len(s) - 1 THEN Len(s) - 1 ELSE clampIndex(j, Len(s))
    PROVE  Slice(s, i, j) = Between(s, lo, hi)
<1> DEFINE n == Len(s)
<1>1. n \in Nat /\ lo \in Nat /\ hi \in Int /\ hi <= n - 1
  BY DEF clampIndex
<1>2. clampIndex(i, n) = lo /\ hi = IF clampIndex(j, n) >= n THEN n - 1 ELSE clampIndex(j, n)
  BY <1>1 DEF clampIndex
<1>3. CASE lo > hi
  <2>1. Slice(s, i, j) = <<>>
    BY <1>2, <1>3 DEF Slice
  <2> QED BY <1>1, <1>3, <2>1, EmptyBetween
<1>4. CASE ~(lo > hi)
  <2> DEFINE r == SubSeq(s, lo + 1, hi + 1)
  <2>1. lo < n /\ n > 0 /\ lo + 1 \in Int /\ hi + 1 \in Int
    BY <1>1, <1>4
  <2>2. ~(lo > hi \/ lo >= n \/ n = 0)
    BY <1>1, <1>4, <2>1
  <2>3. Slice(s, i, j) = r
    BY <1>2, <2>2 DEF Slice
  <2>4. \A x \in lo + 1 .. hi + 1 : s[x] \in S
    BY <1>1, <2>1, LenProperties
  <2>5. /\ r \in Seq(S)
        /\ Len(r) = IF lo + 1 <= hi + 1 THEN (hi + 1) - (lo + 1) + 1 ELSE 0
        /\ \A x \in 1 .. (hi + 1) - (lo + 1) + 1 : r[x] = s[(lo + 1) + x - 1]
    BY <2>1, <2>4, SubSeqProperties
  <2> HIDE DEF r
  <2>6. Len(r) = hi - lo + 1 /\ r = [x \in 1 .. Len(r) |-> r[x]]
    BY <1>1, <1>4, <2>5, LenProperties
  <2>7. \A x \in 1 .. hi - lo + 1 : r[x] = s[lo + x]
    <3> SUFFICES ASSUME NEW x \in 1 .. hi - lo + 1 PROVE r[x] = s[lo + x]
      OBVIOUS
    <3>1. lo \in Int /\ hi \in Int
      BY <1>1
    <3>2. x \in 1 .. (hi + 1) - (lo + 1) + 1 /\ (lo + 1) + x - 1 = lo + x
      BY <3>1, ShiftedIndex, Zenon
    <3> QED BY <2>5, <3>2, Zenon
  <2> QED BY <2>3, <2>6, <2>7 DEF Between
<1> QED BY <1>3, <1>4

\* What the members of NonEmptyMap are.
LEMMA NonEmptyMapIs ==
    ASSUME NEW S, NEW T, NEW f \in NonEmptyMap(S, T)
    PROVE  IsMap(f, S, T) /\ DOMAIN f # {}
  BY DEF NonEmptyMap, NonEmpty, IsMap

\* What the members of UpTo2 are.
LEMMA UpTo2Is ==
    ASSUME NEW S, NEW s \in UpTo2(S)
    PROVE  s \in Seq(S) /\ s # <<>>
<1>1. CASE \E x \in S : s = <<x>>
  BY <1>1
<1>2. CASE \E x, y \in S : s = <<x, y>>
  BY <1>2
<1> QED BY <1>1, <1>2 DEF UpTo2

\* What the members of DelOf are.
LEMMA DelOfIs ==
    ASSUME NEW ks, NEW c \in DelOf(ks)
    PROVE  c.op = "DEL" /\ c.keys = ks /\ c.took \in Took /\ c.late \in [ks -> 0 .. c.took]
<1>1. PICK t \in Took : c \in [op : {"DEL"}, keys : {ks}, took : {t}, late : [ks -> 0 .. t]]
  BY DEF DelOf
<1> QED BY <1>1

\* What the members of ReadOf are.
LEMMA ReadOfIs ==
    ASSUME NEW op, NEW a, NEW c \in ReadOf(op, a)
    PROVE  c.op = op /\ c.args = a /\ c.took \in Took /\ c.late \in Readings(Len(a), c.took)
<1>1. PICK t \in Took : c \in [op : {op}, args : {a}, took : {t}, late : Readings(Len(a), t)]
  BY DEF ReadOf
<1> QED BY <1>1

\* The commands that read the clock repeatedly, and how long they take.
LEMMA ClockReads ==
    ASSUME NEW c \in Command
    PROVE  /\ c.op = "DEL" => c.keys \in NonEmpty(Key) /\ c.took \in Took /\ c.late \in [c.keys -> 0 .. c.took]
           /\ c.op \in {"EXISTS", "MGET"} =>
                c.args \in UpTo2(Key) /\ c.took \in Took /\ c.late \in Readings(Len(c.args), c.took)
           /\ c.op = "TTL" => c.took \in Took
<1>1. \/ \E ks \in NonEmpty(Key) : c \in DelOf(ks)
      \/ \E a \in UpTo2(Key) : c \in ReadOf("EXISTS", a) \/ c \in ReadOf("MGET", a)
      \/ c.op = "TTL" /\ c.took \in Took
      \/ c.op \notin {"DEL", "EXISTS", "MGET", "TTL"}
  <2>1. CASE c \in genericCommands
    BY <2>1 DEF genericCommands
  <2>2. CASE c \in stringCommands
    BY <2>2 DEF stringCommands
  <2>3. CASE c \notin genericCommands \cup stringCommands
    BY <2>3 DEF Command, hashCommands, listCommands, setCommands, zsetCommands, serverCommands
  <2> QED BY <2>1, <2>2, <2>3
<1> QED BY <1>1, DelOfIs, ReadOfIs

\* Every reading is at or after the first.
LEMMA ReadingsAfter ==
    ASSUME NEW c \in Command
    PROVE  /\ c.op = "DEL" => c.late \in [c.keys -> Nat]
           /\ c.op \in {"EXISTS", "MGET"} => c.late \in [DOMAIN c.args -> Nat]
           /\ Elapsed(c) \in Nat
<1>1. ASSUME NEW t \in Took PROVE t \in Nat /\ 0 .. t \subseteq Nat
  BY CommandsAssumption
<1>2. c.op = "DEL" => c.late \in [c.keys -> Nat]
  BY <1>1, ClockReads
<1>3. ASSUME c.op \in {"EXISTS", "MGET"} PROVE c.late \in [DOMAIN c.args -> Nat]
  <2>1. /\ c.args \in Seq(Key) /\ c.took \in Took
        /\ c.late \in [1 .. Len(c.args) -> 0 .. c.took]
    BY <1>3, ClockReads, UpTo2Is DEF Readings
  <2> QED BY <1>1, <2>1
<1>4. Elapsed(c) \in Nat
  BY <1>1, ClockReads DEF Elapsed
<1> QED BY <1>2, <1>3, <1>4

\* The commands of generic.go are sound.
LEMMA GenericSound ==
    ASSUME NEW d, NEW a, WellFormed(d), WellFormed(a), NEW t \in Int, Agree(d, a, t), NEW c \in genericCommands
    PROVE  Sound(Apply(d, t, c), Apply(a, t, c), d, t)
<1>1. \/ c.op = "DEL" \/ c.op = "EXISTS"
      \/ c.op = "EXPIRE" /\ c.ttl \in TTL
      \/ c.op = "TTL" \/ c.op = "PERSIST" \/ c.op = "TYPE" \/ c.op = "KEYS"
      \/ c.op = "RENAME" /\ c.dst \in Key
  BY DelOfIs, ReadOfIs DEF genericCommands
<1>0. c \in Command
  BY DEF Command
<1>2. CASE c.op = "DEL"
  BY <1>0, <1>2, DelSound, ReadingsAfter DEF Apply
<1>3. CASE c.op = "EXPIRE" /\ c.ttl \in TTL
  <2>1. t + c.ttl \in Int
    <3>1. c.ttl \in Int
      BY <1>3, CommandsAssumption, Zenon
    <3> QED BY <3>1
  <2> QED BY <1>3, <2>1, ExpireAtSound DEF Apply, Expire
<1>4. CASE c.op = "PERSIST"
  BY <1>4, PersistSound DEF Apply
<1>5. CASE c.op = "RENAME" /\ c.dst \in Key
  BY <1>5, RenameSound DEF Apply
<1>6. CASE c.op \in {"TTL", "TYPE", "KEYS"}
  BY <1>6, ReadsSound DEF Apply
<1>7. CASE c.op = "EXISTS"
  BY <1>0, <1>7, ReadsOfKeysSound, ReadingsAfter DEF Apply
<1> QED BY <1>1, <1>2, <1>3, <1>4, <1>5, <1>6, <1>7

\* The commands of strings.go are sound.
LEMMA StringSound ==
    ASSUME NEW d, NEW a, WellFormed(d), WellFormed(a), NEW t \in Int, Agree(d, a, t), NEW c \in stringCommands
    PROVE  Sound(Apply(d, t, c), Apply(a, t, c), d, t)
<1>1. \/ c.op = "SET" /\ c.key \in Key /\ c.val \in Value /\ c.opts \in Options
      \/ c.op \in {"GETSET", "APPEND"} /\ c.key \in Key /\ c.val \in Value
      \/ c.op = "MSET" /\ c.pairs \in NonEmptyMap(Key, Value)
      \/ c.op \in {"INCRBY", "DECRBY"} /\ c.key \in Key /\ c.delta \in Delta
      \/ c.op \in {"MGET", "GET", "STRLEN"}
  BY ReadOfIs DEF stringCommands
<1>2. CASE c.op = "SET" /\ c.key \in Key /\ c.val \in Value /\ c.opts \in Options
  BY <1>2, SetSound, CommandsAssumption DEF Apply
<1>3. CASE c.op \in {"GETSET", "APPEND"} /\ c.key \in Key /\ c.val \in Value
  BY <1>3, GetSetSound, StrAppendSound, CommandsAssumption DEF Apply
<1>4. CASE c.op = "MSET" /\ c.pairs \in NonEmptyMap(Key, Value)
  <2>1. DOMAIN c.pairs \subseteq Key /\ \A k \in DOMAIN c.pairs : c.pairs[k] \in Str
    BY <1>4, NonEmptyMapIs, CommandsAssumption DEF IsMap
  <2> QED BY <1>4, <2>1, MSetSound DEF Apply
<1>5. CASE c.op \in {"INCRBY", "DECRBY"} /\ c.key \in Key /\ c.delta \in Delta
  <2>1. c.delta \in Int64 /\ Neg64(c.delta) \in Int64
    BY <1>5, CommandsAssumption, Neg64Type
  <2> QED BY <1>5, <2>1, IncrBySound DEF Apply
<1>6. CASE c.op \in {"GET", "STRLEN"}
  BY <1>6, StringReadsSound DEF Apply
<1>7. CASE c.op = "MGET"
  <2>1. c \in Command
    BY DEF Command
  <2> QED BY <1>7, <2>1, ReadsOfKeysSound, ReadingsAfter DEF Apply
<1> QED BY <1>1, <1>2, <1>3, <1>4, <1>5, <1>6, <1>7

\* The commands of hashes.go are sound.
LEMMA HashSound ==
    ASSUME NEW d, NEW a, WellFormed(d), WellFormed(a), NEW t \in Int, Agree(d, a, t), NEW c \in hashCommands
    PROVE  Sound(Apply(d, t, c), Apply(a, t, c), d, t)
<1>1. \/ c.op = "HSET" /\ c.key \in Key /\ c.fields \in NonEmptyMap(Field, Value)
      \/ c.op = "HDEL"
      \/ c.op = "HINCRBY" /\ c.key \in Key /\ c.field \in Field /\ c.delta \in Delta
      \/ c.op \in {"HGETALL", "HLEN", "HKEYS", "HVALS", "HGET", "HEXISTS", "HMGET"}
  BY DEF hashCommands
<1>2. CASE c.op = "HSET" /\ c.key \in Key /\ c.fields \in NonEmptyMap(Field, Value)
  <2>1. IsMap(c.fields, Str, Str) /\ DOMAIN c.fields # {}
    BY <1>2, NonEmptyMapIs, CommandsAssumption DEF IsMap
  <2> QED BY <1>2, <2>1, HSetSound DEF Apply
<1>3. CASE c.op = "HDEL"
  BY <1>3, HDelSound DEF Apply
<1>4. CASE c.op = "HINCRBY" /\ c.key \in Key /\ c.field \in Field /\ c.delta \in Delta
  BY <1>4, HIncrBySound, CommandsAssumption DEF Apply
<1>5. CASE c.op \in {"HGETALL", "HLEN", "HKEYS", "HVALS", "HGET", "HEXISTS", "HMGET"}
  BY <1>5, HashReadsSound DEF Apply
<1> QED BY <1>1, <1>2, <1>3, <1>4, <1>5

\* The commands of lists.go are sound.
LEMMA ListSound ==
    ASSUME NEW d, NEW a, WellFormed(d), WellFormed(a), NEW t \in Int, Agree(d, a, t), NEW c \in listCommands
    PROVE  Sound(Apply(d, t, c), Apply(a, t, c), d, t)
<1>1. \/ c.op \in {"LPUSH", "RPUSH"} /\ c.key \in Key /\ c.elems \in UpTo2(Member)
      \/ c.op \in {"LPOP", "RPOP", "LLEN", "LINDEX", "LRANGE"}
  BY DEF listCommands
<1>2. CASE c.op \in {"LPUSH", "RPUSH"} /\ c.key \in Key /\ c.elems \in UpTo2(Member)
  <2>1. c.elems \in Seq(Str) /\ c.elems # <<>>
    BY <1>2, UpTo2Is, CommandsAssumption
  <2> QED BY <1>2, <2>1, LPushSound, RPushSound DEF Apply
<1>3. CASE c.op \in {"LPOP", "RPOP", "LLEN", "LINDEX", "LRANGE"}
  BY <1>3, LPopSound, RPopSound, ListReadsSound DEF Apply
<1> QED BY <1>1, <1>2, <1>3

\* The commands of sets.go are sound.
LEMMA SetsSound ==
    ASSUME NEW d, NEW a, WellFormed(d), WellFormed(a), NEW t \in Int, Agree(d, a, t), NEW c \in setCommands
    PROVE  Sound(Apply(d, t, c), Apply(a, t, c), d, t)
<1>1. \/ c.op = "SADD" /\ c.key \in Key /\ c.members \in NonEmpty(Member)
      \/ c.op \in {"SREM", "SMEMBERS", "SCARD", "SISMEMBER"}
  BY DEF setCommands
<1>2. CASE c.op = "SADD" /\ c.key \in Key /\ c.members \in NonEmpty(Member)
  <2>1. c.members \in SUBSET Str /\ c.members # {} /\ IsFiniteSet(c.members)
    BY <1>2, CommandsAssumption DEF NonEmpty
  <2> QED BY <1>2, <2>1, SAddSound DEF Apply
<1>3. CASE c.op \in {"SREM", "SMEMBERS", "SCARD", "SISMEMBER"}
  BY <1>3, SRemSound, SetReadsSound DEF Apply
<1> QED BY <1>1, <1>2, <1>3

\* The commands of zsets.go are sound.
LEMMA ZSetSound ==
    ASSUME NEW d, NEW a, WellFormed(d), WellFormed(a), NEW t \in Int, Agree(d, a, t), NEW c \in zsetCommands
    PROVE  Sound(Apply(d, t, c), Apply(a, t, c), d, t)
<1>1. \/ c.op = "ZADD" /\ c.key \in Key /\ c.scores \in NonEmptyMap(Member, Score)
      \/ c.op \in {"ZREM", "ZCARD", "ZSCORE", "ZRANK", "ZRANGE"}
  BY DEF zsetCommands
<1>2. CASE c.op = "ZADD" /\ c.key \in Key /\ c.scores \in NonEmptyMap(Member, Score)
  <2>1. IsMap(c.scores, Str, Score) /\ DOMAIN c.scores # {}
    BY <1>2, NonEmptyMapIs, CommandsAssumption DEF IsMap
  <2> QED BY <1>2, <2>1, ZAddSound DEF Apply
<1>3. CASE c.op \in {"ZREM", "ZCARD", "ZSCORE", "ZRANK", "ZRANGE"}
  BY <1>3, ZRemSound, ZSetReadsSound DEF Apply
<1> QED BY <1>1, <1>2, <1>3

\* The commands of server.go are sound.
LEMMA ServerSound ==
    ASSUME NEW d, NEW a, WellFormed(d), WellFormed(a), NEW t \in Int, Agree(d, a, t), NEW c \in serverCommands
    PROVE  Sound(Apply(d, t, c), Apply(a, t, c), d, t)
<1>1. c.op \in {"FLUSHALL", "DBSIZE"}
  BY DEF serverCommands
<1> QED BY <1>1, FlushAllSound, ReadsSound DEF Apply

\* Every command is sound: on a well-formed keyspace it leaves a well-formed one, an
\* error leaves no trace, and expired leftovers influence neither the reply nor what
\* a later command can see.
LEMMA ApplySound ==
    ASSUME NEW d, NEW a, WellFormed(d), WellFormed(a), NEW t \in Int, Agree(d, a, t), NEW c \in Command
    PROVE  Sound(Apply(d, t, c), Apply(a, t, c), d, t)
  BY GenericSound, StringSound, HashSound, ListSound, SetsSound, ZSetSound, ServerSound DEF Command

\* A command without the Write flag leaves the map alone.
LEMMA ReadsLeaveData ==
    ASSUME NEW d, NEW t, NEW c \in Command, c.op \notin Write
    PROVE  Apply(d, t, c).data = d
<1>1. c.op \in {"EXISTS", "TTL", "TYPE", "KEYS", "MGET", "GET", "STRLEN", "HGETALL", "HLEN",
               "HKEYS", "HVALS", "HGET", "HEXISTS", "HMGET", "LLEN", "LINDEX", "LRANGE", "SMEMBERS",
               "SCARD", "SISMEMBER", "ZCARD", "ZSCORE", "ZRANK", "ZRANGE", "DBSIZE"}
  <2>1. CASE c \in genericCommands \cup stringCommands
    BY <2>1, DelOfIs, ReadOfIs DEF genericCommands, stringCommands, Write
  <2>2. CASE c \notin genericCommands \cup stringCommands
    BY <2>2 DEF Command, hashCommands, listCommands, setCommands, zsetCommands, serverCommands, Write
  <2> QED BY <2>1, <2>2
<1> QED BY <1>1 DEF Apply, Result

-----------------------------------------------------------------------------
(* The order of a sorted set.                                              *)

\* The members that sort.Slice puts before m.
Before(z, m) == {o \in DOMAIN z : Less(z, o, m)}

\* The less function of zset.go is a strict total order of the members of a sorted set.
LEMMA LessIsOrder ==
    ASSUME NEW z, IsMap(z, Str, Score), NEW m \in DOMAIN z, NEW o \in DOMAIN z, NEW p \in DOMAIN z
    PROVE  /\ ~Less(z, m, m)
           /\ m = o \/ Less(z, m, o) \/ Less(z, o, m)
           /\ Less(z, m, o) /\ Less(z, o, p) => Less(z, m, p)
<1>1. m \in Str /\ o \in Str /\ p \in Str /\ z[m] \in Int /\ z[o] \in Int /\ z[p] \in Int
  BY KeyspaceAssumption DEF IsMap
<1>2. /\ ~Precedes(m, m)
      /\ m = o \/ Precedes(m, o) \/ Precedes(o, m)
      /\ Precedes(m, o) /\ Precedes(o, p) => Precedes(m, p)
  BY <1>1, OrderAssumption, Zenon
<1> QED BY <1>1, <1>2 DEF Less

\* The number of members before m is its place, counted from 0, and grows along the order.
LEMMA BeforeGrows ==
    ASSUME NEW z, IsMap(z, Str, Score), NEW m \in DOMAIN z
    PROVE  /\ Cardinality(Before(z, m)) \in 0 .. Cardinality(DOMAIN z) - 1
           /\ \A o \in DOMAIN z : Less(z, m, o) => Cardinality(Before(z, m)) < Cardinality(Before(z, o))
           /\ \A o \in DOMAIN z : Cardinality(Before(z, m)) = Cardinality(Before(z, o)) => m = o
<1>0. IsFiniteSet(DOMAIN z) /\ \A o : Before(z, o) \in SUBSET DOMAIN z
  BY DEF IsMap, Before
<1>1. \A o : IsFiniteSet(Before(z, o)) /\ Cardinality(Before(z, o)) \in Nat
  BY <1>0, FS_Subset, FS_CardinalityType
<1>2. ASSUME NEW x \in DOMAIN z, NEW o \in DOMAIN z, Less(z, x, o)
      PROVE  Cardinality(Before(z, x)) < Cardinality(Before(z, o))
  <2>1. Before(z, x) \in SUBSET Before(z, o)
    BY <1>2, LessIsOrder DEF Before
  <2>2. x \in Before(z, o) /\ x \notin Before(z, x)
    BY <1>2, LessIsOrder DEF Before
  <2>3. Before(z, x) # Before(z, o)
    BY <2>2
  <2>4. /\ Cardinality(Before(z, x)) <= Cardinality(Before(z, o))
        /\ Cardinality(Before(z, o)) # Cardinality(Before(z, x))
    BY <1>1, <2>1, <2>3, FS_Subset
  <2> QED BY <1>1, <2>4
<1>3. Cardinality(Before(z, m)) \in 0 .. Cardinality(DOMAIN z) - 1
  <2>1. m \notin Before(z, m)
    BY LessIsOrder DEF Before
  <2>2. Before(z, m) # DOMAIN z
    BY <2>1
  <2>3. /\ Cardinality(Before(z, m)) <= Cardinality(DOMAIN z)
        /\ Cardinality(DOMAIN z) # Cardinality(Before(z, m))
    BY <1>0, <2>2, FS_Subset
  <2>4. Cardinality(DOMAIN z) \in Nat
    BY <1>0, FS_CardinalityType
  <2> QED BY <1>1, <2>3, <2>4
<1>4. ASSUME NEW o \in DOMAIN z, Cardinality(Before(z, m)) = Cardinality(Before(z, o)) PROVE m = o
  <2>1. ~Less(z, m, o) /\ ~Less(z, o, m)
    BY <1>1, <1>2, <1>4
  <2> QED BY <2>1, LessIsOrder
<1> QED BY <1>2, <1>3, <1>4

\* Every place is taken.
LEMMA PlacesTaken ==
    ASSUME NEW z, IsMap(z, Str, Score), NEW r \in 0 .. Cardinality(DOMAIN z) - 1
    PROVE  \E m \in DOMAIN z : Cardinality(Before(z, m)) = r
<1> DEFINE n     == Cardinality(DOMAIN z)
           place == [m \in DOMAIN z |-> Cardinality(Before(z, m))]
<1>1. IsFiniteSet(DOMAIN z) /\ n \in Nat
  BY FS_CardinalityType DEF IsMap
<1>2. IsFiniteSet(0 .. n - 1) /\ Cardinality(0 .. n - 1) = n
  <2>1. 0 \in Int /\ n - 1 \in Int /\ (IF 0 > n - 1 THEN 0 ELSE (n - 1) - 0 + 1) = n
    BY <1>1
  <2> QED BY <2>1, FS_Interval
<1>3. place \in Injection(DOMAIN z, 0 .. n - 1)
  <2>1. place \in [DOMAIN z -> 0 .. n - 1]
    BY BeforeGrows
  <2>2. \A m, o \in DOMAIN z : place[m] = place[o] => m = o
    BY BeforeGrows
  <2> HIDE DEF place
  <2> QED BY <2>1, <2>2 DEF Injection, IsInjective
<1>4. place \in Surjection(DOMAIN z, 0 .. n - 1)
  BY <1>2, <1>3, FS_Injection
<1>5. \A q \in 0 .. n - 1 : \E m \in DOMAIN z : place[m] = q
  BY <1>4 DEF Surjection
<1> QED BY <1>5

\* sorted puts every member at its place, and the loop of ZRank finds it there.
LEMMA SortedIs ==
    ASSUME NEW z, IsMap(z, Str, Score)
    PROVE  /\ sorted(z) \in Seq(DOMAIN z) /\ Len(sorted(z)) = Cardinality(DOMAIN z)
           /\ \A m \in DOMAIN z : /\ sorted(z)[Cardinality(Before(z, m)) + 1] = m
                                  /\ Rank(z, m) = Cardinality(Before(z, m))
<1> DEFINE n == Cardinality(DOMAIN z)
           At(i) == CHOOSE m \in DOMAIN z : Cardinality(Before(z, m)) = i - 1
<1>1. n \in Nat
  BY FS_CardinalityType DEF IsMap
<1>2. ASSUME NEW i \in 1 .. n PROVE At(i) \in DOMAIN z /\ Cardinality(Before(z, At(i))) = i - 1
  <2>1. i - 1 \in 0 .. n - 1
    BY <1>1
  <2> QED BY <2>1, PlacesTaken
<1>3. sorted(z) = [i \in 1 .. n |-> At(i)]
  BY DEF sorted, Before
<1> HIDE DEF At
<1>4. sorted(z) \in [1 .. n -> DOMAIN z]
  BY <1>2, <1>3
<1>5. sorted(z) \in Seq(DOMAIN z) /\ Len(sorted(z)) = n /\ DOMAIN sorted(z) = 1 .. n
  BY <1>1, <1>4, SeqDef, LenProperties
<1>6. ASSUME NEW m \in DOMAIN z
      PROVE  sorted(z)[Cardinality(Before(z, m)) + 1] = m /\ Rank(z, m) = Cardinality(Before(z, m))
  <2> DEFINE r == Cardinality(Before(z, m))
  <2>1. r \in 0 .. n - 1
    BY BeforeGrows
  <2>2. r + 1 \in 1 .. n /\ (r + 1) - 1 = r
    BY <1>1, <2>1
  <2>3. sorted(z)[r + 1] = m
    <3>1. At(r + 1) \in DOMAIN z /\ Cardinality(Before(z, At(r + 1))) = r
      BY <1>2, <2>2
    <3>2. At(r + 1) = m
      BY <3>1, BeforeGrows
    <3> QED BY <1>3, <2>2, <3>2
  <2>4. ASSUME NEW i \in 1 .. n, sorted(z)[i] = m PROVE i = r + 1
    <3>1. Cardinality(Before(z, m)) = i - 1
      BY <1>2, <1>3, <2>4
    <3> QED BY <2>1, <3>1
  <2> DEFINE found == CHOOSE i \in DOMAIN sorted(z) : sorted(z)[i] = m
  <2>5. found = r + 1
    BY <1>5, <2>2, <2>3, <2>4
  <2>6. Rank(z, m) = found - 1
    BY DEF Rank
  <2> HIDE DEF found, r
  <2>7. Rank(z, m) = r
    BY <2>1, <2>5, <2>6
  <2> QED BY <2>3, <2>7 DEF r
<1> QED BY <1>5, <1>6

-----------------------------------------------------------------------------
(* Keyspaces without deadlines.                                            *)

\* No key of d has a deadline.
Permanent(d) == \A k \in DOMAIN d : d[k].expireAt = 0

\* A keyspace the store may hold when nobody asked for a deadline.
Settled(d) == WellFormed(d) /\ Permanent(d)

\* Command c sets no deadline.
Timeless(c) == c.op # "EXPIRE" /\ (c.op = "SET" => ~c.opts.HasTTL)

\* The keys that a command with the Write flag reads or writes.
KeysOf(c) ==
    CASE c.op = "DEL"      -> c.keys
      [] c.op = "MSET"     -> DOMAIN c.pairs
      [] c.op = "RENAME"   -> {c.key, c.dst}
      [] c.op = "FLUSHALL" -> Key
      [] OTHER             -> {c.key}

\* d and a hold the same under the keys in K.
SameOn(d, a, K) ==
    \A k \in K : /\ k \in DOMAIN d <=> k \in DOMAIN a
                 /\ k \in DOMAIN d => d[k] = a[k]

\* x, made of d, and y, made of a, are permanent, the same on K and unchanged elsewhere.
Local(x, y, d, a, K) ==
    /\ Permanent(x)
    /\ SameOn(x, y, K)
    /\ SameOn(x, d, Key \ K)

\* Lookups of a key in K, whatever the clocks show.
LEMMA TimelessLookup ==
    ASSUME NEW d, NEW a, Permanent(d), Permanent(a), NEW K, SameOn(d, a, K), NEW k \in K,
           NEW t, NEW u, NEW kind, NEW empty
    PROVE  /\ getLocked(d, t, k) <=> k \in DOMAIN d
           /\ getLocked(a, u, k) <=> k \in DOMAIN d
           /\ k \in DOMAIN a <=> k \in DOMAIN d
           /\ k \in DOMAIN d => d[k] = a[k]
           /\ OrWrongType(d, t, k, kind) <=> k \in DOMAIN d /\ d[k].kind # kind
           /\ OrWrongType(a, u, k, kind) <=> k \in DOMAIN d /\ d[k].kind # kind
           /\ Created(d, t, k, kind, empty) = Created(a, u, k, kind, empty)
           /\ Created(d, t, k, kind, empty).expireAt = 0
  BY DEF Permanent, SameOn, getLocked, expired, OrWrongType, Created

\* Leaving the map alone is local.
LEMMA LocalSame ==
    ASSUME NEW d, NEW a, Permanent(d), NEW K, SameOn(d, a, K)
    PROVE  Local(d, a, d, a, K)
  BY DEF Local, SameOn

\* Storing permanent entries under keys in K is local.
LEMMA LocalPut ==
    ASSUME NEW d, NEW a, Permanent(d), NEW K, SameOn(d, a, K), NEW p, DOMAIN p \subseteq K,
           Permanent(p)
    PROVE  Local(Put(d, p), Put(a, p), d, a, K)
  BY DEF Local, SameOn, Put, Permanent

\* The same for one entry.
LEMMA LocalPut1 ==
    ASSUME NEW d, NEW a, Permanent(d), NEW K, SameOn(d, a, K), NEW k \in K, NEW e, e.expireAt = 0
    PROVE  Local(Put1(d, k, e), Put1(a, k, e), d, a, K)
<1>1. /\ DOMAIN [x \in {k} |-> e] \subseteq K
      /\ Permanent([x \in {k} |-> e])
  BY DEF Permanent
<1> QED BY <1>1, LocalPut DEF Put1

\* Deleting keys in K is local.
LEMMA LocalDelete ==
    ASSUME NEW d, NEW a, Permanent(d), NEW K, SameOn(d, a, K), NEW ks, ks \subseteq K
    PROVE  Local(Delete(d, ks), Delete(a, ks), d, a, K)
  BY DEF Local, SameOn, Delete, Restrict, Permanent

\* Assigning to the payload of a present entry of a key in K is local.
LEMMA LocalVal ==
    ASSUME NEW d, NEW a, WellFormed(d), WellFormed(a), Permanent(d), NEW K, SameOn(d, a, K), NEW k \in K,
           k \in DOMAIN d, NEW v
    PROVE  Local([d EXCEPT ![k].val = v], [a EXCEPT ![k].val = v], d, a, K)
<1>1. k \in DOMAIN a /\ d[k] = a[k]
  BY DEF SameOn
<1> DEFINE e == [d[k] EXCEPT !.val = v]
<1>2. e.expireAt = 0
  BY DEF WellFormed, IsKeyspace, IsEntry, Permanent
<1>3. [d EXCEPT ![k].val = v] = Put1(d, k, e) /\ [a EXCEPT ![k].val = v] = Put1(a, k, e)
  BY <1>1 DEF WellFormed, IsKeyspace, Put1, Put
<1> DEFINE x == [d EXCEPT ![k].val = v]
           y == [a EXCEPT ![k].val = v]
<1>4. x = Put1(d, k, e) /\ y = Put1(a, k, e)
  BY <1>3
<1>5. SUFFICES Local(x, y, d, a, K)
  OBVIOUS
<1> HIDE DEF e, x, y
<1> QED BY <1>2, <1>4, LocalPut1

\* Removing elements, and the container with its last one, is local.
LEMMA LocalShrunk ==
    ASSUME NEW d, NEW a, WellFormed(d), WellFormed(a), Permanent(d), NEW K, SameOn(d, a, K), NEW k \in K,
           k \in DOMAIN d, NEW rest, NEW empty
    PROVE  Local(Shrunk(d, k, rest, empty), Shrunk(a, k, rest, empty), d, a, K)
<1>1. CASE rest = empty
  BY <1>1, LocalDelete DEF Shrunk
<1>2. CASE rest # empty
  BY <1>2, LocalVal DEF Shrunk
<1> QED BY <1>1, <1>2

\* An entry that is grown, live or freshly created, has no deadline.
LEMMA GrownPermanent ==
    ASSUME NEW d, Settled(d), NEW k, NEW t, NEW kind, NEW empty, NEW v
    PROVE  [Created(d, t, k, kind, empty) EXCEPT !.val = v].expireAt = 0
<1>1. CASE getLocked(d, t, k)
  BY <1>1 DEF Created, Settled, Permanent, WellFormed, IsKeyspace, IsEntry, getLocked
<1>2. CASE ~getLocked(d, t, k)
  BY <1>2 DEF Created
<1> QED BY <1>1, <1>2

-----------------------------------------------------------------------------
(* The methods of the store, on keyspaces d and a that are the same under  *)
(* the keys concerned, at times t and u.                                   *)
\* Store.Del is local.
LEMMA DelLocal ==
    ASSUME NEW d, NEW a, Settled(d), Settled(a), NEW K, SameOn(d, a, K), NEW t, NEW u,
           NEW ks, ks \subseteq K, NEW l, NEW m
    PROVE  Local(Del(d, t, ks, l).data, Del(a, u, ks, m).data, d, a, K)
<1>1. {k \in ks : getLocked(d, t + l[k], k)} = {k \in ks : getLocked(a, u + m[k], k)}
  BY TimelessLookup DEF Settled
<1> DEFINE found == {k \in ks : getLocked(d, t + l[k], k)}
<1>2. Del(d, t, ks, l).data = Delete(d, found) /\ Del(a, u, ks, m).data = Delete(a, found)
  BY <1>1 DEF Del, Result
<1>3. found \subseteq K
  OBVIOUS
<1> HIDE DEF found
<1> QED BY <1>2, <1>3, LocalDelete DEF Settled

\* Store.Persist finds no deadline.
LEMMA PersistLocal ==
    ASSUME NEW d, NEW a, Settled(d), Settled(a), NEW K, SameOn(d, a, K), NEW t, NEW u,
           NEW k \in K
    PROVE  Local(Persist(d, t, k).data, Persist(a, u, k).data, d, a, K)
<1>1. Persist(d, t, k).data = d /\ Persist(a, u, k).data = a
  BY DEF Persist, Result, Settled, Permanent, getLocked
<1> QED BY <1>1, LocalSame DEF Settled

\* Store.Rename is local to its two keys.
LEMMA RenameLocal ==
    ASSUME NEW d, NEW a, Settled(d), Settled(a), NEW K, SameOn(d, a, K), NEW t, NEW u,
           NEW src \in K, NEW dst \in K
    PROVE  Local(Rename(d, t, src, dst).data, Rename(a, u, src, dst).data, d, a, K)
<1>1. /\ getLocked(d, t, src) <=> src \in DOMAIN d
      /\ getLocked(a, u, src) <=> src \in DOMAIN d
      /\ src \in DOMAIN d => d[src] = a[src]
  BY TimelessLookup DEF Settled
<1>2. CASE src \in DOMAIN d
  <2> DEFINE x == Delete(d, {src})
             y == Delete(a, {src})
  <2>1. /\ Rename(d, t, src, dst).data = Put1(x, dst, d[src])
        /\ Rename(a, u, src, dst).data = Put1(y, dst, d[src])
    BY <1>1, <1>2 DEF Rename, Result
  <2>2. Local(x, y, d, a, K)
    BY LocalDelete DEF Settled
  <2>3. d[src].expireAt = 0
    BY <1>2 DEF Settled, Permanent
  <2> HIDE DEF x, y
  <2>4. Permanent(x) /\ SameOn(x, y, K)
    BY <2>2 DEF Local
  <2>5. Local(Put1(x, dst, d[src]), Put1(y, dst, d[src]), x, y, K)
    BY <2>3, <2>4, LocalPut1
  <2>6. SameOn(Put1(x, dst, d[src]), d, Key \ K)
    BY <2>2, <2>5 DEF Local, SameOn
  <2> QED BY <2>1, <2>5, <2>6 DEF Local
<1>3. CASE src \notin DOMAIN d
  BY <1>1, <1>3, LocalSame DEF Rename, Result, Settled
<1> QED BY <1>2, <1>3

\* Store.Set without a duration is local.
LEMMA SetLocal ==
    ASSUME NEW d, NEW a, Settled(d), Settled(a), NEW K, SameOn(d, a, K), NEW t, NEW u,
           NEW k \in K, NEW v, NEW opts, ~opts.HasTTL
    PROVE  Local(Set(d, t, k, v, opts).data, Set(a, u, k, v, opts).data, d, a, K)
<1>0. (getLocked(d, t, k) <=> k \in DOMAIN d) /\ (getLocked(a, u, k) <=> k \in DOMAIN d)
  BY TimelessLookup DEF Settled
<1> DEFINE refused == (opts.OnlyIfNew /\ k \in DOMAIN d) \/ (opts.OnlyIfOld /\ k \notin DOMAIN d)
           e == StringEntry(v)
<1>1. [e EXCEPT !.expireAt = 0] = e /\ e.expireAt = 0
  BY DEF StringEntry
<1>2. /\ Set(d, t, k, v, opts).data = IF refused THEN d ELSE Put1(d, k, e)
      /\ Set(a, u, k, v, opts).data = IF refused THEN a ELSE Put1(a, k, e)
  BY <1>0, <1>1 DEF Set, Result
<1> HIDE DEF refused, e
<1> QED BY <1>1, <1>2, LocalSame, LocalPut1 DEF Settled

\* Store.GetSet is local.
LEMMA GetSetLocal ==
    ASSUME NEW d, NEW a, Settled(d), Settled(a), NEW K, SameOn(d, a, K), NEW t, NEW u,
           NEW k \in K, NEW v
    PROVE  Local(GetSet(d, t, k, v).data, GetSet(a, u, k, v).data, d, a, K)
<1>0. OrWrongType(d, t, k, KindString) <=> OrWrongType(a, u, k, KindString)
  BY TimelessLookup DEF Settled
<1>1. StringEntry(v).expireAt = 0
  BY DEF StringEntry
<1>2. CASE OrWrongType(d, t, k, KindString)
  BY <1>0, <1>2, LocalSame DEF GetSet, Result, Settled
<1>3. CASE ~OrWrongType(d, t, k, KindString)
  BY <1>0, <1>1, <1>3, LocalPut1 DEF GetSet, Result, Settled
<1> QED BY <1>2, <1>3

\* Store.MSet is local.
LEMMA MSetLocal ==
    ASSUME NEW d, NEW a, Settled(d), Settled(a), NEW K, SameOn(d, a, K), NEW t, NEW u,
           NEW pairs, DOMAIN pairs \subseteq K
    PROVE  Local(MSet(d, t, pairs).data, MSet(a, u, pairs).data, d, a, K)
<1> DEFINE p == [k \in DOMAIN pairs |-> StringEntry(pairs[k])]
<1>1. DOMAIN p \subseteq K /\ Permanent(p)
  BY DEF StringEntry, Permanent
<1>2. MSet(d, t, pairs).data = Put(d, p) /\ MSet(a, u, pairs).data = Put(a, p)
  BY DEF MSet, Result
<1> HIDE DEF p
<1> QED BY <1>1, <1>2, LocalPut DEF Settled

\* Store.IncrBy is local.
LEMMA IncrByLocal ==
    ASSUME NEW d, NEW a, Settled(d), Settled(a), NEW K, SameOn(d, a, K), NEW t, NEW u,
           NEW k \in K, NEW delta
    PROVE  Local(IncrBy(d, t, k, delta).data, IncrBy(a, u, k, delta).data, d, a, K)
<1> DEFINE found == getLocked(d, t, k)
           bad   == OrWrongType(d, t, k, KindString)
           cur   == IF found THEN ParseInt(d[k].val) ELSE 0
           s     == FormatInt(Add64(cur, delta))
<1>0. /\ OrWrongType(a, u, k, KindString) <=> bad
      /\ getLocked(a, u, k) <=> found
      /\ found <=> k \in DOMAIN d
      /\ cur = IF getLocked(a, u, k) THEN ParseInt(a[k].val) ELSE 0
  <2>1. /\ OrWrongType(a, u, k, KindString) <=> bad
        /\ getLocked(a, u, k) <=> found
        /\ found <=> k \in DOMAIN d
        /\ k \in DOMAIN d => d[k] = a[k]
    BY TimelessLookup DEF Settled
  <2> QED BY <2>1
<1>1. CASE bad \/ cur = NotAnInteger \/ Overflows(cur, delta)
  <2>1. IncrBy(d, t, k, delta).data = d /\ IncrBy(a, u, k, delta).data = a
    BY <1>0, <1>1 DEF IncrBy, Result
  <2> QED BY <2>1, LocalSame DEF Settled
<1>2. CASE ~(bad \/ cur = NotAnInteger \/ Overflows(cur, delta)) /\ found
  <2>1. /\ IncrBy(d, t, k, delta).data = [d EXCEPT ![k].val = s]
        /\ IncrBy(a, u, k, delta).data = [a EXCEPT ![k].val = s]
    BY <1>0, <1>2 DEF IncrBy, Result
  <2> HIDE DEF s
  <2> QED BY <1>0, <1>2, <2>1, LocalVal DEF Settled
<1>3. CASE ~(bad \/ cur = NotAnInteger \/ Overflows(cur, delta)) /\ ~found
  <2>1. /\ IncrBy(d, t, k, delta).data = Put1(d, k, StringEntry(s))
        /\ IncrBy(a, u, k, delta).data = Put1(a, k, StringEntry(s))
    BY <1>0, <1>3 DEF IncrBy, Result
  <2>2. StringEntry(s).expireAt = 0
    BY DEF StringEntry
  <2> HIDE DEF s
  <2> QED BY <2>1, <2>2, LocalPut1 DEF Settled
<1> QED BY <1>1, <1>2, <1>3

\* Store.Append is local.
LEMMA StrAppendLocal ==
    ASSUME NEW d, NEW a, Settled(d), Settled(a), NEW K, SameOn(d, a, K), NEW t, NEW u,
           NEW k \in K, NEW v
    PROVE  Local(StrAppend(d, t, k, v).data, StrAppend(a, u, k, v).data, d, a, K)
<1> DEFINE found == getLocked(d, t, k)
           bad   == OrWrongType(d, t, k, KindString)
           s     == Appended(d, t, k, v)
<1>0. /\ OrWrongType(a, u, k, KindString) <=> bad
      /\ getLocked(a, u, k) <=> found
      /\ found <=> k \in DOMAIN d
      /\ Appended(a, u, k, v) = s
  BY TimelessLookup DEF Settled, Appended
<1>1. CASE bad
  BY <1>0, <1>1, LocalSame DEF StrAppend, Result, Settled
<1>2. CASE ~bad /\ found
  <2>1. /\ StrAppend(d, t, k, v).data = [d EXCEPT ![k].val = s]
        /\ StrAppend(a, u, k, v).data = [a EXCEPT ![k].val = s]
    BY <1>0, <1>2 DEF StrAppend, Result
  <2> HIDE DEF s
  <2> QED BY <1>0, <1>2, <2>1, LocalVal DEF Settled
<1>3. CASE ~bad /\ ~found
  <2>1. StringEntry(v).expireAt = 0
    BY DEF StringEntry
  <2> QED BY <1>0, <1>3, <2>1, LocalPut1 DEF StrAppend, Result, Settled
<1> QED BY <1>1, <1>2, <1>3

\* Store.HSet is local.
LEMMA HSetLocal ==
    ASSUME NEW d, NEW a, Settled(d), Settled(a), NEW K, SameOn(d, a, K), NEW t, NEW u,
           NEW k \in K, NEW fields
    PROVE  Local(HSet(d, t, k, fields).data, HSet(a, u, k, fields).data, d, a, K)
<1> DEFINE bad == OrWrongType(d, t, k, KindHash)
           e   == Created(d, t, k, KindHash, EmptyMap)
           g   == [e EXCEPT !.val = Put(e.val, fields)]
<1>0. /\ OrWrongType(a, u, k, KindHash) <=> bad
      /\ Created(a, u, k, KindHash, EmptyMap) = e
  BY TimelessLookup DEF Settled
<1>1. CASE bad
  BY <1>0, <1>1, LocalSame DEF HSet, Result, Settled
<1>2. CASE ~bad
  <2>1. /\ HSet(d, t, k, fields).data = Put1(d, k, g)
        /\ HSet(a, u, k, fields).data = Put1(a, k, g)
    BY <1>0, <1>2 DEF HSet, Result
  <2>2. g.expireAt = 0
    BY GrownPermanent
  <2> HIDE DEF g
  <2> QED BY <2>1, <2>2, LocalPut1 DEF Settled
<1> QED BY <1>1, <1>2

\* Store.HDel is local.
LEMMA HDelLocal ==
    ASSUME NEW d, NEW a, Settled(d), Settled(a), NEW K, SameOn(d, a, K), NEW t, NEW u,
           NEW k \in K, NEW fields
    PROVE  Local(HDel(d, t, k, fields).data, HDel(a, u, k, fields).data, d, a, K)
<1> DEFINE bad == OrWrongType(d, t, k, KindHash)
           v   == Delete(d[k].val, fields)
<1>0. /\ OrWrongType(a, u, k, KindHash) <=> bad
      /\ getLocked(d, t, k) <=> k \in DOMAIN d
      /\ getLocked(a, u, k) <=> k \in DOMAIN d
      /\ k \in DOMAIN d => d[k] = a[k]
  BY TimelessLookup DEF Settled
<1>1. CASE bad \/ k \notin DOMAIN d
  BY <1>0, <1>1, LocalSame DEF HDel, Result, Settled
<1>2. CASE ~(bad \/ k \notin DOMAIN d)
  <2>1. /\ HDel(d, t, k, fields).data = Shrunk(d, k, v, EmptyMap)
        /\ HDel(a, u, k, fields).data = Shrunk(a, k, v, EmptyMap)
    BY <1>0, <1>2 DEF HDel, Result
  <2> HIDE DEF v
  <2> QED BY <1>2, <2>1, LocalShrunk DEF Settled
<1> QED BY <1>1, <1>2

\* Store.HIncrBy is local, also where it creates the hash before parsing the field.
LEMMA HIncrByLocal ==
    ASSUME NEW d, NEW a, Settled(d), Settled(a), NEW K, SameOn(d, a, K), NEW t, NEW u,
           NEW k \in K, NEW f, NEW delta
    PROVE  Local(HIncrBy(d, t, k, f, delta).data, HIncrBy(a, u, k, f, delta).data, d, a, K)
<1> DEFINE bad == OrWrongType(d, t, k, KindHash)
           e   == Created(d, t, k, KindHash, EmptyMap)
           cur == IF f \in DOMAIN e.val THEN ParseInt(e.val[f]) ELSE 0
           g   == [e EXCEPT !.val = Put1(e.val, f, FormatInt(Add64(cur, delta)))]
<1>0. /\ OrWrongType(a, u, k, KindHash) <=> bad
      /\ Created(a, u, k, KindHash, EmptyMap) = e
      /\ e.expireAt = 0
  BY TimelessLookup DEF Settled
<1>1. CASE bad
  BY <1>0, <1>1, LocalSame DEF HIncrBy, Result, Settled
<1>2. CASE ~bad /\ cur = NotAnInteger
  <2>1. HIncrBy(d, t, k, f, delta).data = Put1(d, k, e) /\ HIncrBy(a, u, k, f, delta).data = Put1(a, k, e)
    BY <1>0, <1>2 DEF HIncrBy, Result
  <2> HIDE DEF e
  <2> QED BY <1>0, <2>1, LocalPut1 DEF Settled
<1>3. CASE ~bad /\ cur # NotAnInteger
  <2>1. /\ HIncrBy(d, t, k, f, delta).data = Put1(d, k, g)
        /\ HIncrBy(a, u, k, f, delta).data = Put1(a, k, g)
    BY <1>0, <1>3 DEF HIncrBy, Result
  <2>2. g.expireAt = 0
    BY GrownPermanent
  <2> HIDE DEF g
  <2> QED BY <2>1, <2>2, LocalPut1 DEF Settled
<1> QED BY <1>1, <1>2, <1>3

\* Store.LPush is local.
LEMMA LPushLocal ==
    ASSUME NEW d, NEW a, Settled(d), Settled(a), NEW K, SameOn(d, a, K), NEW t, NEW u,
           NEW k \in K, NEW values
    PROVE  Local(LPush(d, t, k, values).data, LPush(a, u, k, values).data, d, a, K)
<1> DEFINE bad == OrWrongType(d, t, k, KindList)
           e   == Created(d, t, k, KindList, <<>>)
           g   == [e EXCEPT !.val = Reversed(values) \o e.val]
<1>0. /\ OrWrongType(a, u, k, KindList) <=> bad
      /\ Created(a, u, k, KindList, <<>>) = e
  BY TimelessLookup DEF Settled
<1>1. CASE bad
  BY <1>0, <1>1, LocalSame DEF LPush, Result, Settled
<1>2. CASE ~bad
  <2>1. /\ LPush(d, t, k, values).data = Put1(d, k, g)
        /\ LPush(a, u, k, values).data = Put1(a, k, g)
    BY <1>0, <1>2 DEF LPush, Result
  <2>2. g.expireAt = 0
    BY GrownPermanent
  <2> HIDE DEF g
  <2> QED BY <2>1, <2>2, LocalPut1 DEF Settled
<1> QED BY <1>1, <1>2

\* Store.RPush is local.
LEMMA RPushLocal ==
    ASSUME NEW d, NEW a, Settled(d), Settled(a), NEW K, SameOn(d, a, K), NEW t, NEW u,
           NEW k \in K, NEW values
    PROVE  Local(RPush(d, t, k, values).data, RPush(a, u, k, values).data, d, a, K)
<1> DEFINE bad == OrWrongType(d, t, k, KindList)
           e   == Created(d, t, k, KindList, <<>>)
           g   == [e EXCEPT !.val = e.val \o values]
<1>0. /\ OrWrongType(a, u, k, KindList) <=> bad
      /\ Created(a, u, k, KindList, <<>>) = e
  BY TimelessLookup DEF Settled
<1>1. CASE bad
  BY <1>0, <1>1, LocalSame DEF RPush, Result, Settled
<1>2. CASE ~bad
  <2>1. /\ RPush(d, t, k, values).data = Put1(d, k, g)
        /\ RPush(a, u, k, values).data = Put1(a, k, g)
    BY <1>0, <1>2 DEF RPush, Result
  <2>2. g.expireAt = 0
    BY GrownPermanent
  <2> HIDE DEF g
  <2> QED BY <2>1, <2>2, LocalPut1 DEF Settled
<1> QED BY <1>1, <1>2

\* Store.LPop is local.
LEMMA LPopLocal ==
    ASSUME NEW d, NEW a, Settled(d), Settled(a), NEW K, SameOn(d, a, K), NEW t, NEW u,
           NEW k \in K
    PROVE  Local(LPop(d, t, k).data, LPop(a, u, k).data, d, a, K)
<1> DEFINE bad == OrWrongType(d, t, k, KindList)
           v   == Tail(d[k].val)
<1>0. /\ OrWrongType(a, u, k, KindList) <=> bad
      /\ getLocked(d, t, k) <=> k \in DOMAIN d
      /\ getLocked(a, u, k) <=> k \in DOMAIN d
      /\ k \in DOMAIN d => d[k] = a[k]
  BY TimelessLookup DEF Settled
<1>1. CASE bad \/ k \notin DOMAIN d \/ d[k].val = <<>>
  BY <1>0, <1>1, LocalSame DEF LPop, Result, Settled
<1>2. CASE ~(bad \/ k \notin DOMAIN d \/ d[k].val = <<>>)
  <2>1. /\ LPop(d, t, k).data = Shrunk(d, k, v, <<>>)
        /\ LPop(a, u, k).data = Shrunk(a, k, v, <<>>)
    BY <1>0, <1>2 DEF LPop, Result
  <2> HIDE DEF v
  <2> QED BY <1>2, <2>1, LocalShrunk DEF Settled
<1> QED BY <1>1, <1>2

\* Store.RPop is local.
LEMMA RPopLocal ==
    ASSUME NEW d, NEW a, Settled(d), Settled(a), NEW K, SameOn(d, a, K), NEW t, NEW u,
           NEW k \in K
    PROVE  Local(RPop(d, t, k).data, RPop(a, u, k).data, d, a, K)
<1> DEFINE bad == OrWrongType(d, t, k, KindList)
           v   == SubSeq(d[k].val, 1, Len(d[k].val) - 1)
<1>0. /\ OrWrongType(a, u, k, KindList) <=> bad
      /\ getLocked(d, t, k) <=> k \in DOMAIN d
      /\ getLocked(a, u, k) <=> k \in DOMAIN d
      /\ k \in DOMAIN d => d[k] = a[k]
  BY TimelessLookup DEF Settled
<1>1. CASE bad \/ k \notin DOMAIN d \/ d[k].val = <<>>
  BY <1>0, <1>1, LocalSame DEF RPop, Result, Settled
<1>2. CASE ~(bad \/ k \notin DOMAIN d \/ d[k].val = <<>>)
  <2>1. /\ RPop(d, t, k).data = Shrunk(d, k, v, <<>>)
        /\ RPop(a, u, k).data = Shrunk(a, k, v, <<>>)
    BY <1>0, <1>2 DEF RPop, Result
  <2> HIDE DEF v
  <2> QED BY <1>2, <2>1, LocalShrunk DEF Settled
<1> QED BY <1>1, <1>2

\* Store.SAdd is local.
LEMMA SAddLocal ==
    ASSUME NEW d, NEW a, Settled(d), Settled(a), NEW K, SameOn(d, a, K), NEW t, NEW u,
           NEW k \in K, NEW members
    PROVE  Local(SAdd(d, t, k, members).data, SAdd(a, u, k, members).data, d, a, K)
<1> DEFINE bad == OrWrongType(d, t, k, KindSet)
           e   == Created(d, t, k, KindSet, {})
           g   == [e EXCEPT !.val = e.val \cup members]
<1>0. /\ OrWrongType(a, u, k, KindSet) <=> bad
      /\ Created(a, u, k, KindSet, {}) = e
  BY TimelessLookup DEF Settled
<1>1. CASE bad
  BY <1>0, <1>1, LocalSame DEF SAdd, Result, Settled
<1>2. CASE ~bad
  <2>1. /\ SAdd(d, t, k, members).data = Put1(d, k, g)
        /\ SAdd(a, u, k, members).data = Put1(a, k, g)
    BY <1>0, <1>2 DEF SAdd, Result
  <2>2. g.expireAt = 0
    BY GrownPermanent
  <2> HIDE DEF g
  <2> QED BY <2>1, <2>2, LocalPut1 DEF Settled
<1> QED BY <1>1, <1>2

\* Store.SRem is local.
LEMMA SRemLocal ==
    ASSUME NEW d, NEW a, Settled(d), Settled(a), NEW K, SameOn(d, a, K), NEW t, NEW u,
           NEW k \in K, NEW members
    PROVE  Local(SRem(d, t, k, members).data, SRem(a, u, k, members).data, d, a, K)
<1> DEFINE bad == OrWrongType(d, t, k, KindSet)
           v   == d[k].val \ members
<1>0. /\ OrWrongType(a, u, k, KindSet) <=> bad
      /\ getLocked(d, t, k) <=> k \in DOMAIN d
      /\ getLocked(a, u, k) <=> k \in DOMAIN d
      /\ k \in DOMAIN d => d[k] = a[k]
  BY TimelessLookup DEF Settled
<1>1. CASE bad \/ k \notin DOMAIN d
  BY <1>0, <1>1, LocalSame DEF SRem, Result, Settled
<1>2. CASE ~(bad \/ k \notin DOMAIN d)
  <2>1. /\ SRem(d, t, k, members).data = Shrunk(d, k, v, {})
        /\ SRem(a, u, k, members).data = Shrunk(a, k, v, {})
    BY <1>0, <1>2 DEF SRem, Result
  <2> HIDE DEF v
  <2> QED BY <1>2, <2>1, LocalShrunk DEF Settled
<1> QED BY <1>1, <1>2

\* Store.ZAdd is local.
LEMMA ZAddLocal ==
    ASSUME NEW d, NEW a, Settled(d), Settled(a), NEW K, SameOn(d, a, K), NEW t, NEW u,
           NEW k \in K, NEW scores
    PROVE  Local(ZAdd(d, t, k, scores).data, ZAdd(a, u, k, scores).data, d, a, K)
<1> DEFINE bad == OrWrongType(d, t, k, KindZSet)
           e   == Created(d, t, k, KindZSet, EmptyMap)
           g   == [e EXCEPT !.val = Put(e.val, scores)]
<1>0. /\ OrWrongType(a, u, k, KindZSet) <=> bad
      /\ Created(a, u, k, KindZSet, EmptyMap) = e
  BY TimelessLookup DEF Settled
<1>1. CASE bad
  BY <1>0, <1>1, LocalSame DEF ZAdd, Result, Settled
<1>2. CASE ~bad
  <2>1. /\ ZAdd(d, t, k, scores).data = Put1(d, k, g)
        /\ ZAdd(a, u, k, scores).data = Put1(a, k, g)
    BY <1>0, <1>2 DEF ZAdd, Result
  <2>2. g.expireAt = 0
    BY GrownPermanent
  <2> HIDE DEF g
  <2> QED BY <2>1, <2>2, LocalPut1 DEF Settled
<1> QED BY <1>1, <1>2

\* Store.ZRem is local.
LEMMA ZRemLocal ==
    ASSUME NEW d, NEW a, Settled(d), Settled(a), NEW K, SameOn(d, a, K), NEW t, NEW u,
           NEW k \in K, NEW members
    PROVE  Local(ZRem(d, t, k, members).data, ZRem(a, u, k, members).data, d, a, K)
<1> DEFINE bad == OrWrongType(d, t, k, KindZSet)
           v   == Delete(d[k].val, members)
<1>0. /\ OrWrongType(a, u, k, KindZSet) <=> bad
      /\ getLocked(d, t, k) <=> k \in DOMAIN d
      /\ getLocked(a, u, k) <=> k \in DOMAIN d
      /\ k \in DOMAIN d => d[k] = a[k]
  BY TimelessLookup DEF Settled
<1>1. CASE bad \/ k \notin DOMAIN d
  BY <1>0, <1>1, LocalSame DEF ZRem, Result, Settled
<1>2. CASE ~(bad \/ k \notin DOMAIN d)
  <2>1. /\ ZRem(d, t, k, members).data = Shrunk(d, k, v, EmptyMap)
        /\ ZRem(a, u, k, members).data = Shrunk(a, k, v, EmptyMap)
    BY <1>0, <1>2 DEF ZRem, Result
  <2> HIDE DEF v
  <2> QED BY <1>2, <2>1, LocalShrunk DEF Settled
<1> QED BY <1>1, <1>2
-----------------------------------------------------------------------------
(* Commands.                                                               *)

\* A command that writes names keys.
LEMMA KeysOfType == ASSUME NEW c \in Command, c.op \in Write PROVE KeysOf(c) \subseteq Key
<1>1. CASE c.op \in {"DEL", "MSET", "RENAME", "FLUSHALL"}
  <2>1. CASE c.op = "DEL"
    <3>1. c.keys \in NonEmpty(Key)
      BY <2>1, ClockReads
    <3> QED BY <2>1, <3>1 DEF KeysOf, NonEmpty
  <2>2. CASE c.op = "MSET"
    <3>1. c.pairs \in NonEmptyMap(Key, Value)
      <4>1. c \in stringCommands
        BY <2>2, DelOfIs, ReadOfIs DEF Command, genericCommands, hashCommands, listCommands, setCommands,
                                       zsetCommands, serverCommands
      <4> QED BY <2>2, <4>1, ReadOfIs DEF stringCommands
    <3> QED BY <2>2, <3>1, NonEmptyMapIs DEF KeysOf, IsMap
  <2>3. CASE c.op = "RENAME"
    <3>1. c.key \in Key /\ c.dst \in Key
      <4>1. c \in genericCommands
        BY <2>3, ReadOfIs DEF Command, stringCommands, hashCommands, listCommands, setCommands,
                              zsetCommands, serverCommands
      <4> QED BY <2>3, <4>1, DelOfIs, ReadOfIs DEF genericCommands
    <3> QED BY <2>3, <3>1 DEF KeysOf
  <2>4. CASE c.op = "FLUSHALL"
    BY <2>4 DEF KeysOf
  <2> QED BY <1>1, <2>1, <2>2, <2>3, <2>4
<1>2. CASE c.op \notin {"DEL", "MSET", "RENAME", "FLUSHALL"}
  <2>1. c.key \in Key
    <3>1. CASE c \in genericCommands
      BY <1>2, <3>1, DelOfIs, ReadOfIs DEF genericCommands, Write
    <3>2. CASE c \in stringCommands
      BY <1>2, <3>2, ReadOfIs DEF stringCommands, Write
    <3>3. CASE c \notin genericCommands \cup stringCommands
      BY <1>2, <3>3 DEF Command, hashCommands, listCommands, setCommands, zsetCommands, serverCommands, Write
    <3> QED BY <3>1, <3>2, <3>3
  <2>2. KeysOf(c) = {c.key}
    BY <1>2 DEF KeysOf
  <2> QED BY <2>1, <2>2
<1> QED BY <1>1, <1>2

\* Every command with the Write flag and without a duration is local to the keys it names.
LEMMA ApplyLocal ==
    ASSUME NEW d, NEW a, Settled(d), Settled(a), NEW c \in Command, c.op \in Write, Timeless(c),
           SameOn(d, a, KeysOf(c)), NEW t, NEW u
    PROVE  Local(Apply(d, t, c).data, Apply(a, u, c).data, d, a, KeysOf(c))
<1> DEFINE K == KeysOf(c)
<1>1. CASE c.op = "DEL"
  <2>1. K = c.keys
    BY <1>1 DEF KeysOf
  <2> QED BY <1>1, <2>1, DelLocal DEF Apply
<1>2. CASE c.op = "MSET"
  <2>1. K = DOMAIN c.pairs
    BY <1>2 DEF KeysOf
  <2> QED BY <1>2, <2>1, MSetLocal DEF Apply
<1>3. CASE c.op = "RENAME"
  <2>1. c.key \in K /\ c.dst \in K
    BY <1>3 DEF KeysOf
  <2> QED BY <1>3, <2>1, RenameLocal DEF Apply
<1>4. CASE c.op = "FLUSHALL"
  <2>1. K = Key /\ Apply(d, t, c).data = EmptyMap /\ Apply(a, u, c).data = EmptyMap
    BY <1>4 DEF KeysOf, Apply, FlushAll, Result
  <2> QED BY <2>1 DEF Local, Permanent, SameOn, EmptyMap
<1>5. CASE c.op \notin {"DEL", "MSET", "RENAME", "FLUSHALL"}
  <2>1. c.key \in K
    BY <1>5 DEF KeysOf
  <2>2. \/ c.op \in {"PERSIST", "SET", "GETSET", "APPEND", "INCRBY", "DECRBY"}
        \/ c.op \in {"HSET", "HDEL", "HINCRBY", "LPUSH", "RPUSH", "LPOP", "RPOP"}
        \/ c.op \in {"SADD", "SREM", "ZADD", "ZREM"}
    BY <1>5 DEF Write, Timeless
  <2> HIDE DEF K
  <2> SUFFICES ASSUME SameOn(d, a, K) PROVE Local(Apply(d, t, c).data, Apply(a, u, c).data, d, a, K)
    BY DEF K
  <2>3. CASE c.op \in {"PERSIST", "GETSET", "APPEND", "INCRBY", "DECRBY"}
    BY <2>1, <2>3, PersistLocal, GetSetLocal, StrAppendLocal, IncrByLocal DEF Apply
  <2>4. CASE c.op = "SET"
    BY <2>1, <2>4, SetLocal DEF Apply, Timeless
  <2>5. CASE c.op \in {"HSET", "HDEL", "HINCRBY"}
    BY <2>1, <2>5, HSetLocal, HDelLocal, HIncrByLocal DEF Apply
  <2>6. CASE c.op \in {"LPUSH", "RPUSH", "LPOP", "RPOP"}
    BY <2>1, <2>6, LPushLocal, RPushLocal, LPopLocal, RPopLocal DEF Apply
  <2>7. CASE c.op \in {"SADD", "SREM", "ZADD", "ZREM"}
    BY <2>1, <2>7, SAddLocal, SRemLocal, ZAddLocal, ZRemLocal DEF Apply
  <2> QED BY <2>2, <2>3, <2>4, <2>5, <2>6, <2>7
<1> QED BY <1>1, <1>2, <1>3, <1>4, <1>5

\* Keyspaces that are the same under every key are equal.
LEMMA SameOnKey ==
    ASSUME NEW d, NEW a, WellFormed(d), WellFormed(a), SameOn(d, a, Key)
    PROVE  d = a
<1>1. DOMAIN d = DOMAIN a
  BY DEF SameOn, WellFormed, IsKeyspace
<1>2. \A k \in DOMAIN d : d[k] = a[k]
  BY DEF SameOn, WellFormed, IsKeyspace
<1>3. d = [k \in DOMAIN d |-> d[k]] /\ a = [k \in DOMAIN a |-> a[k]]
  BY DEF WellFormed, IsKeyspace
<1> QED BY <1>1, <1>2, <1>3

\* What command c makes of a keyspace without deadlines.
Effect(d, c) == Apply(d, 0, c).data

\* A command keeps a keyspace well formed.
LEMMA ApplyKeepsWF ==
    ASSUME NEW d, WellFormed(d), NEW t \in Int, NEW c \in Command
    PROVE  WellFormed(Apply(d, t, c).data)
<1>1. Agree(d, d, t)
  BY DEF Agree
<1> QED BY <1>1, ApplySound DEF Sound

\* Without durations no deadline appears, and the time at which a command runs does
\* not matter to what it does.
LEMMA TimelessEffect ==
    ASSUME NEW d, Settled(d), NEW c \in Command, Timeless(c), NEW t \in Int
    PROVE  Settled(Effect(d, c)) /\ Apply(d, t, c).data = Effect(d, c)
<1> DEFINE x == Apply(d, t, c).data
           y == Effect(d, c)
<1>1. WellFormed(x) /\ WellFormed(y)
  BY ApplyKeepsWF DEF Settled, Effect
<1>2. CASE c.op \notin Write
  <2>1. x = d /\ y = d
    BY <1>2, ReadsLeaveData DEF Effect
  <2> QED BY <2>1
<1>3. CASE c.op \in Write
  <2> DEFINE K == KeysOf(c)
  <2>1. SameOn(d, d, K)
    BY DEF SameOn
  <2>2. Local(x, y, d, d, K) /\ Local(y, y, d, d, K)
    BY <1>3, <2>1, ApplyLocal DEF Effect
  <2>3. SameOn(x, y, Key)
    BY <2>2 DEF Local, SameOn
  <2>4. x = y
    BY <1>1, <2>3, SameOnKey
  <2> QED BY <1>1, <2>2, <2>4 DEF Local, Settled
<1> QED BY <1>2, <1>3

\* What is read from the log is the command that was logged, on other readings.
LEMMA AgainCommand == ASSUME NEW c \in Command, NEW g \in Again(c) PROVE g \in Command
<1>1. CASE c.op # "DEL"
  BY <1>1 DEF Again
<1>2. CASE c.op = "DEL"
  <2>1. g \in DelOf(c.keys) /\ c.keys \in NonEmpty(Key)
    BY <1>2, ClockReads DEF Again
  <2> QED BY <2>1 DEF Command, genericCommands
<1> QED BY <1>1, <1>2

\* Nor do the readings of the clock when it is replayed.
LEMMA AgainEffect ==
    ASSUME NEW d, Settled(d), NEW c \in Command, Timeless(c), NEW t \in Int, NEW g \in Again(c)
    PROVE  /\ g \in Command /\ Timeless(g) /\ Elapsed(g) \in Nat
           /\ Apply(d, t, g).data = Effect(d, c)
<1>1. CASE c.op # "DEL"
  BY <1>1, TimelessEffect, ReadingsAfter DEF Again
<1>2. CASE c.op = "DEL"
  <2>1. g \in DelOf(c.keys) /\ c.keys \in NonEmpty(Key)
    BY <1>2, ClockReads DEF Again
  <2>2. g.op = "DEL" /\ g.keys = c.keys
    BY <2>1, DelOfIs
  <2>3. g \in Command
    BY AgainCommand
  <2>4. Timeless(g) /\ g.op \in Write
    BY <2>2 DEF Timeless, Write
  <2> DEFINE x == Apply(d, t, g).data
             y == Effect(d, c)
             K == c.keys
  <2>5. SameOn(d, d, K) /\ K \subseteq Key
    BY <2>1 DEF SameOn, NonEmpty
  <2>6. x = Del(d, t, K, g.late).data /\ y = Del(d, 0, K, c.late).data
    BY <1>2, <2>2 DEF Apply, Effect
  <2>7. Local(x, y, d, d, K) /\ Local(y, x, d, d, K)
    BY <2>5, <2>6, DelLocal
  <2>8. SameOn(x, y, Key)
    BY <2>7 DEF Local, SameOn
  <2>9. WellFormed(x) /\ WellFormed(y)
    BY <2>3, ApplyKeepsWF DEF Settled, Effect
  <2>10. x = y
    BY <2>8, <2>9, SameOnKey
  <2> QED BY <2>3, <2>4, <2>10, ReadingsAfter
<1> QED BY <1>1, <1>2

\* Commands on different keys can be run in either order.
LEMMA DisjointCommute ==
    ASSUME NEW d, Settled(d), NEW b \in Command, NEW c \in Command, b.op \in Write, c.op \in Write,
           Timeless(b), Timeless(c), KeysOf(b) \cap KeysOf(c) = {}
    PROVE  Effect(Effect(d, b), c) = Effect(Effect(d, c), b)
<1> DEFINE x  == Effect(d, b)
           y  == Effect(d, c)
           xc == Effect(x, c)
           yb == Effect(y, b)
           B  == KeysOf(b)
           C  == KeysOf(c)
<1>1. Settled(x) /\ Settled(y)
  BY TimelessEffect
<1>2. Settled(xc) /\ Settled(yb)
  BY <1>1, TimelessEffect
<1>3. SameOn(d, d, B) /\ SameOn(d, d, C) /\ B \subseteq Key /\ C \subseteq Key
  BY KeysOfType DEF SameOn
<1>4. Local(x, x, d, d, B) /\ Local(y, y, d, d, C)
  BY <1>3, ApplyLocal DEF Effect
<1> HIDE DEF x, y, B, C
<1>5. SameOn(x, d, C) /\ SameOn(y, d, B)
  BY <1>3, <1>4 DEF Local, SameOn, B, C
<1>6. Local(xc, y, x, d, C)
  BY <1>1, <1>5, ApplyLocal DEF Effect, y, C
<1>7. Local(yb, x, y, d, B)
  BY <1>1, <1>5, ApplyLocal DEF Effect, x, B
<1> HIDE DEF xc, yb
<1>8. ASSUME NEW k \in Key PROVE (k \in DOMAIN xc <=> k \in DOMAIN yb) /\ (k \in DOMAIN xc => xc[k] = yb[k])
  <2>1. CASE k \in C
    <3>1. k \in Key \ B
      BY <2>1 DEF B, C
    <3> QED BY <2>1, <3>1, <1>6, <1>7 DEF Local, SameOn
  <2>2. CASE k \in B
    <3>1. k \in Key \ C
      BY <2>2 DEF B, C
    <3> QED BY <2>2, <3>1, <1>6, <1>7 DEF Local, SameOn
  <2>3. CASE k \in Key \ B /\ k \in Key \ C
    BY <2>3, <1>4, <1>6, <1>7 DEF Local, SameOn
  <2> QED BY <2>1, <2>2, <2>3
<1>9. SameOn(xc, yb, Key)
  BY <1>8 DEF SameOn
<1> QED BY <1>2, <1>9, SameOnKey DEF Settled, xc, yb, x, y

\* What SADD makes of a permanent keyspace.
LEMMA SAddIs ==
    ASSUME NEW d, Permanent(d), NEW c \in Command, c.op = "SADD"
    PROVE  /\ c.key \in DOMAIN d /\ d[c.key].kind # KindSet => Effect(d, c) = d
           /\ c.key \in DOMAIN d /\ d[c.key].kind = KindSet
                => Effect(d, c) = Put1(d, c.key, [d[c.key] EXCEPT !.val = d[c.key].val \cup c.members])
           /\ c.key \notin DOMAIN d
                => Effect(d, c) = Put1(d, c.key, [kind |-> KindSet, val |-> c.members, expireAt |-> 0])
<1>1. Effect(d, c) = SAdd(d, 0, c.key, c.members).data
  BY DEF Effect, Apply
<1>2. getLocked(d, 0, c.key) <=> c.key \in DOMAIN d
  BY DEF getLocked, expired, Permanent
<1>3. {} \cup c.members = c.members
  OBVIOUS
<1> QED BY <1>1, <1>2, <1>3 DEF SAdd, Result, OrWrongType, Created

\* Additions to sets can be run in either order, to the same set too.
LEMMA SAddCommute ==
    ASSUME NEW d, Settled(d), NEW b \in Command, NEW c \in Command, b.op = "SADD", c.op = "SADD"
    PROVE  Effect(Effect(d, b), c) = Effect(Effect(d, c), b)
<1>1. b.op \in Write /\ c.op \in Write /\ Timeless(b) /\ Timeless(c)
  BY DEF Write, Timeless
<1>2. CASE b.key # c.key
  <2>1. KeysOf(b) \cap KeysOf(c) = {}
    BY <1>2 DEF KeysOf
  <2> QED BY <1>1, <2>1, DisjointCommute
<1>3. CASE b.key = c.key
  <2> DEFINE k == b.key
             x == Effect(d, b)
             y == Effect(d, c)
  <2>1. Permanent(d) /\ Permanent(x) /\ Permanent(y)
    BY <1>1, TimelessEffect DEF Settled
  <2>2. CASE k \in DOMAIN d /\ d[k].kind # KindSet
    BY <1>3, <2>1, <2>2, SAddIs
  <2>3. CASE k \in DOMAIN d /\ d[k].kind = KindSet
    <3> DEFINE e(m) == [d[k] EXCEPT !.val = d[k].val \cup m]
    <3>1. x = Put1(d, k, e(b.members)) /\ y = Put1(d, k, e(c.members))
      BY <1>3, <2>1, <2>3, SAddIs
    <3>2. /\ k \in DOMAIN x /\ x[k] = e(b.members) /\ x[k].kind = KindSet
          /\ k \in DOMAIN y /\ y[k] = e(c.members) /\ y[k].kind = KindSet
      BY <2>3, <3>1 DEF Put1, Put, Settled, WellFormed, IsKeyspace, IsEntry
    <3>3. /\ Effect(x, c) = Put1(x, k, [x[k] EXCEPT !.val = x[k].val \cup c.members])
          /\ Effect(y, b) = Put1(y, k, [y[k] EXCEPT !.val = y[k].val \cup b.members])
      <4> HIDE DEF x, y
      <4> QED BY <1>3, <2>1, <3>2, SAddIs
    <3>4. [x[k] EXCEPT !.val = x[k].val \cup c.members] = [y[k] EXCEPT !.val = y[k].val \cup b.members]
      <4>1. /\ x[k].val \cup c.members = d[k].val \cup (b.members \cup c.members)
            /\ y[k].val \cup b.members = d[k].val \cup (b.members \cup c.members)
        BY <2>3, <3>2 DEF Settled, WellFormed, IsKeyspace, IsEntry
      <4> QED BY <3>2, <4>1
    <3> HIDE DEF e, k
    <3>5. ASSUME NEW u, NEW v, NEW w PROVE Put1(Put1(d, k, u), k, w) = Put1(Put1(d, k, v), k, w)
      BY DEF Put1, Put
    <3> HIDE DEF x, y
    <3> QED BY <3>1, <3>3, <3>4, <3>5 DEF x, y
  <2>4. CASE k \notin DOMAIN d
    <3> DEFINE e(m) == [kind |-> KindSet, val |-> m, expireAt |-> 0]
    <3>1. x = Put1(d, k, e(b.members)) /\ y = Put1(d, k, e(c.members))
      BY <1>3, <2>1, <2>4, SAddIs
    <3>2. /\ k \in DOMAIN x /\ x[k] = e(b.members) /\ x[k].kind = KindSet
          /\ k \in DOMAIN y /\ y[k] = e(c.members) /\ y[k].kind = KindSet
      BY <3>1 DEF Put1, Put
    <3>3. /\ Effect(x, c) = Put1(x, k, [x[k] EXCEPT !.val = x[k].val \cup c.members])
          /\ Effect(y, b) = Put1(y, k, [y[k] EXCEPT !.val = y[k].val \cup b.members])
      <4> HIDE DEF x, y
      <4> QED BY <1>3, <2>1, <3>2, SAddIs
    <3>4. [x[k] EXCEPT !.val = x[k].val \cup c.members] = [y[k] EXCEPT !.val = y[k].val \cup b.members]
      <4>1. /\ x[k].val \cup c.members = b.members \cup c.members
            /\ y[k].val \cup b.members = b.members \cup c.members
        BY <3>2
      <4> QED BY <3>2, <4>1
    <3> HIDE DEF e, k
    <3>5. ASSUME NEW u, NEW v, NEW w PROVE Put1(Put1(d, k, u), k, w) = Put1(Put1(d, k, v), k, w)
      BY DEF Put1, Put
    <3> HIDE DEF x, y
    <3> QED BY <3>1, <3>3, <3>4, <3>5 DEF x, y
  <2> QED BY <2>2, <2>3, <2>4
<1> QED BY <1>2, <1>3
=============================================================================
