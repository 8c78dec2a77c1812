---------------------------- MODULE StoreProofs -----------------------------
(***************************************************************************)
(* The properties of Store, proved for every set of keys, strings, scores, *)
(* options, durations and increments, and for clocks and lists of any      *)
(* length: MaxTime and MaxLen are any natural numbers.                     *)
(*                                                                         *)
(* The inductive invariant adds to TypeOK and NoEmptyContainers that no    *)
(* tick is ahead of the clock: without it a sweep could delete an entry    *)
(* whose deadline has not been reached.                                    *)
(***************************************************************************)
EXTENDS Store, KeyspaceProofs

\* The inductive invariant: the ticker and the sweeper never run ahead of the clock.
StoreInv ==
    /\ TypeOK
    /\ NoEmptyContainers
    /\ tick <= now /\ sweepTime <= now

\* The two invariants say that the keyspace is well formed.
LEMMA InvWellFormed ==
    TypeOK /\ NoEmptyContainers <=>
        /\ WellFormed(data)
        /\ now \in Nat /\ now >= Epoch
        /\ tick \in Nat /\ sweepTime \in Nat
        /\ sweeper \in {"select", "sweep", "done"}
        /\ closed \in BOOLEAN
  BY Zenon DEF TypeOK, NoEmptyContainers, WellFormed, NonEmptyEntry

\* A keyspace agrees with itself.
LEMMA AgreeRefl == ASSUME NEW d, NEW t PROVE Agree(d, d, t)
  BY DEF Agree

\* Dropping the expired entries gives a keyspace that agrees.
LEMMA AliveAgrees ==
    ASSUME NEW d, WellFormed(d), NEW t \in Int
    PROVE  WellFormed(Alive(d, t)) /\ Agree(d, Alive(d, t), t)
  BY DEF Alive, WellFormed, IsKeyspace, IsEntry, Agree, getLocked, expired

\* Keyspaces that agree have the same live entries.
LEMMA AgreeAlive ==
    ASSUME NEW d, NEW a, WellFormed(d), WellFormed(a), NEW t \in Int, Agree(d, a, t)
    PROVE  Alive(d, t) = Alive(a, t)
<1>1. ASSUME NEW x PROVE /\ getLocked(d, t, x) <=> x \in DOMAIN d /\ (d[x].expireAt = 0 \/ t < d[x].expireAt)
                         /\ getLocked(a, t, x) <=> x \in DOMAIN a /\ (a[x].expireAt = 0 \/ t < a[x].expireAt)
  BY DEF WellFormed, IsKeyspace, IsEntry, getLocked, expired
<1>2. {x \in DOMAIN d : d[x].expireAt = 0 \/ t < d[x].expireAt} = {x \in DOMAIN a : a[x].expireAt = 0 \/ t < a[x].expireAt}
  BY <1>1 DEF Agree
<1> QED BY <1>1, <1>2 DEF Agree, Alive

\* What is alive later is found among what is alive now.
LEMMA AliveLater ==
    ASSUME NEW d, WellFormed(d), NEW t \in Int, NEW n \in Nat
    PROVE  Alive(d, t + n) = Alive(Alive(d, t), t + n)
  BY DEF Alive, WellFormed, IsKeyspace, IsEntry

\* The seven command disjuncts of Next are one over Command.
LEMMA ExecuteInCommand == Next =>
    \/ \E c \in Command : Execute(c)
    \/ TimePasses \/ TickerFires \/ ReceiveTick \/ Sweep \/ Close \/ StopSweeping
  BY Zenon DEF Next, Command

\* The invariant holds when New returns.
LEMMA InitInv == Init => StoreInv
<1> SUFFICES ASSUME Init PROVE StoreInv
  OBVIOUS
<1>1. WellFormed(data)
  BY DEF Init, EmptyMap, WellFormed, IsKeyspace
<1>2. now \in Nat /\ now >= Epoch /\ tick \in Nat /\ sweepTime \in Nat /\ tick <= now /\ sweepTime <= now
  BY StoreAssumption DEF Init
<1> QED BY <1>1, <1>2, InvWellFormed DEF Init, StoreInv

\* Every step preserves the invariant.
LEMMA NextInv == StoreInv /\ [Next]_vars => StoreInv'
<1> SUFFICES ASSUME StoreInv, [Next]_vars PROVE StoreInv'
  OBVIOUS
<1>0. WellFormed(data) /\ now \in Int
  BY InvWellFormed DEF StoreInv, TypeOK
<1>1. ASSUME NEW c \in Command, Execute(c) PROVE StoreInv'
  <2>1. Sound(Apply(data, now, c), Apply(data, now, c), data, now)
    BY <1>0, AgreeRefl, ApplySound
  <2>2. WellFormed(data')
    BY <1>1, <2>1 DEF Execute, Sound
  <2>3. now' \in Nat /\ now' >= Epoch /\ tick <= now' /\ sweepTime <= now'
    <3>1. now' = now + Elapsed(c) /\ Elapsed(c) \in Nat
      BY <1>1, ReadingsAfter DEF Execute
    <3> QED BY <3>1, StoreAssumption DEF StoreInv, TypeOK
  <2> QED BY <1>1, <2>2, <2>3 DEF Execute, StoreInv, TypeOK, NoEmptyContainers, WellFormed, NonEmptyEntry
<1>2. CASE TimePasses
  <2>1. now' \in Nat /\ now' >= Epoch /\ tick <= now' /\ sweepTime <= now'
    BY <1>2, StoreAssumption DEF TimePasses, StoreInv, TypeOK
  <2> QED BY <1>2, <2>1 DEF TimePasses, StoreInv, TypeOK, NoEmptyContainers
<1>3. CASE TickerFires
  BY <1>3 DEF TickerFires, StoreInv, TypeOK, NoEmptyContainers
<1>4. CASE ReceiveTick
  BY <1>4 DEF ReceiveTick, StoreInv, TypeOK, NoEmptyContainers
<1>5. CASE Sweep
  <2>1. WellFormed(data')
    BY <1>0, <1>5, DeleteWF DEF Sweep
  <2> QED BY <1>5, <2>1 DEF Sweep, StoreInv, TypeOK, NoEmptyContainers, WellFormed, NonEmptyEntry
<1>6. CASE Close
  BY <1>6 DEF Close, StoreInv, TypeOK, NoEmptyContainers
<1>7. CASE StopSweeping
  BY <1>7 DEF StopSweeping, StoreInv, TypeOK, NoEmptyContainers
<1>8. CASE UNCHANGED vars
  BY <1>8 DEF vars, StoreInv, TypeOK, NoEmptyContainers
<1> QED BY <1>1, <1>2, <1>3, <1>4, <1>5, <1>6, <1>7, <1>8, ExecuteInCommand

\* The inductive invariant holds in every reachable state of the store, whatever
\* commands run and however late the sweeper gets its lock.
THEOREM StoreInvariant == Spec => []StoreInv
  BY InitInv, NextInv, PTL DEF Spec

\* Store.data always holds entries of the declared types, however it was reached.
THEOREM StoreTyped == Spec => []TypeOK
<1>1. StoreInv => TypeOK
  BY DEF StoreInv
<1> QED BY <1>1, StoreInvariant, PTL

\* The "no empty containers" rule of HDel, SRem, ZRem, LPop and RPop holds for the
\* whole map, in every reachable state.
THEOREM StoreNonEmpty == Spec => []NoEmptyContainers
<1>1. StoreInv => NoEmptyContainers
  BY DEF StoreInv
<1> QED BY <1>1, StoreInvariant, PTL

\* In every reachable state, a command that Dispatch does not hand to OnWrite (it
\* lacks the Write flag, or it replies with an error) leaves Store.data as it was.
THEOREM UnloggedTheorem == Spec => []UnloggedLeaveNoTrace
<1>1. StoreInv => UnloggedLeaveNoTrace
  <2> SUFFICES ASSUME StoreInv, NEW c \in Command,
                      c.op \notin Write \/ IsError(Apply(data, now, c).reply)
               PROVE  Apply(data, now, c).data = data
    BY DEF UnloggedLeaveNoTrace
  <2>1. WellFormed(data) /\ now \in Int
    BY InvWellFormed DEF StoreInv, TypeOK
  <2>2. Sound(Apply(data, now, c), Apply(data, now, c), data, now)
    BY <2>1, AgreeRefl, ApplySound
  <2> QED BY <2>2, ReadsLeaveData DEF Sound
<1> QED BY <1>1, StoreInvariant, PTL

\* DECRBY is IncrBy of the wrapped negative.
LEMMA DecrByIs ==
    ASSUME NEW d, NEW t, NEW k, NEW y
    PROVE  Apply(d, t, [op |-> "DECRBY", key |-> k, delta |-> y]) = IncrBy(d, t, k, Neg64(y))
  BY DEF Apply

\* INCRBY and DECRBY are exact for every width of the integers: IncrBy's test on the
\* wrapped sum finds each overflow and nothing else.
THEOREM CounterTheorem == Spec => []CounterExact
<1>1. StoreInv => CounterExact
  <2> SUFFICES ASSUME StoreInv, NEW k \in Key, NEW y \in Int64,
                      ~OrWrongType(data, now, k, KindString),
                      NEW x, x = (IF getLocked(data, now, k) THEN ParseInt(data[k].val) ELSE 0),
                      x # NotAnInteger
               PROVE  /\ IF x + y \in Int64 THEN IncrBy(data, now, k, y).reply = Number(x + y)
                         ELSE IncrBy(data, now, k, y) = Result(data, Overflow)
                      /\ y # MinInt =>
                            IF x - y \in Int64 THEN IncrBy(data, now, k, Neg64(y)).reply = Number(x - y)
                            ELSE IncrBy(data, now, k, Neg64(y)) = Result(data, Overflow)
    BY DecrByIs DEF CounterExact
  <2>1. WellFormed(data)
    BY InvWellFormed DEF StoreInv
  <2>2. x \in Int64
    BY <2>1, IncrByExact
  <2>3. Neg64(y) \in Int64 /\ (y # MinInt => x + Neg64(y) = x - y)
    BY <2>2, Neg64Type, KeyspaceAssumption DEF Neg64, Int64, MinInt
  <2> QED BY <2>1, <2>3, IncrByExact
<1> QED BY <1>1, StoreInvariant, PTL

\* The reference definition is what clampIndex and the slicing compute, unless the
\* range ends before the first element.
LEMMA ShownIsSlice ==
    ASSUME NEW S, NEW s \in Seq(S), NEW i \in Int, NEW j \in Int, j >= -Len(s)
    PROVE  Slice(s, i, j) = Shown(s, i, j)
<1> DEFINE n  == Len(s)
           lo == clampIndex(i, n)
           hi == IF clampIndex(j, n) > n - 1 THEN n - 1 ELSE clampIndex(j, n)
<1>1. Slice(s, i, j) = Between(s, lo, hi)
  BY SliceIs
<1>2. n \in Nat
  OBVIOUS
<1>3. clampIndex(i, n) = IF FromHead(i, n) < 0 THEN 0 ELSE FromHead(i, n)
  BY <1>2 DEF clampIndex, FromHead
<1>4. clampIndex(j, n) = FromHead(j, n)
  BY <1>2 DEF clampIndex, FromHead
<1> QED BY <1>1, <1>3, <1>4 DEF Shown, Between

\* A single position shows one element, or none.
LEMMA ShownOne ==
    ASSUME NEW S, NEW s \in Seq(S), NEW i \in Int
    PROVE  /\ FromHead(i, Len(s)) \in Int
           /\ FromHead(i, Len(s)) < 0 \/ FromHead(i, Len(s)) >= Len(s) => Shown(s, i, i) = <<>>
           /\ FromHead(i, Len(s)) \in 0 .. Len(s) - 1 =>
                /\ Shown(s, i, i) # <<>>
                /\ Shown(s, i, i)[1] = s[FromHead(i, Len(s)) + 1]
<1> DEFINE n == Len(s)
           p == FromHead(i, n)
           first == IF p < 0 THEN 0 ELSE p
           end == IF p > n - 1 THEN n - 1 ELSE p
<1>1. n \in Nat /\ p \in Int
  BY DEF FromHead
<1>2. Shown(s, i, i) = Between(s, first, end)
  BY <1>1 DEF Shown, Between
<1> HIDE DEF p
<1>3. CASE p < 0 \/ p >= n
  <2>1. first > end /\ first \in Int /\ end \in Int
    BY <1>1, <1>3
  <2> QED BY <1>1, <1>2, <1>3, <2>1, EmptyBetween DEF p
<1>4. CASE p \in 0 .. n - 1
  <2>1. first = p /\ end = p
    BY <1>1, <1>4
  <2>2. Between(s, p, p) = [x \in {1} |-> s[p + x]]
    <3>1. 1 .. p - p + 1 = {1}
      BY <1>1
    <3> QED BY <3>1 DEF Between
  <2>3. Between(s, p, p)[1] = s[p + 1] /\ DOMAIN Between(s, p, p) # {}
    BY <2>2
  <2> QED BY <1>1, <1>2, <1>4, <2>1, <2>3 DEF p
<1> QED BY <1>1, <1>3, <1>4

\* A range of what is shown of each element is what is shown of the range.
LEMMA ShownOfEach ==
    ASSUME NEW S, NEW s \in Seq(S), NEW z, NEW i \in Int, NEW j \in Int
    PROVE  Scored(z, Shown(s, i, j)) = Shown(Scored(z, s), i, j)
<1> SUFFICES ASSUME NEW t, t = [x \in DOMAIN s |-> <<s[x], z[s[x]]>>],
                    NEW ms, ms = Shown(s, i, j)
             PROVE  [x \in DOMAIN ms |-> <<ms[x], z[ms[x]]>>] = Shown(t, i, j)
  BY DEF Scored
<1> DEFINE n     == Len(s)
           p     == FromHead(i, n)
           q     == FromHead(j, n)
           first == IF p < 0 THEN 0 ELSE p
           end   == IF q > n - 1 THEN n - 1 ELSE q
           D     == 1 .. end - first + 1
<1>1. n \in Nat /\ DOMAIN s = 1 .. n /\ p \in Int /\ q \in Int
  BY DEF FromHead
<1>2. Len(t) = n
  <2>1. t \in Seq({<<s[x], z[s[x]]>> : x \in 1 .. n}) /\ DOMAIN t = 1 .. n
    BY <1>1
  <2> QED BY <1>1, <2>1
<1>3. ms = [x \in D |-> s[first + x]]
  BY DEF Shown
<1>4. Shown(t, i, j) = [x \in D |-> t[first + x]]
  <2>1. Shown(t, i, j) =
            Between(t, IF FromHead(i, Len(t)) < 0 THEN 0 ELSE FromHead(i, Len(t)),
                       IF FromHead(j, Len(t)) > Len(t) - 1 THEN Len(t) - 1 ELSE FromHead(j, Len(t)))
    BY DEF Shown, Between
  <2>2. Shown(t, i, j) = Between(t, first, end)
    BY <1>2, <2>1
  <2> QED BY <2>2 DEF Between
<1> HIDE DEF p, q
<1>5. ASSUME NEW x \in D PROVE first + x \in 1 .. n
  BY <1>1
<1> HIDE DEF D, first, n
<1>6. ASSUME NEW x \in D PROVE ms[x] = s[first + x] /\ t[first + x] = <<s[first + x], z[s[first + x]]>>
  BY <1>1, <1>3, <1>5
<1>7. DOMAIN ms = D
  BY <1>3
<1>8. \A x \in D : <<ms[x], z[ms[x]]>> = t[first + x]
  BY <1>6, Zenon
<1>9. [x \in DOMAIN ms |-> <<ms[x], z[ms[x]]>>] = [x \in D |-> t[first + x]]
  BY <1>7, <1>8, Zenon
<1> QED BY <1>4, <1>9

\* LRANGE, LINDEX and ZRANGE reply with the elements at the positions asked for, for lists
\* and sorted sets of any length and positions on both sides of both ends.
THEOREM ListRangesTheorem == Spec => []ListRanges
<1>1. StoreInv => ListRanges
  <2> SUFFICES ASSUME StoreInv PROVE ListRanges
    OBVIOUS
  <2>1. Position \subseteq Int
    BY StoreAssumption DEF Position
  <2>2. ASSUME NEW k \in Lists PROVE data[k].val \in Seq(Str) /\ ~OrWrongType(data, now, k, KindList)
    BY PayloadByKind DEF Lists, OrWrongType, StoreInv, TypeOK, IsKeyspace, IsEntry
  <2>3. ASSUME NEW k \in ZSets PROVE IsMap(data[k].val, Str, Score) /\ ~OrWrongType(data, now, k, KindZSet)
    BY PayloadByKind DEF ZSets, OrWrongType, StoreInv, TypeOK, IsKeyspace, IsEntry
  <2>4. ASSUME NEW k \in Lists, NEW i \in Position, NEW j \in Position, j >= -Len(data[k].val)
        PROVE  ListShows(k, i, j)
    <3>1. LRange(data, now, k, i, j) = List(Slice(data[k].val, i, j))
      BY <2>2 DEF LRange, Reading, Lists
    <3> QED BY <2>1, <2>2, <2>4, <3>1, ShownIsSlice DEF ListShows
  <2>5. ASSUME NEW k \in ZSets, NEW i \in Position, NEW j \in Position,
               j >= -Cardinality(DOMAIN data[k].val)
        PROVE  ZSetShows(k, i, j)
    <3> DEFINE z  == data[k].val
               ms == Slice(sorted(z), i, j)
    <3>1. sorted(z) \in Seq(DOMAIN z) /\ Len(sorted(z)) = Cardinality(DOMAIN z)
      BY <2>3, SortedIs
    <3>2. ms = Shown(sorted(z), i, j)
      BY <2>1, <2>5, <3>1, ShownIsSlice
    <3>3. ZRange(data, now, k, i, j) = List(Scored(z, ms))
      BY <2>3 DEF ZRange, Reading, ZSets, Scored
    <3> HIDE DEF z, ms
    <3>4. Scored(z, ms) = Shown(Scored(z, sorted(z)), i, j)
      BY <2>1, <3>1, <3>2, ShownOfEach
    <3> QED BY <3>3, <3>4 DEF ZSetShows, z
  <2>6. ASSUME NEW k \in Lists, NEW i \in Position
        PROVE  LET shown == Shown(data[k].val, i, i)
               IN  LIndex(data, now, k, i) = IF shown = <<>> THEN Null ELSE Bulk(shown[1])
    <3> DEFINE s == data[k].val
               p == FromHead(i, Len(s))
    <3>1. LIndex(data, now, k, i) = IF p < 0 \/ p >= Len(s) THEN Null ELSE Bulk(s[p + 1])
      BY <2>2 DEF LIndex, Reading, FromHead, Lists
    <3>2. /\ p \in Int /\ Len(s) \in Nat
          /\ p < 0 \/ p >= Len(s) => Shown(s, i, i) = <<>>
          /\ p \in 0 .. Len(s) - 1 => Shown(s, i, i) # <<>> /\ Shown(s, i, i)[1] = s[p + 1]
      BY <2>1, <2>2, ShownOne
    <3> HIDE DEF p, s
    <3> QED BY <3>1, <3>2 DEF s
  <2> QED BY <2>4, <2>5, <2>6 DEF ListRanges
<1> QED BY <1>1, StoreInvariant, PTL

\* A range of one position of a sequence holds the element there.
LEMMA SliceOne ==
    ASSUME NEW S, NEW s \in Seq(S), NEW r \in 0 .. Len(s) - 1
    PROVE  Slice(s, r, r) = <<s[r + 1]>>
<1>1. r \in Int /\ Len(s) \in Nat /\ r >= 0 /\ ~(r >= Len(s))
  OBVIOUS
<1>2. clampIndex(r, Len(s)) = r /\ ~(r > Len(s) - 1)
  BY <1>1 DEF clampIndex
<1>3. Slice(s, r, r) = Between(s, r, r)
  BY <1>1, <1>2, SliceIs
<1>4. 1 .. r - r + 1 = {1}
  BY <1>1
<1>5. Between(s, r, r) = [x \in {1} |-> s[r + x]]
  BY <1>4 DEF Between
<1> QED BY <1>3, <1>5

\* Of one member ZRANGE shows the member and its score.
LEMMA ShowOne ==
    ASSUME NEW z, NEW m
    PROVE  [i \in DOMAIN <<m>> |-> << <<m>>[i], z[<<m>>[i]] >>] = << <<m, z[m]>> >>
  OBVIOUS

\* ZRANK and ZRANGE agree on one strict order of the members of a sorted set of any size,
\* in which every rank is taken, though each of them sorts anew.
THEOREM RanksTheorem == Spec => []RanksAgree
<1>1. StoreInv => RanksAgree
  <2> SUFFICES ASSUME StoreInv, NEW k \in DOMAIN data, getLocked(data, now, k), data[k].kind = KindZSet,
                      NEW z, z = data[k].val
               PROVE  /\ \A r \in 0 .. Cardinality(DOMAIN z) - 1 : \E m \in DOMAIN z :
                            /\ ZRank(data, now, k, m)[2] = r
                            /\ ZRange(data, now, k, r, r) = List(<< <<m, z[m]>> >>)
                      /\ \A m, o \in DOMAIN z :
                            Less(z, m, o) => ZRank(data, now, k, m)[2] < ZRank(data, now, k, o)[2]
    BY DEF RanksAgree, Less
  <2>1. IsMap(z, Str, Score)
    BY PayloadByKind DEF StoreInv, TypeOK, IsKeyspace, IsEntry
  <2>2. ~OrWrongType(data, now, k, KindZSet)
    BY DEF OrWrongType
  <2>3. ASSUME NEW m \in DOMAIN z
        PROVE  ZRank(data, now, k, m)[2] = Cardinality(Before(z, m))
    <3>1. ZRank(data, now, k, m) = Number(Rank(z, m))
      BY <2>2 DEF ZRank, Reading
    <3>2. Number(Rank(z, m))[2] = Rank(z, m)
      BY DEF Number
    <3> QED BY <2>1, <3>1, <3>2, SortedIs
  <2>4. ASSUME NEW r \in 0 .. Cardinality(DOMAIN z) - 1
        PROVE  \E m \in DOMAIN z : /\ ZRank(data, now, k, m)[2] = r
                                   /\ ZRange(data, now, k, r, r) = List(<< <<m, z[m]>> >>)
    <3>1. PICK m \in DOMAIN z : Cardinality(Before(z, m)) = r
      BY <2>1, PlacesTaken
    <3>2. sorted(z) \in Seq(DOMAIN z) /\ Len(sorted(z)) = Cardinality(DOMAIN z) /\ sorted(z)[r + 1] = m
      BY <2>1, <3>1, SortedIs
    <3>3. Slice(sorted(z), r, r) = <<m>>
      BY <3>2, SliceOne
    <3>4. ZRange(data, now, k, r, r) = List([i \in DOMAIN <<m>> |-> << <<m>>[i], z[<<m>>[i]] >>])
      BY <2>2, <3>3 DEF ZRange, Reading
    <3> QED BY <2>3, <3>1, <3>4, ShowOne
  <2>5. ASSUME NEW m \in DOMAIN z, NEW o \in DOMAIN z, Less(z, m, o)
        PROVE  ZRank(data, now, k, m)[2] < ZRank(data, now, k, o)[2]
    BY <2>1, <2>3, <2>5, BeforeGrows
  <2> QED BY <2>4, <2>5
<1> QED BY <1>1, StoreInvariant, PTL

\* Initial states map to initial states.
LEMMA RefineInit == Init => Live!LiveInit
  BY DEF Init, Live!LiveInit, Alive, EmptyMap

\* A command maps to Run, time passing to TimePasses, every other step to a stutter.
LEMMA RefineNext == StoreInv /\ [Next]_vars => [Live!LiveNext]_<<Alive(data, now), now, last>>
<1> SUFFICES ASSUME StoreInv, [Next]_vars
             PROVE  Live!LiveNext \/ (Alive(data, now)' = Alive(data, now) /\ now' = now /\ last' = last)
  OBVIOUS
<1>0. WellFormed(data) /\ now \in Int /\ sweepTime \in Int /\ sweepTime <= now
  BY InvWellFormed DEF StoreInv, TypeOK
<1>1. ASSUME NEW c \in Command, Execute(c) PROVE c \in {last'.cmd} \cap Command /\ Live!Run(c)
  <2> DEFINE a == Alive(data, now)
  <2>1. WellFormed(a) /\ Agree(data, a, now)
    BY <1>0, AliveAgrees
  <2>2. /\ Sound(Apply(data, now, c), Apply(a, now, c), data, now)
        /\ Sound(Apply(a, now, c), Apply(a, now, c), a, now)
    BY <1>0, <2>1, AgreeRefl, ApplySound
  <2>3. Alive(Apply(data, now, c).data, now) = Alive(Apply(a, now, c).data, now)
    BY <1>0, <2>2, AgreeAlive DEF Sound
  <2>4. Apply(data, now, c).reply = Apply(a, now, c).reply
    BY <2>2 DEF Sound
  <2>5. /\ data' = Apply(data, now, c).data /\ now' = now + Elapsed(c)
        /\ last' = [cmd |-> c, reply |-> Apply(data, now, c).reply]
    BY <1>1 DEF Execute
  <2>6. Alive(data', now') = Alive(Apply(a, now, c).data, now')
    <3>1. WellFormed(Apply(data, now, c).data) /\ WellFormed(Apply(a, now, c).data)
      BY <2>2 DEF Sound
    <3> DEFINE x == Apply(data, now, c).data
               y == Apply(a, now, c).data
    <3>2. Elapsed(c) \in Nat
      BY ReadingsAfter
    <3> HIDE DEF x, y
    <3>3. /\ Alive(x, now + Elapsed(c)) = Alive(Alive(x, now), now + Elapsed(c))
          /\ Alive(y, now + Elapsed(c)) = Alive(Alive(y, now), now + Elapsed(c))
      BY <1>0, <3>1, <3>2, AliveLater DEF x, y
    <3>4. Alive(x, now) = Alive(y, now) /\ data' = x
      BY <2>3, <2>5 DEF x, y
    <3> QED BY <2>5, <3>3, <3>4 DEF y
  <2> QED BY <2>4, <2>5, <2>6 DEF Live!Run, Live!Alive, Alive
<1>2. CASE TimePasses
  <2>1. Alive(data, now + 1) = Alive(Alive(data, now), now + 1)
    BY <1>0, AliveLater
  <2> QED BY <1>2, <2>1 DEF TimePasses, Live!LiveNext, Live!TimePasses, Live!Alive, Alive
<1>3. CASE Sweep
  <2> DEFINE b == Delete(data, {k \in DOMAIN data : expired(data[k], sweepTime)})
  <2>1. Agree(data, b, now)
    BY <1>0 DEF Agree, Delete, Restrict, getLocked, expired, WellFormed, IsKeyspace, IsEntry
  <2>2. WellFormed(b)
    BY <1>0, DeleteWF
  <2>3. Alive(b, now) = Alive(data, now)
    BY <1>0, <2>1, <2>2, AgreeAlive
  <2> QED BY <1>3, <2>3 DEF Sweep
<1>4. CASE TickerFires \/ ReceiveTick \/ Close \/ StopSweeping \/ UNCHANGED vars
  BY <1>4 DEF TickerFires, ReceiveTick, Close, StopSweeping, vars
<1> QED BY <1>1, <1>2, <1>3, <1>4, ExecuteInCommand DEF Live!LiveNext

\* The store with lazy expiry (getLocked) and a sweeper that works with a stale clock
\* (sweepExpired) implements a keyspace whose keys vanish at their deadline: no reply
\* and no effect of a command depends on the expired entries still in the map.
THEOREM StoreRefinesLive == Spec => ExpiryIsInstantaneous
  BY RefineInit, RefineNext, StoreInvariant, PTL DEF Spec, ExpiryIsInstantaneous, Live!LiveSpec
=============================================================================
