--------------------------- MODULE MCPersistence ----------------------------
(* Persistence on small instances.                                         *)
EXTENDS Persistence, TLC

CONSTANTS k1, k2, k3, c1, c2    \* keys, connections

MCStr == {"-2", "-1", "0", "1", "x"}

MCParseInt(s) ==
    CASE s = "-2" -> -2 [] s = "-1" -> -1 [] s = "0" -> 0 [] s = "1" -> 1 [] OTHER -> NotAnInteger

MCFormatInt(n) == CASE n = -2 -> "-2" [] n = -1 -> "-1" [] n = 0 -> "0" [] n = 1 -> "1"

MCConcat(s, t) == "x"
MCLength(s) == 1

\* The order of their bytes.
Sorted == <<"-1", "-2", "0", "1", "x">>
MCPrecedes(s, t) == \E i, j \in DOMAIN Sorted : i < j /\ Sorted[i] = s /\ Sorted[j] = t

Plain  == [HasTTL |-> FALSE, TTL |-> 0, OnlyIfNew |-> FALSE, OnlyIfOld |-> FALSE]
MCOptions == {Plain}

SET(k, v)    == [op |-> "SET", key |-> k, val |-> v, opts |-> Plain]
INCRBY(k, n) == [op |-> "INCRBY", key |-> k, delta |-> n]
RPUSH(k, v)  == [op |-> "RPUSH", key |-> k, elems |-> <<v>>]
SADD(k, m)   == [op |-> "SADD", key |-> k, members |-> {m}]
EXPIRE(k, n) == [op |-> "EXPIRE", key |-> k, ttl |-> n]

\* The commands of the first client do not commute and fail in places (INCRBY on a
\* list, and at 1, where it overflows; RENAME without a source); the second
\* client only adds to the set k3, which the two share.
PrivateRequests ==
    (c1 :> Control \cup {INCRBY(k1, 1), RPUSH(k1, "x"), SADD(k3, "0"),
                         [op |-> "RENAME", key |-> k1, dst |-> k2]})
    @@ (c2 :> {[op |-> "MULTI"], [op |-> "EXEC"], SADD(k3, "1")})

\* Two clients write the same key.
SharedRequests == (c1 :> {SET(k1, "0")}) @@ (c2 :> {SET(k1, "1")})

TTLRequests == c1 :> {SET(k1, "0"), EXPIRE(k1, 1)}

WriteRequests == c1 :> {SET(k1, "0"), SET(k1, "1")}

BatchRequests ==
    (c1 :> {[op |-> "MULTI"], [op |-> "EXEC"], SET(k1, "0")}) @@ (c2 :> {SET(k1, "1")})
=============================================================================
